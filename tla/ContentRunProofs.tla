-------------------------- MODULE ContentRunProofs --------------------------
(***************************************************************************)
(* Proofs about ContentRun and ContentSnapshot, for every set of candidate *)
(* streams, every set of raw actions and every budget.                     *)
(***************************************************************************)
EXTENDS ContentSnapshot, SequenceTheorems, WellFoundedInduction, TLAPS

(* Every nonempty set of naturals has a least member.                      *)
LEMMA LeastMember ==
    ASSUME NEW T, T \subseteq Nat, T # {}
    PROVE  \E x \in T : \A y \in T : x <= y
<1>1. PICK x \in T : \A y \in T : ~ (<<y, x>> \in OpToRel(<, Nat))
    BY NatLessThanWellFounded, WFMin
<1>2. \A a, b \in Nat : a < b => <<a, b>> \in OpToRel(<, Nat)
    BY DEF OpToRel
<1>3. \A y \in T : x <= y
    <2> SUFFICES ASSUME NEW y \in T, ~(x <= y)
                 PROVE  FALSE
        OBVIOUS
    <2>1. y \in Nat /\ x \in Nat /\ y < x
        OBVIOUS
    <2> QED BY <1>1, <1>2, <2>1
<1> QED BY <1>3

(* bisect_left has a place for every region in an ascending buffer.        *)
LEMMA BisectLeftFinds ==
    ASSUME NEW buffer \in Seq(Regions), NEW region \in Regions, Ascending(buffer)
    PROVE  /\ BisectLeft(buffer, region) \in 0 .. Len(buffer)
           /\ \A i \in 1 .. BisectLeft(buffer, region) : buffer[i] < region
           /\ \A i \in BisectLeft(buffer, region) + 1 .. Len(buffer) : buffer[i] >= region
<1> DEFINE Above == {k \in 0 .. Len(buffer) :
                        k = Len(buffer) \/ buffer[k + 1] >= region}
<1>1. Above \subseteq Nat /\ Above # {}
    <2>1. Len(buffer) \in Nat
        OBVIOUS
    <2> QED BY <2>1
<1>2. PICK at \in Above : \A k \in Above : at <= k
    BY <1>1, LeastMember
<1>3. /\ \A i \in 1 .. Len(buffer) : buffer[i] \in Nat
      /\ region \in Nat
    BY RecordIds, ElementOfSeq
<1>4. \A i \in 1 .. at : buffer[i] < region
    <2> SUFFICES ASSUME NEW i \in 1 .. at
                 PROVE  buffer[i] < region
        OBVIOUS
    <2>1. i - 1 \in 0 .. Len(buffer) /\ i - 1 # Len(buffer) /\ ~(at <= i - 1)
        BY <1>2
    <2>2. i - 1 \notin Above
        BY <1>2, <2>1
    <2>3. ~(buffer[(i - 1) + 1] >= region)
        BY <2>1, <2>2
    <2> QED BY <1>3, <2>1, <2>3, (i - 1) + 1 = i
<1>5. \A i \in at + 1 .. Len(buffer) : buffer[i] >= region
    <2> SUFFICES ASSUME NEW i \in at + 1 .. Len(buffer)
                 PROVE  buffer[i] >= region
        OBVIOUS
    <2>1. at # Len(buffer) /\ buffer[at + 1] >= region
        BY <1>2
    <2>2. i = at + 1 \/ buffer[at + 1] < buffer[i]
        BY <1>2 DEF Ascending
    <2> QED BY <1>2, <1>3, <2>1, <2>2
<1> QED BY <1>2, <1>4, <1>5 DEF BisectLeft

(* Where insertion puts a new region, and what it leaves where it was.     *)
LEMMA InsortPlaces ==
    ASSUME NEW buffer \in Seq(Regions), NEW region \in Regions,
           Ascending(buffer), ~Occurs(region, buffer)
    PROVE  LET at  == BisectLeft(buffer, region)
               new == Insort(buffer, region)
           IN  /\ at \in 0 .. Len(buffer)
               /\ \A i \in 1 .. at : buffer[i] < region
               /\ \A i \in at + 1 .. Len(buffer) : buffer[i] > region
               /\ new \in Seq(Regions) /\ Len(new) = Len(buffer) + 1
               /\ \A i \in 1 .. at : new[i] = buffer[i]
               /\ new[at + 1] = region
               /\ \A i \in at + 2 .. Len(buffer) + 1 : new[i] = buffer[i - 1]
<1> DEFINE at == BisectLeft(buffer, region)
           low == SubSeq(buffer, 1, at)
           high == SubSeq(buffer, at + 1, Len(buffer))
           new == Insort(buffer, region)
<1>1. /\ at \in 0 .. Len(buffer)
      /\ \A i \in 1 .. at : buffer[i] < region
      /\ \A i \in at + 1 .. Len(buffer) : buffer[i] > region
    <2>1. \A i \in 1 .. Len(buffer) : buffer[i] # region
        BY DEF Occurs
    <2>2. /\ \A i \in 1 .. Len(buffer) : buffer[i] \in Nat
          /\ region \in Nat
        BY RecordIds, ElementOfSeq
    <2> QED BY <2>1, <2>2, BisectLeftFinds
<1> HIDE DEF at
<1>2. /\ low \in Seq(Regions) /\ Len(low) = at
      /\ \A i \in 1 .. at : low[i] = buffer[i]
    BY <1>1, SubSeqProperties
<1>3. /\ high \in Seq(Regions) /\ Len(high) = Len(buffer) - at
      /\ \A i \in 1 .. Len(buffer) - at : high[i] = buffer[at + i]
    BY <1>1, SubSeqProperties
<1>4. <<region>> \in Seq(Regions) /\ Len(<<region>>) = 1 /\ <<region>>[1] = region
    OBVIOUS
<1>5. new = low \o <<region>> \o high
    BY DEF Insort, at
<1> HIDE DEF low, high
<1>6. /\ low \o <<region>> \in Seq(Regions) /\ Len(low \o <<region>>) = at + 1
      /\ \A i \in 1 .. at : (low \o <<region>>)[i] = buffer[i]
      /\ (low \o <<region>>)[at + 1] = region
    BY <1>1, <1>2, <1>4, ConcatProperties
<1> DEFINE front == low \o <<region>>
<1> HIDE DEF front
<1>7. /\ new \in Seq(Regions) /\ Len(new) = Len(buffer) + 1
      /\ \A i \in 1 .. at : new[i] = buffer[i]
      /\ new[at + 1] = region
      /\ \A i \in at + 2 .. Len(buffer) + 1 : new[i] = buffer[i - 1]
    <2>1. /\ front \in Seq(Regions) /\ Len(front) = at + 1
          /\ \A i \in 1 .. at : front[i] = buffer[i]
          /\ front[at + 1] = region
          /\ new = front \o high
        BY <1>5, <1>6 DEF front
    <2>2. /\ new \in Seq(Regions)
          /\ Len(new) = Len(front) + Len(high)
          /\ \A i \in 1 .. Len(front) + Len(high) :
                new[i] = IF i <= Len(front) THEN front[i] ELSE high[i - Len(front)]
        <3> HIDE DEF front
        <3>1. front \in Seq(Regions) /\ high \in Seq(Regions) /\ new = front \o high
            BY <1>3, <2>1
        <3> QED BY <3>1, ConcatProperties
    <2>3. Len(new) = Len(buffer) + 1
        BY <1>1, <1>3, <2>1, <2>2
    <2>4. \A i \in 1 .. at + 1 : new[i] = front[i]
        BY <1>1, <1>3, <2>1, <2>2
    <2>5. \A i \in at + 2 .. Len(buffer) + 1 : new[i] = buffer[i - 1]
        <3> SUFFICES ASSUME NEW i \in at + 2 .. Len(buffer) + 1
                     PROVE  new[i] = buffer[i - 1]
            OBVIOUS
        <3>1. new[i] = high[i - (at + 1)]
            BY <1>1, <1>3, <2>1, <2>2
        <3>2. i - (at + 1) \in 1 .. Len(buffer) - at /\ at + (i - (at + 1)) = i - 1
            BY <1>1
        <3> QED BY <1>3, <3>1, <3>2
    <2> QED BY <1>1, <2>1, <2>2, <2>3, <2>4, <2>5
<1> QED BY <1>1, <1>7 DEF at

(* Inserting a new region keeps an ascending buffer ascending.             *)
LEMMA InsortAscends ==
    ASSUME NEW buffer \in Seq(Regions), NEW region \in Regions,
           Ascending(buffer), ~Occurs(region, buffer)
    PROVE  /\ Insort(buffer, region) \in Seq(Regions)
           /\ Ascending(Insort(buffer, region))
<1> DEFINE at == BisectLeft(buffer, region)
           new == Insort(buffer, region)
<1>1. /\ at \in 0 .. Len(buffer)
      /\ \A i \in 1 .. at : buffer[i] < region
      /\ \A i \in at + 1 .. Len(buffer) : buffer[i] > region
    BY InsortPlaces
<1>2. /\ new \in Seq(Regions) /\ Len(new) = Len(buffer) + 1
      /\ \A i \in 1 .. at : new[i] = buffer[i]
      /\ new[at + 1] = region
      /\ \A i \in at + 2 .. Len(buffer) + 1 : new[i] = buffer[i - 1]
    BY InsortPlaces
<1> HIDE DEF at
<1> HIDE DEF new
<1>3. ASSUME NEW i \in 1 .. Len(new), NEW j \in 1 .. Len(new), i < j
      PROVE  new[i] < new[j]
    <2>1. \A a, b \in 1 .. Len(buffer) : a < b => buffer[a] < buffer[b]
        BY DEF Ascending
    <2>2. /\ \A k \in 1 .. Len(buffer) : buffer[k] \in Nat
          /\ region \in Nat
        BY RecordIds, ElementOfSeq
    <2>3. CASE j <= at
        <3>1. i \in 1 .. at /\ j \in 1 .. at
            BY <1>1, <1>2, <1>3, <2>3
        <3>2. new[i] = buffer[i] /\ new[j] = buffer[j]
            BY <1>2, <3>1
        <3>3. i \in 1 .. Len(buffer) /\ j \in 1 .. Len(buffer)
            BY <1>1, <3>1
        <3> QED BY <1>3, <2>1, <3>2, <3>3
    <2>4. CASE j = at + 1
        <3>1. i \in 1 .. at
            BY <1>1, <1>2, <1>3, <2>4
        <3> QED BY <1>1, <1>2, <2>4, <3>1
    <2>5. CASE j > at + 1
        <3>1. j - 1 \in at + 1 .. Len(buffer) /\ new[j] = buffer[j - 1]
            BY <1>1, <1>2, <2>5
        <3>2. CASE i <= at
            <4>1. i \in 1 .. at
                BY <1>1, <1>2, <3>2
            <4>2. i \in 1 .. Len(buffer) /\ j - 1 \in 1 .. Len(buffer) /\ i < j - 1
                BY <1>1, <3>1, <4>1
            <4>3. new[i] = buffer[i]
                BY <1>2, <4>1
            <4> QED BY <2>1, <3>1, <4>2, <4>3
        <3>3. CASE i = at + 1
            BY <1>1, <1>2, <3>1, <3>3
        <3>4. CASE i > at + 1
            <4>1. i - 1 \in 1 .. Len(buffer) /\ new[i] = buffer[i - 1] /\ i - 1 < j - 1
                BY <1>1, <1>2, <1>3, <3>4
            <4> QED BY <2>1, <3>1, <4>1
        <3> QED BY <1>1, <3>2, <3>3, <3>4
    <2> QED BY <1>1, <2>3, <2>4, <2>5
<1> QED BY <1>2, <1>3 DEF new, Ascending

(* It adds the region and nothing else.                                    *)
LEMMA InsortMembers ==
    ASSUME NEW buffer \in Seq(Regions), NEW region \in Regions,
           Ascending(buffer), ~Occurs(region, buffer),
           NEW S, region \in S, \A i \in DOMAIN buffer : buffer[i] \in S
    PROVE  \A i \in DOMAIN Insort(buffer, region) : Insort(buffer, region)[i] \in S
<1> DEFINE at == BisectLeft(buffer, region)
           new == Insort(buffer, region)
<1>1. /\ at \in 0 .. Len(buffer)
      /\ new \in Seq(Regions) /\ Len(new) = Len(buffer) + 1
      /\ \A i \in 1 .. at : new[i] = buffer[i]
      /\ new[at + 1] = region
      /\ \A i \in at + 2 .. Len(buffer) + 1 : new[i] = buffer[i - 1]
    BY InsortPlaces
<1> HIDE DEF at, new
<1>2. ASSUME NEW i \in 1 .. Len(new)
      PROVE  new[i] \in S
    <2>1. CASE i <= at
        BY <1>1, <2>1
    <2>2. CASE i = at + 1
        BY <1>1, <2>2
    <2>3. CASE i > at + 1
        <3>1. new[i] = buffer[i - 1] /\ i - 1 \in 1 .. Len(buffer)
            BY <1>1, <2>3
        <3> QED BY <3>1
    <2> QED BY <1>1, <2>1, <2>2, <2>3
<1> QED BY <1>1, <1>2 DEF new

(* A select the interpreter accepts leads from a legal buffer to a legal   *)
(* buffer, whatever the response shape.                                    *)
LEMMA SelectedLegal ==
    ASSUME NEW lesson \in LessonNode, ResponseSchema(lesson),
           NEW buffer \in Seq(Regions), LegalBuffer(lesson, buffer),
           lesson.response_shape # "sequence" => Ascending(buffer),
           NEW region, SelectResult(lesson, buffer, region) = "selected"
    PROVE  LegalBuffer(lesson, Selected(lesson, buffer, region))
<1> DEFINE new == Selected(lesson, buffer, region)
<1>1. /\ region \in lesson.selectable /\ region \in Regions
      /\ Occurs(region, buffer) => MayRepeat(lesson)
      /\ lesson.max_selections \in Nat /\ Len(buffer) < lesson.max_selections
    <2>1. lesson.max_selections \in Nat /\ lesson.selectable \subseteq Regions
        BY DEF LessonNode
    <2>2. region \in lesson.selectable /\ ~(Len(buffer) >= lesson.max_selections)
        BY DEF SelectResult
    <2>3. Occurs(region, buffer) => MayRepeat(lesson)
        BY <2>2 DEF SelectResult
    <2> QED BY <2>1, <2>2, <2>3
<1>2. CASE lesson.response_shape = "sequence"
    <2>1. new = Append(buffer, region)
        BY <1>2 DEF Selected
    <2>2. /\ new \in Seq(Regions) /\ Len(new) = Len(buffer) + 1
          /\ \A i \in 1 .. Len(buffer) : new[i] = buffer[i]
          /\ new[Len(buffer) + 1] = region
        BY <1>1, <2>1
    <2> HIDE DEF new
    <2>3. \A i \in DOMAIN new : new[i] \in lesson.selectable
        BY <1>1, <2>2 DEF LegalBuffer
    <2>4. ASSUME ~lesson.allow_repeated, NEW i \in 1 .. Len(new), NEW j \in 1 .. Len(new), i # j
          PROVE  new[i] # new[j]
        <3>1. \A k \in 1 .. Len(buffer) : buffer[k] # region
            BY <1>1, <2>4 DEF Occurs, MayRepeat
        <3>2. \A k, l \in 1 .. Len(buffer) : k # l => buffer[k] # buffer[l]
            BY <1>2, <2>4 DEF LegalBuffer
        <3> QED BY <2>2, <2>4, <3>1, <3>2
    <2> QED BY <1>1, <1>2, <2>2, <2>3, <2>4 DEF LegalBuffer, new
<1>3. CASE lesson.response_shape # "sequence"
    <2>1. new = Insort(buffer, region) /\ ~Occurs(region, buffer)
        BY <1>1, <1>3 DEF Selected, MayRepeat
    <2>2. new \in Seq(Regions) /\ Ascending(new) /\ Len(new) = Len(buffer) + 1
        BY <1>1, <1>3, <2>1, InsortAscends, InsortPlaces
    <2>3. \A i \in DOMAIN new : new[i] \in lesson.selectable
        BY <1>1, <1>3, <2>1, InsortMembers DEF LegalBuffer
    <2> HIDE DEF new
    <2>4. Len(new) <= lesson.max_selections
        BY <1>1, <2>2
    <2>5. lesson.response_shape = "single" => Len(new) <= 1
        BY <2>4 DEF ResponseSchema
    <2> QED BY <1>3, <2>2, <2>3, <2>4, <2>5 DEF LegalBuffer, new
<1> QED BY <1>2, <1>3

-----------------------------------------------------------------------------
(* The inductive invariant, as predicates on a projection and a run.       *)

(* The run stands on a lesson and its chosen edge leads to one.            *)
Placed(p, s) == /\ s.current_node_id \in Nodes(p)
                /\ s.next_node_ref \in Nodes(p) \cup {NoRef}

(* Insertion is defined on ascending buffers only.                         *)
Sorted(p, s) == Lesson(p, s).response_shape # "sequence" => Ascending(s.buffer)

Solvent(s) == /\ s.local_remaining <= s.global_remaining
              /\ s.phase = "active" => s.local_remaining > 0
              /\ s.phase = "exhausted" => s.local_remaining = 0

(* The edge of a right or an unscored answer is a success edge.            *)
EdgeKnown(p, s) ==
    s.phase = "committed" /\ (Packed(Lesson(p, s)) => s.outcome = "accepted")
        => s.next_node_ref \in SuccessTargets(p, s.current_node_id) \cup {NoRef}

Sound(p, s) == /\ s \in RunType
               /\ Placed(p, s)
               /\ Sorted(p, s)
               /\ Solvent(s)
               /\ EdgeKnown(p, s)

(* What the global budget holds beyond the current lesson's local budget   *)
(* pays for every lesson that a success path can still visit.              *)
Funded(p, s) ==
    \E costs \in CostFunctions(p) :
        /\ AreCosts(p, costs)
        /\ costs[s.current_node_id] <= p.global_event_budget
        /\ s.global_remaining - s.local_remaining
              >= costs[s.current_node_id] - Lesson(p, s).item_event_budget

IInv == /\ IsProjection(projection)
        /\ Accepted(projection)
        /\ Sound(projection, run)
        /\ events \in Seq(Event)
        /\ on_success_path \in BOOLEAN
        /\ Len(events) + run.global_remaining = projection.global_event_budget
        /\ on_success_path => Funded(projection, run)

-----------------------------------------------------------------------------
(* What acceptance says of a lesson, as far as the proofs need it.         *)
LEMMA AcceptedLesson ==
    ASSUME NEW p, IsProjection(p), Accepted(p), NEW n \in Nodes(p)
    PROVE  /\ n \in Lessons
           /\ p.lesson[n] \in LessonNode
           /\ p.lesson[n].item_event_budget \in Nat \ {0}
           /\ ControlTargets(p, n) \subseteq Nodes(p)
           /\ ~Packed(p.lesson[n]) => p.lesson[n].cases = {}
<1>1. n \in Lessons /\ p.lesson[n] \in LessonNode
    BY DEF IsProjection, Nodes
<1>2. ControlTargets(p, n) \subseteq Nodes(p)
    BY DEF Accepted, Stage6
<1>3. ~Packed(p.lesson[n]) => p.lesson[n].cases = {}
    BY DEF Accepted, Stage7a, AnswerData
<1>4. p.lesson[n].item_event_budget \in Nat \ {0}
    BY <1>1 DEF Accepted, Stage8, LocalBounds, LessonNode
<1> QED BY <1>1, <1>2, <1>3, <1>4

LEMMA AcceptedProjection ==
    ASSUME NEW p, IsProjection(p), Accepted(p)
    PROVE  /\ p.entry_node_ref \in Nodes(p)
           /\ p.global_event_budget \in Nat \ {0}
           /\ SuccessPathsFit(p)
BY DEF IsProjection, Accepted, Stage6, Stage8, LocalBounds

(* A solution of the cost equations, below saturation, covers the lesson's *)
(* own budget and the cost of each of its success targets.                 *)
LEMMA CostCoversTarget ==
    ASSUME NEW p, IsProjection(p), Accepted(p),
           NEW costs \in CostFunctions(p), AreCosts(p, costs),
           NEW n \in Nodes(p), costs[n] <= p.global_event_budget
    PROVE  /\ costs[n] \in Nat
           /\ costs[n] >= p.lesson[n].item_event_budget
           /\ \A m \in SuccessTargets(p, n) :
                  m \in Nodes(p) =>
                     /\ costs[m] \in Nat
                     /\ costs[n] >= p.lesson[n].item_event_budget + costs[m]
<1>1. p.global_event_budget \in Nat /\ p.lesson[n].item_event_budget \in Nat
    BY AcceptedLesson, AcceptedProjection
<1>2. PICK following \in 0 .. p.global_event_budget + 1 :
          /\ IsGreatest(following, {0} \cup {costs[m] : m \in SuccessTargets(p, n)})
          /\ costs[n] = LesserOf(p.global_event_budget + 1,
                                 p.lesson[n].item_event_budget + following)
    BY DEF AreCosts
<1>3. costs[n] = p.lesson[n].item_event_budget + following
    BY <1>1, <1>2 DEF LesserOf
<1>4. \A m \in SuccessTargets(p, n) : costs[m] <= following
    BY <1>2 DEF IsGreatest
<1>5. \A m \in Nodes(p) : costs[m] \in Nat
    BY <1>1 DEF CostFunctions
<1> QED BY <1>1, <1>2, <1>3, <1>4, <1>5

(* The verdict on a response is well typed, its edge leads to a lesson or  *)
(* nowhere, and the edge of a right or unscored answer is a success edge.  *)
LEMMA VerdictSound ==
    ASSUME NEW p, IsProjection(p), Accepted(p), NEW n \in Nodes(p), NEW response
    PROVE  LET v == Verdict(p.lesson[n], response)
           IN  /\ v.outcome \in Outcomes
               /\ v.feedback_ref \in Feedback
               /\ v.next_node_ref \in Nodes(p) \cup {NoRef}
               /\ (Packed(p.lesson[n]) => v.outcome = "accepted")
                     => v.next_node_ref \in SuccessTargets(p, n) \cup {NoRef}
<1> DEFINE lesson == p.lesson[n]
           v == Verdict(lesson, response)
<1>1. /\ lesson \in LessonNode
      /\ ControlTargets(p, n) \subseteq Nodes(p)
      /\ ~Packed(lesson) => lesson.cases = {}
    BY AcceptedLesson
<1>2. CASE MatchingCases(lesson, response) = {}
    <2>1. /\ v.outcome = IF Packed(lesson) THEN "rejected" ELSE "neutral"
          /\ v.feedback_ref = lesson.default_feedback_ref
          /\ v.next_node_ref = lesson.default_next_node_ref
        BY <1>2 DEF Verdict, Packed
    <2>2. v.next_node_ref \in Nodes(p) \cup {NoRef}
        BY <1>1, <2>1 DEF ControlTargets
    <2>3. ~Packed(lesson) => v.next_node_ref \in SuccessTargets(p, n) \cup {NoRef}
        BY <2>1 DEF SuccessTargets
    <2>4. v.feedback_ref \in Feedback
        BY <1>1, <2>1 DEF LessonNode
    <2> QED BY <2>1, <2>2, <2>3, <2>4 DEF Outcomes
<1>3. CASE MatchingCases(lesson, response) # {}
    <2> DEFINE c == CHOOSE c \in MatchingCases(lesson, response) : TRUE
    <2>1. c \in lesson.cases
        BY <1>3 DEF MatchingCases
    <2>2. /\ v.outcome = IF c.case_class = "accepted" THEN "accepted" ELSE "rejected"
          /\ v.feedback_ref = c.feedback_ref
          /\ v.next_node_ref = c.next_node_ref
        BY <1>3 DEF Verdict
    <2> HIDE DEF c
    <2>3. v.feedback_ref \in Feedback
        BY <1>1, <2>1, <2>2 DEF LessonNode, Case
    <2>4. v.next_node_ref \in Nodes(p) \cup {NoRef}
        BY <1>1, <2>1, <2>2 DEF ControlTargets
    <2>5. Packed(lesson)
        BY <1>1, <2>1
    <2>6. v.outcome = "accepted" => v.next_node_ref \in SuccessTargets(p, n) \cup {NoRef}
        BY <2>1, <2>2, <2>5 DEF SuccessTargets
    <2> QED BY <2>2, <2>3, <2>4, <2>5, <2>6 DEF Outcomes
<1> QED BY <1>2, <1>3

LEMMA NormalizedActions ==
    ASSUME NEW raw \in RawActions
    PROVE  NormalizeAction(raw) \in Actions
BY RawActionsTyped DEF NormalizeAction, Actions, CallableActions, InvalidAction

-----------------------------------------------------------------------------
(* Opening a lesson with an empty buffer gives a sound run.                *)
LEMMA FreshSound ==
    ASSUME NEW p, IsProjection(p), Accepted(p), NEW n \in Nodes(p),
           NEW global \in Nat, NEW local \in Nat, local <= global,
           NEW phase \in {"active", "exhausted"},
           phase = "active" => local > 0,
           phase = "exhausted" => local = 0
    PROVE  Sound(p, Fresh(n, global, local, phase))
<1> DEFINE s == Fresh(n, global, local, phase)
<1>1. /\ s.current_node_id = n /\ s.next_node_ref = NoRef /\ s.buffer = <<>>
      /\ s.phase = phase /\ s.local_remaining = local /\ s.global_remaining = global
    BY DEF Fresh
<1>2. s \in RunType
    <2>1. n \in Lessons
        BY AcceptedLesson
    <2>2. <<>> \in Seq(Regions)
        OBVIOUS
    <2> QED BY <2>1, <2>2
            DEF Fresh, RunType, Phases, Outcomes, NoResponse, NoFeedback, Targets
<1>3. Placed(p, s) /\ Solvent(s)
    BY <1>1 DEF Placed, Solvent
<1>4. Sorted(p, s)
    BY <1>1 DEF Sorted, Ascending
<1>5. EdgeKnown(p, s)
    BY <1>1 DEF EdgeKnown
<1> QED BY <1>2, <1>3, <1>4, <1>5 DEF Sound

(* A run that pays for a call stays typed.                                 *)
LEMMA SpendTyped ==
    ASSUME NEW s \in RunType, 0 < s.local_remaining, s.local_remaining <= s.global_remaining
    PROVE  Spend(s) \in RunType
<1> DEFINE poorer == [s EXCEPT !.global_remaining = @ - 1]
<1>1. s.global_remaining - 1 \in Nat /\ s.local_remaining - 1 \in Nat
    BY DEF RunType
<1>2. poorer \in RunType /\ poorer.local_remaining = s.local_remaining
    BY <1>1 DEF RunType
<1>3. Spend(s) = [poorer EXCEPT !.local_remaining = s.local_remaining - 1]
    BY <1>2 DEF Spend
<1> HIDE DEF poorer
<1>4. [poorer EXCEPT !.local_remaining = s.local_remaining - 1] \in RunType
    BY <1>1, <1>2 DEF RunType
<1> QED BY <1>3, <1>4

(* Spending an event on a new buffer keeps a run sound, as long as the     *)
(* buffer is typed and, where order is canonical, ascending.               *)
LEMMA WorkSound ==
    ASSUME NEW p, IsProjection(p), Accepted(p), NEW s, Sound(p, s), s.phase = "active",
           NEW buffer \in Seq(Regions),
           Lesson(p, s).response_shape # "sequence" => Ascending(buffer)
    PROVE  /\ Sound(p, Work(s, buffer))
           /\ Work(s, buffer).global_remaining = s.global_remaining - 1
           /\ Work(s, buffer).local_remaining = s.local_remaining - 1
           /\ Work(s, buffer).current_node_id = s.current_node_id
<1> DEFINE t == Work(s, buffer)
<1>1. /\ s \in RunType
      /\ s.global_remaining \in Nat /\ s.local_remaining \in Nat
      /\ 0 < s.local_remaining /\ s.local_remaining <= s.global_remaining
    BY DEF Sound, Solvent, RunType
<1>2. /\ t.global_remaining = s.global_remaining - 1
      /\ t.local_remaining = s.local_remaining - 1
      /\ t.current_node_id = s.current_node_id
      /\ t.next_node_ref = s.next_node_ref
      /\ t.buffer = buffer
      /\ t.phase = IF t.global_remaining = 0 \/ t.local_remaining = 0
                   THEN "exhausted" ELSE "active"
    BY <1>1 DEF Work, Spend, RunType
<1>3. t \in RunType
    <2> DEFINE spent == Spend(s)
               filled == [spent EXCEPT !.buffer = buffer]
    <2>1. spent \in RunType
        BY <1>1, SpendTyped
    <2>2. t.phase \in Phases
        BY <1>2 DEF Phases
    <2>3. t = [filled EXCEPT !.phase = t.phase]
        BY DEF Work
    <2> HIDE DEF spent, t
    <2>4. filled \in RunType
        BY <2>1 DEF RunType
    <2> HIDE DEF filled
    <2>5. [filled EXCEPT !.phase = t.phase] \in RunType
        BY <2>2, <2>4 DEF RunType
    <2> QED BY <2>3, <2>5
<1>4. Placed(p, t) /\ Sorted(p, t)
    BY <1>2 DEF Sound, Placed, Sorted, Lesson
<1>5. Solvent(t)
    BY <1>1, <1>2 DEF Solvent
<1>6. EdgeKnown(p, t)
    BY <1>2 DEF EdgeKnown
<1> QED BY <1>2, <1>3, <1>4, <1>5, <1>6 DEF Sound

LEMMA CommitSound ==
    ASSUME NEW p, IsProjection(p), Accepted(p), NEW s, Sound(p, s), s.phase = "active"
    PROVE  /\ Sound(p, Commit(p, s))
           /\ Commit(p, s).global_remaining = s.global_remaining - 1
           /\ Commit(p, s).local_remaining = s.local_remaining - 1
           /\ Commit(p, s).current_node_id = s.current_node_id
<1> DEFINE t == Commit(p, s)
           response == Response(Lesson(p, s), s.buffer)
           v == Verdict(Lesson(p, s), response)
<1>1. /\ s \in RunType /\ s.current_node_id \in Nodes(p)
      /\ s.global_remaining \in Nat /\ s.local_remaining \in Nat
      /\ 0 < s.local_remaining /\ s.local_remaining <= s.global_remaining
    BY DEF Sound, Placed, Solvent, RunType
<1>2. /\ v.outcome \in Outcomes /\ v.feedback_ref \in Feedback
      /\ v.next_node_ref \in Nodes(p) \cup {NoRef}
      /\ (Packed(Lesson(p, s)) => v.outcome = "accepted")
            => v.next_node_ref \in SuccessTargets(p, s.current_node_id) \cup {NoRef}
    BY <1>1, VerdictSound DEF Lesson
<1>3. response \in [shape : Shapes \cup {"none"}, region_ids : Seq(Regions)]
    BY <1>1, AcceptedLesson DEF Response, Lesson, LessonNode, RunType
<1> HIDE DEF v, response
<1>4. t = [Spend(s) EXCEPT !.phase = "committed", !.outcome = v.outcome, !.buffer = <<>>,
                           !.committed_response = response,
                           !.feedback_ref = v.feedback_ref,
                           !.next_node_ref = v.next_node_ref]
    BY DEF Commit, v, response
<1> HIDE DEF t
<1>5. /\ t.global_remaining = s.global_remaining - 1
      /\ t.local_remaining = s.local_remaining - 1
      /\ t.current_node_id = s.current_node_id
      /\ t.next_node_ref = v.next_node_ref
      /\ t.outcome = v.outcome
      /\ t.buffer = <<>>
      /\ t.phase = "committed"
    BY <1>1, <1>4 DEF Spend, RunType
<1>6. t \in RunType
    <2>1. v.next_node_ref \in Targets
        BY <1>2 DEF Targets, IsProjection
    <2>2. <<>> \in Seq(Regions)
        OBVIOUS
    <2> DEFINE closed == [current_node_id    |-> s.current_node_id,
                          global_remaining   |-> s.global_remaining - 1,
                          local_remaining    |-> s.local_remaining - 1,
                          phase              |-> "committed",
                          outcome            |-> v.outcome,
                          buffer             |-> <<>>,
                          committed_response |-> response,
                          feedback_ref       |-> v.feedback_ref,
                          next_node_ref      |-> v.next_node_ref]
    <2>3. t = closed
        BY <1>1, <1>4 DEF Spend, RunType
    <2>4. s.global_remaining - 1 \in Nat /\ s.local_remaining - 1 \in Nat
        BY <1>1
    <2>5. closed \in RunType
        BY <1>1, <1>2, <1>3, <2>1, <2>2, <2>4 DEF RunType, Phases
    <2> QED BY <2>3, <2>5
<1>7. Placed(p, t)
    BY <1>1, <1>2, <1>5 DEF Placed
<1>8. Sorted(p, t)
    BY <1>5 DEF Sorted, Ascending
<1>9. Solvent(t)
    BY <1>1, <1>5 DEF Solvent
<1>10. EdgeKnown(p, t)
    BY <1>2, <1>5 DEF EdgeKnown, Lesson
<1> QED BY <1>5, <1>6, <1>7, <1>8, <1>9, <1>10 DEF Sound, t

(* A consumed call: sound again, one event poorer, same lesson.            *)
LEMMA ConsumedSound ==
    ASSUME NEW p, IsProjection(p), Accepted(p), NEW s, Sound(p, s), s.phase = "active",
           NEW action \in Actions
    PROVE  LET t == Consumed(p, s, action).state
           IN  /\ Sound(p, t)
               /\ t.global_remaining = s.global_remaining - 1
               /\ t.local_remaining = s.local_remaining - 1
               /\ t.current_node_id = s.current_node_id
               /\ Consumed(p, s, action).result \in Results
<1> DEFINE lesson == Lesson(p, s)
           answer == SelectResult(lesson, s.buffer, action.region)
<1>1. /\ s.buffer \in Seq(Regions)
      /\ lesson.response_shape # "sequence" => Ascending(s.buffer)
      /\ lesson \in LessonNode
    BY AcceptedLesson DEF Sound, RunType, Sorted, Placed, Lesson
<1>2. CASE action.tag = "invalid"
    <2>1. Consumed(p, s, action) = [state |-> Work(s, s.buffer), result |-> "invalid_action"]
        BY <1>2 DEF Consumed
    <2>2. /\ Sound(p, Work(s, s.buffer))
          /\ Work(s, s.buffer).global_remaining = s.global_remaining - 1
          /\ Work(s, s.buffer).local_remaining = s.local_remaining - 1
          /\ Work(s, s.buffer).current_node_id = s.current_node_id
        BY <1>1, WorkSound
    <2>3. /\ Consumed(p, s, action).state = Work(s, s.buffer)
          /\ Consumed(p, s, action).result = "invalid_action"
        BY <1>1, <2>1
    <2> QED BY <2>2, <2>3 DEF Results
<1>3. CASE action.tag = "select"
    <2> DEFINE kept == IF answer = "selected"
                       THEN Selected(lesson, s.buffer, action.region) ELSE s.buffer
    <2>1. Consumed(p, s, action) = [state |-> Work(s, kept), result |-> answer]
        BY <1>3 DEF Consumed
    <2>2. answer \in Results
        BY DEF SelectResult, Results
    <2>3. /\ kept \in Seq(Regions)
          /\ lesson.response_shape # "sequence" => Ascending(kept)
        <3>1. CASE answer # "selected"
            BY <1>1, <3>1
        <3>2. CASE answer = "selected"
            <4>1. action.region \in Regions
                BY <1>1, <3>2 DEF SelectResult, LessonNode
            <4>2. CASE lesson.response_shape = "sequence"
                <5>1. kept = Append(s.buffer, action.region)
                    BY <3>2, <4>2 DEF Selected
                <5> QED BY <1>1, <4>1, <4>2, <5>1
            <4>3. CASE lesson.response_shape # "sequence"
                <5>1. kept = Insort(s.buffer, action.region)
                    BY <3>2, <4>3 DEF Selected
                <5>2. ~Occurs(action.region, s.buffer)
                    BY <3>2, <4>3 DEF SelectResult, MayRepeat
                <5> QED BY <1>1, <4>1, <4>3, <5>1, <5>2, InsortAscends
            <4> QED BY <4>2, <4>3
        <3> QED BY <3>1, <3>2
    <2>4. /\ Consumed(p, s, action).state = Work(s, kept)
          /\ Consumed(p, s, action).result = answer
        BY <1>1, <2>1
    <2> HIDE DEF kept, answer
    <2>5. /\ Sound(p, Work(s, kept))
          /\ Work(s, kept).global_remaining = s.global_remaining - 1
          /\ Work(s, kept).local_remaining = s.local_remaining - 1
          /\ Work(s, kept).current_node_id = s.current_node_id
        BY <1>1, <2>3, WorkSound
    <2> QED BY <2>2, <2>4, <2>5
<1>4. CASE action.tag = "reset"
    <2>1. Consumed(p, s, action) = [state |-> Work(s, <<>>), result |-> "reset"]
        BY <1>4 DEF Consumed
    <2>2. <<>> \in Seq(Regions) /\ Ascending(<<>>)
        BY DEF Ascending
    <2>3. /\ Sound(p, Work(s, <<>>))
          /\ Work(s, <<>>).global_remaining = s.global_remaining - 1
          /\ Work(s, <<>>).local_remaining = s.local_remaining - 1
          /\ Work(s, <<>>).current_node_id = s.current_node_id
        BY <2>2, WorkSound
    <2>4. /\ Consumed(p, s, action).state = Work(s, <<>>)
          /\ Consumed(p, s, action).result = "reset"
        BY <1>1, <2>1
    <2> QED BY <2>3, <2>4 DEF Results
<1>5. CASE action.tag = "commit"
    <2>1. Consumed(p, s, action) = [state |-> Commit(p, s), result |-> "committed"]
        BY <1>5 DEF Consumed
    <2> QED BY <1>1, <2>1, CommitSound DEF Results
<1> QED BY <1>1, <1>2, <1>3, <1>4, <1>5 DEF Actions, CallableActions

LEMMA TransitionConsumes ==
    ASSUME NEW p, NEW s, s.phase = "active", NEW raw
    PROVE  Transition(p, s, raw) = Consumed(p, s, NormalizeAction(raw))
BY DEF Transition

(* step on an active run.                                                  *)
LEMMA TransitionSound ==
    ASSUME NEW p, IsProjection(p), Accepted(p), NEW s, Sound(p, s), s.phase = "active",
           NEW raw \in RawActions
    PROVE  LET t == Transition(p, s, raw).state
           IN  /\ Sound(p, t)
               /\ t.global_remaining = s.global_remaining - 1
               /\ t.local_remaining = s.local_remaining - 1
               /\ t.current_node_id = s.current_node_id
               /\ Transition(p, s, raw).result \in Results
BY TransitionConsumes, NormalizedActions, ConsumedSound

(* advance_committed opens the target with what the global budget allows.  *)
LEMMA AdvanceSound ==
    ASSUME NEW p, IsProjection(p), Accepted(p), NEW s, Sound(p, s), CanAdvance(s)
    PROVE  /\ Sound(p, Advance(p, s))
           /\ Advance(p, s).global_remaining = s.global_remaining
           /\ Advance(p, s).current_node_id = s.next_node_ref
           /\ s.next_node_ref \in Nodes(p)
<1>1. /\ s.next_node_ref \in Nodes(p)
      /\ s.global_remaining \in Nat
    BY DEF Sound, Placed, CanAdvance, RunType
<1>2. p.lesson[s.next_node_ref].item_event_budget \in Nat \ {0}
    BY <1>1, AcceptedLesson
<1>3. CASE s.global_remaining = 0
    <2>1. Advance(p, s) = Fresh(s.next_node_ref, 0, 0, "exhausted")
        BY <1>3 DEF Advance
    <2>2. Sound(p, Fresh(s.next_node_ref, 0, 0, "exhausted"))
        BY <1>1, FreshSound
    <2> QED BY <1>1, <1>3, <2>1, <2>2 DEF Fresh
<1>4. CASE s.global_remaining # 0
    <2> DEFINE local == LesserOf(p.lesson[s.next_node_ref].item_event_budget,
                                 s.global_remaining)
    <2>1. Advance(p, s) = Fresh(s.next_node_ref, s.global_remaining, local, "active")
        BY <1>4 DEF Advance
    <2>2. local \in Nat /\ 0 < local /\ local <= s.global_remaining
        BY <1>1, <1>2, <1>4 DEF LesserOf
    <2> HIDE DEF local
    <2>3. Sound(p, Fresh(s.next_node_ref, s.global_remaining, local, "active"))
        BY <1>1, <2>2, FreshSound
    <2> QED BY <1>1, <2>1, <2>3 DEF Fresh
<1> QED BY <1>3, <1>4

(* Advancing over a success edge from a funded lesson leaves the target    *)
(* funded, active and with its whole item budget.                          *)
LEMMA AdvanceFunded ==
    ASSUME NEW p, IsProjection(p), Accepted(p), NEW s, Sound(p, s), CanAdvance(s),
           Funded(p, s),
           Packed(Lesson(p, s)) => s.outcome = "accepted"
    PROVE  /\ Funded(p, Advance(p, s))
           /\ Advance(p, s).phase = "active"
           /\ Advance(p, s).local_remaining
                 = p.lesson[s.next_node_ref].item_event_budget
<1> DEFINE n == s.current_node_id
           m == s.next_node_ref
           item == p.lesson[m].item_event_budget
<1>1. /\ n \in Nodes(p) /\ m \in Nodes(p)
      /\ m \in SuccessTargets(p, n)
      /\ s.global_remaining \in Nat /\ s.local_remaining \in Nat
    BY DEF Sound, Placed, CanAdvance, RunType, EdgeKnown
<1>2. PICK costs \in CostFunctions(p) :
          /\ AreCosts(p, costs)
          /\ costs[n] <= p.global_event_budget
          /\ s.global_remaining - s.local_remaining
                >= costs[n] - p.lesson[n].item_event_budget
    BY DEF Funded, Lesson
<1>3. /\ p.global_event_budget \in Nat
      /\ p.lesson[n].item_event_budget \in Nat
      /\ item \in Nat \ {0}
    BY <1>1, AcceptedLesson, AcceptedProjection
<1>4. /\ costs[n] \in Nat /\ costs[m] \in Nat
      /\ costs[n] >= p.lesson[n].item_event_budget + costs[m]
    BY <1>1, <1>2, CostCoversTarget
<1>5. costs[m] <= p.global_event_budget
    BY <1>2, <1>3, <1>4
<1>6. costs[m] >= item
    BY <1>1, <1>2, <1>5, CostCoversTarget
<1>7. s.global_remaining >= costs[m] /\ s.global_remaining # 0
      /\ s.global_remaining >= item
    BY <1>1, <1>2, <1>3, <1>4, <1>6
<1>8. Advance(p, s) = Fresh(m, s.global_remaining, item, "active")
    BY <1>1, <1>3, <1>7 DEF Advance, LesserOf
<1>9. Funded(p, Advance(p, s))
    BY <1>1, <1>2, <1>3, <1>4, <1>5, <1>7, <1>8 DEF Funded, Fresh, Lesson
<1> QED BY <1>8, <1>9 DEF Fresh

-----------------------------------------------------------------------------
(* The first lesson is paid for: that is what the budget proof of stage 8  *)
(* establishes at the entry.                                               *)
LEMMA InitIInv == Init => IInv
<1> SUFFICES ASSUME Init PROVE IInv
    OBVIOUS
<1> DEFINE p == projection
           entry == p.entry_node_ref
           item == p.lesson[entry].item_event_budget
<1>1. /\ IsProjection(p) /\ Accepted(p)
      /\ run = NewState(p) /\ events = <<>> /\ on_success_path = TRUE
    BY CandidatesTyped DEF Init
<1>2. /\ entry \in Nodes(p)
      /\ p.global_event_budget \in Nat \ {0}
      /\ item \in Nat \ {0}
    BY <1>1, AcceptedLesson, AcceptedProjection
<1>3. PICK costs \in CostFunctions(p) :
          AreCosts(p, costs) /\ costs[entry] <= p.global_event_budget
    BY <1>1, AcceptedProjection DEF SuccessPathsFit
<1>4. costs[entry] \in Nat /\ costs[entry] >= item
    BY <1>1, <1>2, <1>3, CostCoversTarget
<1>5. item <= p.global_event_budget
    BY <1>2, <1>3, <1>4
<1>6. run = Fresh(entry, p.global_event_budget, item, "active")
    BY <1>1 DEF NewState
<1>7. Sound(p, run)
    BY <1>1, <1>2, <1>5, <1>6, FreshSound
<1>8. Funded(p, run)
    BY <1>2, <1>3, <1>4, <1>6 DEF Funded, Fresh, Lesson
<1>9. events \in Seq(Event) /\ Len(events) + run.global_remaining = p.global_event_budget
    BY <1>1, <1>2, <1>6 DEF Fresh
<1> QED BY <1>1, <1>7, <1>8, <1>9 DEF IInv

(* One consumed call.                                                      *)
LEMMA StepIInv ==
    ASSUME IInv, NEW raw \in RawActions, Step(raw)
    PROVE  IInv'
<1> DEFINE answer == Transition(projection, run, raw)
           logged == [node_id |-> run.current_node_id,
                      action  |-> NormalizeAction(raw),
                      result  |-> answer.result]
<1>1. /\ projection' = projection /\ on_success_path' = on_success_path
      /\ run' = answer.state
      /\ events' = Append(events, logged)
      /\ run.phase = "active"
    BY DEF Step
<1>2. /\ Sound(projection, run')
      /\ run'.global_remaining = run.global_remaining - 1
      /\ run'.local_remaining = run.local_remaining - 1
      /\ run'.current_node_id = run.current_node_id
      /\ answer.result \in Results
    BY <1>1, TransitionSound DEF IInv
<1>3. logged \in Event
    <2>1. run.current_node_id \in Lessons
        BY DEF IInv, Sound, RunType
    <2> QED BY <1>2, <2>1, NormalizedActions DEF Event
<1>4. run.global_remaining \in Nat /\ run.local_remaining \in Nat
    BY DEF IInv, Sound, RunType
<1> HIDE DEF logged, answer
<1>5. events' \in Seq(Event) /\ Len(events') = Len(events) + 1
    BY <1>1, <1>3 DEF IInv
<1>6. Len(events') + run'.global_remaining = projection.global_event_budget
    BY <1>2, <1>4, <1>5 DEF IInv
<1>7. ASSUME on_success_path
      PROVE  Funded(projection, run')
    <2>1. Funded(projection, run)
        BY <1>7 DEF IInv
    <2>2. run'.global_remaining - run'.local_remaining
            = run.global_remaining - run.local_remaining
        BY <1>2, <1>4
    <2> QED BY <1>2, <2>1, <2>2 DEF Funded, Lesson
<1> QED BY <1>1, <1>2, <1>5, <1>6, <1>7 DEF IInv

LEMMA RefusedIInv == IInv /\ RefusedCall => IInv'
<1> SUFFICES ASSUME IInv, RefusedCall PROVE IInv'
    OBVIOUS
<1>1. PICK raw \in RawActions : run' = Transition(projection, run, raw).state
    BY DEF RefusedCall
<1>2. run.phase \in {"committed", "exhausted"}
    BY DEF RefusedCall, IInv, Sound, RunType, Phases
<1>3. run' = run
    BY <1>1, <1>2 DEF Transition
<1> QED BY <1>3 DEF RefusedCall, IInv

LEMMA AdvanceIInv == IInv /\ AdvanceCommitted => IInv'
<1> SUFFICES ASSUME IInv, AdvanceCommitted PROVE IInv'
    OBVIOUS
<1>1. /\ CanAdvance(run) /\ run' = Advance(projection, run)
      /\ projection' = projection /\ events' = events
      /\ on_success_path' = (/\ on_success_path
                             /\ Packed(Lesson(projection, run)) => run.outcome = "accepted")
    BY DEF AdvanceCommitted
<1>2. /\ Sound(projection, run')
      /\ run'.global_remaining = run.global_remaining
    BY <1>1, AdvanceSound DEF IInv
<1>3. on_success_path' => Funded(projection, run')
    BY <1>1, AdvanceFunded DEF IInv
<1>4. on_success_path' \in BOOLEAN
    BY <1>1 DEF IInv
<1> QED BY <1>1, <1>2, <1>3, <1>4 DEF IInv

LEMMA NextIInv == IInv /\ [Next]_vars => IInv'
<1> SUFFICES ASSUME IInv, [Next]_vars PROVE IInv'
    OBVIOUS
<1>1. CASE Select \/ Reset \/ CommitAnswer \/ InvalidCall
    BY <1>1, StepIInv DEF Select, Reset, CommitAnswer, InvalidCall, StepTagged
<1>2. CASE RefusedCall
    BY <1>2, RefusedIInv
<1>3. CASE AdvanceCommitted
    BY <1>3, AdvanceIInv
<1>4. CASE UNCHANGED vars
    BY <1>4 DEF vars, IInv
<1> QED BY <1>1, <1>2, <1>3, <1>4 DEF Next

(* The invariant holds of every run over every accepted stream.            *)
THEOREM Invariant == Spec => []IInv
BY InitIInv, NextIInv, PTL DEF Spec

(* Every run the host can produce is well typed.                           *)
THEOREM TypeCorrect == Spec => []TypeOK
<1>1. IInv => TypeOK
    BY DEF IInv, Sound, TypeOK
<1> QED BY <1>1, Invariant, PTL

LEMMA SoundBudgets == IInv => BudgetsCoherent
BY DEF IInv, Sound, Solvent, BudgetsCoherent

(* The two budgets and the event log agree in every run.                   *)
THEOREM BudgetsAgree == Spec => []BudgetsCoherent
BY SoundBudgets, Invariant, PTL

LEMMA SuccessFunds ==
    ASSUME IInv, AdvanceCommitted, on_success_path'
    PROVE  /\ run'.phase = "active"
           /\ run'.local_remaining = Lesson(projection, run').item_event_budget
<1>1. /\ CanAdvance(run) /\ run' = Advance(projection, run)
      /\ on_success_path
      /\ Packed(Lesson(projection, run)) => run.outcome = "accepted"
    BY DEF AdvanceCommitted
<1>2. /\ run'.phase = "active"
      /\ run'.local_remaining = projection.lesson[run.next_node_ref].item_event_budget
    BY <1>1, AdvanceFunded DEF IInv
<1>3. run'.current_node_id = run.next_node_ref
    BY <1>1, AdvanceSound DEF IInv
<1> QED BY <1>2, <1>3 DEF Lesson

(* A learner on a success path is never short of events: the static budget *)
(* proof of stage 8 is sound for the interpreter.                          *)
THEOREM SuccessPathsFunded == Spec => SuccessPathFunded
BY SuccessFunds, Invariant, PTL DEF Spec, SuccessPathFunded

-----------------------------------------------------------------------------
(* What a run holds and shows, on top of the first invariant.              *)

(* Nothing is shown before the commit; after it, the run shows the verdict *)
(* on the response it recorded.                                            *)
Shows(p, s) ==
    LET verdict == Verdict(Lesson(p, s), s.committed_response)
    IN  /\ s.phase = "committed" =>
              /\ s.outcome = verdict.outcome
              /\ s.feedback_ref = verdict.feedback_ref
              /\ s.next_node_ref = verdict.next_node_ref
        /\ s.phase # "committed" =>
              /\ s.outcome = "none" /\ s.committed_response = NoResponse
              /\ s.feedback_ref = NoFeedback /\ s.next_node_ref = NoRef

Answers(p, s) == LegalBuffer(Lesson(p, s), s.buffer) /\ Shows(p, s)

LEMMA EmptyLegal ==
    ASSUME NEW lesson \in LessonNode
    PROVE  LegalBuffer(lesson, <<>>)
BY DEF LegalBuffer, Ascending, LessonNode

(* The verdict on a response and the feedback it comes with agree, on      *)
(* every lesson that passed validation.                                    *)
LEMMA VerdictAgrees ==
    ASSUME NEW p, IsProjection(p), Accepted(p), NEW n \in Nodes(p), NEW response
    PROVE  LET lesson == p.lesson[n]
               v == Verdict(lesson, response)
           IN  /\ v.outcome = "accepted" <=> v.feedback_ref.feedback_code = "match"
               /\ v.feedback_ref.feedback_code \in {"match", "no_match"} =>
                     v.feedback_ref.predicate_result_ref = lesson.predicate_result_ref
               /\ Packed(lesson) <=> v.outcome # "neutral"
               /\ ~Packed(lesson) => v.next_node_ref = lesson.default_next_node_ref
<1> DEFINE lesson == p.lesson[n]
           v == Verdict(lesson, response)
           Agree == /\ v.outcome = "accepted" <=> v.feedback_ref.feedback_code = "match"
                    /\ v.feedback_ref.feedback_code \in {"match", "no_match"} =>
                          v.feedback_ref.predicate_result_ref = lesson.predicate_result_ref
                    /\ Packed(lesson) <=> v.outcome # "neutral"
                    /\ ~Packed(lesson) => v.next_node_ref = lesson.default_next_node_ref
<1>1. /\ Stage7b(lesson)
      /\ ~Packed(lesson) => lesson.cases = {}
    BY AcceptedLesson DEF Accepted
<1>2. ASSUME MatchingCases(lesson, response) = {} PROVE Agree
    <2>1. /\ v.outcome = IF Packed(lesson) THEN "rejected" ELSE "neutral"
          /\ v.feedback_ref = lesson.default_feedback_ref
          /\ v.next_node_ref = lesson.default_next_node_ref
        BY <1>2 DEF Verdict, Packed
    <2> HIDE DEF lesson, v
    <2> QED BY <1>1, <2>1 DEF Stage7b, DefaultCode
<1>3. ASSUME MatchingCases(lesson, response) # {} PROVE Agree
    <2> DEFINE c == CHOOSE c \in MatchingCases(lesson, response) : TRUE
    <2>1. c \in lesson.cases
        BY <1>3 DEF MatchingCases
    <2>2. /\ v.outcome = IF c.case_class = "accepted" THEN "accepted" ELSE "rejected"
          /\ v.feedback_ref = c.feedback_ref
        BY <1>3 DEF Verdict
    <2>3. Packed(lesson)
        BY <1>1, <2>1
    <2> HIDE DEF c, lesson, v
    <2>4. IF c.case_class = "accepted"
          THEN c.feedback_ref = [feedback_code        |-> "match",
                                 predicate_result_ref |-> lesson.predicate_result_ref]
          ELSE c.feedback_ref.feedback_code = "alternative"
        BY <1>1, <2>1, <2>3 DEF Stage7b
    <2> QED BY <2>2, <2>3, <2>4
<1> QED BY <1>2, <1>3

LEMMA FreshAnswers ==
    ASSUME NEW p, IsProjection(p), Accepted(p), NEW n \in Nodes(p),
           NEW global, NEW local, NEW phase \in {"active", "exhausted"}
    PROVE  Answers(p, Fresh(n, global, local, phase))
<1>1. p.lesson[n] \in LessonNode
    BY AcceptedLesson
<1> QED BY <1>1, EmptyLegal DEF Answers, Shows, Fresh, Lesson

LEMMA WorkAnswers ==
    ASSUME NEW p, NEW s, Sound(p, s), Answers(p, s), s.phase = "active",
           NEW buffer, LegalBuffer(Lesson(p, s), buffer)
    PROVE  Answers(p, Work(s, buffer))
<1> DEFINE t == Work(s, buffer)
<1>1. /\ t.current_node_id = s.current_node_id /\ t.buffer = buffer
      /\ t.outcome = s.outcome /\ t.committed_response = s.committed_response
      /\ t.feedback_ref = s.feedback_ref /\ t.next_node_ref = s.next_node_ref
      /\ t.phase \in {"exhausted", "active"}
    BY DEF Sound, Work, Spend, RunType
<1> HIDE DEF t
<1> QED BY <1>1 DEF Answers, Shows, Lesson, t

LEMMA CommitAnswers ==
    ASSUME NEW p, IsProjection(p), Accepted(p), NEW s, Sound(p, s), s.phase = "active"
    PROVE  Answers(p, Commit(p, s))
<1> DEFINE t == Commit(p, s)
           response == Response(Lesson(p, s), s.buffer)
           v == Verdict(Lesson(p, s), response)
<1>1. s \in RunType /\ Lesson(p, s) \in LessonNode
    BY AcceptedLesson DEF Sound, Placed, Lesson
<1>2. t = [Spend(s) EXCEPT !.phase = "committed", !.outcome = v.outcome, !.buffer = <<>>,
                           !.committed_response = response,
                           !.feedback_ref = v.feedback_ref,
                           !.next_node_ref = v.next_node_ref]
    BY DEF Commit
<1>3. /\ t.current_node_id = s.current_node_id /\ t.phase = "committed" /\ t.buffer = <<>>
      /\ t.outcome = v.outcome /\ t.committed_response = response
      /\ t.feedback_ref = v.feedback_ref /\ t.next_node_ref = v.next_node_ref
    <2> HIDE DEF response, v
    <2> QED BY <1>1, <1>2 DEF Spend, RunType
<1> HIDE DEF t
<1> QED BY <1>1, <1>3, EmptyLegal DEF Answers, Shows, Lesson, t

LEMMA ConsumedAnswers ==
    ASSUME NEW p, IsProjection(p), Accepted(p), NEW s, Sound(p, s), Answers(p, s),
           s.phase = "active", NEW action \in Actions
    PROVE  Answers(p, Consumed(p, s, action).state)
<1> DEFINE lesson == Lesson(p, s)
           answer == SelectResult(lesson, s.buffer, action.region)
           kept == IF answer = "selected" THEN Selected(lesson, s.buffer, action.region)
                   ELSE s.buffer
<1>1. /\ s.buffer \in Seq(Regions)
      /\ lesson.response_shape # "sequence" => Ascending(s.buffer)
      /\ lesson \in LessonNode /\ ResponseSchema(lesson)
      /\ LegalBuffer(lesson, s.buffer)
    <2>1. s.current_node_id \in Nodes(p) /\ s \in RunType
        BY DEF Sound, Placed
    <2>2. lesson \in LessonNode /\ ResponseSchema(lesson)
        BY <2>1, AcceptedLesson DEF Lesson, Accepted, Stage7a
    <2> QED BY <2>1, <2>2 DEF Sound, RunType, Sorted, Answers
<1>2. LegalBuffer(lesson, kept) /\ LegalBuffer(lesson, <<>>)
    BY <1>1, SelectedLegal, EmptyLegal
<1>3. CASE action.tag = "invalid"
    BY <1>1, <1>3, WorkAnswers DEF Consumed
<1>4. CASE action.tag = "select"
    <2>1. Consumed(p, s, action).state = Work(s, kept)
        BY <1>4 DEF Consumed
    <2> HIDE DEF kept
    <2> QED BY <1>2, <2>1, WorkAnswers
<1>5. CASE action.tag = "reset"
    BY <1>2, <1>5, WorkAnswers DEF Consumed
<1>6. CASE action.tag = "commit"
    BY <1>6, CommitAnswers DEF Consumed
<1> QED BY <1>3, <1>4, <1>5, <1>6 DEF Actions, CallableActions

LEMMA TransitionAnswers ==
    ASSUME NEW p, IsProjection(p), Accepted(p), NEW s, Sound(p, s), Answers(p, s),
           s.phase = "active", NEW raw \in RawActions
    PROVE  Answers(p, Transition(p, s, raw).state)
BY TransitionConsumes, NormalizedActions, ConsumedAnswers

LEMMA NextAnswers ==
    ASSUME IInv, Answers(projection, run), [Next]_vars
    PROVE  Answers(projection, run)'
<1>1. IsProjection(projection) /\ Accepted(projection) /\ Sound(projection, run)
    BY DEF IInv
<1>2. ASSUME NEW raw \in RawActions, Step(raw)
      PROVE  Answers(projection, run)'
    BY <1>1, <1>2, TransitionAnswers DEF Step
<1>3. CASE Select \/ Reset \/ CommitAnswer \/ InvalidCall
    BY <1>2, <1>3 DEF Select, Reset, CommitAnswer, InvalidCall, StepTagged
<1>4. CASE RefusedCall
    <2>1. run.phase \in {"committed", "exhausted"}
        BY <1>1, <1>4 DEF RefusedCall, Sound, RunType, Phases
    <2>2. run' = run /\ projection' = projection
        BY <1>4, <2>1 DEF RefusedCall, Transition
    <2> QED BY <2>2
<1>5. CASE AdvanceCommitted
    <2>1. run' = Advance(projection, run) /\ projection' = projection
        BY <1>5 DEF AdvanceCommitted
    <2>2. run.next_node_ref \in Nodes(projection)
        BY <1>1, <1>5, AdvanceSound DEF AdvanceCommitted
    <2> QED BY <1>1, <2>1, <2>2, FreshAnswers DEF Advance
<1>6. CASE UNCHANGED vars
    BY <1>6 DEF vars
<1> QED BY <1>3, <1>4, <1>5, <1>6 DEF Next

LEMMA InitAnswers == Init => Answers(projection, run)
<1> SUFFICES ASSUME Init PROVE Answers(projection, run)
    OBVIOUS
<1>1. IsProjection(projection) /\ Accepted(projection) /\ run = NewState(projection)
    BY CandidatesTyped DEF Init
<1> QED BY <1>1, AcceptedProjection, FreshAnswers DEF NewState

LEMMA InvariantAnswers == Spec => []Answers(projection, run)
<1>1. IInv /\ Answers(projection, run) /\ [Next]_vars => Answers(projection, run)'
    BY NextAnswers
<1> QED BY <1>1, InitAnswers, Invariant, PTL DEF Spec

LEMMA AnswersLegal == Answers(projection, run) => BufferLegal
BY DEF Answers, BufferLegal

(* The buffer a run carries is one _state_buffer accepts, for every lesson *)
(* and every sequence of calls: no call makes a state that the next call   *)
(* would refuse to read.                                                   *)
THEOREM BuffersLegal == Spec => []BufferLegal
BY AnswersLegal, InvariantAnswers, PTL

LEMMA AnswersAgree == IInv /\ Answers(projection, run) => FeedbackAgreesWithVerdict
<1> SUFFICES ASSUME IInv, Answers(projection, run), run.phase = "committed"
             PROVE  FeedbackAgreesWithVerdict
    BY DEF FeedbackAgreesWithVerdict
<1> DEFINE verdict == Verdict(Lesson(projection, run), run.committed_response)
<1>1. /\ run.outcome = verdict.outcome /\ run.feedback_ref = verdict.feedback_ref
      /\ run.next_node_ref = verdict.next_node_ref
    BY DEF Answers, Shows
<1>2. /\ IsProjection(projection) /\ Accepted(projection)
      /\ run.current_node_id \in Nodes(projection)
    BY DEF IInv, Sound, Placed
<1>3. LET lesson == Lesson(projection, run)
      IN  /\ verdict.outcome = "accepted" <=> verdict.feedback_ref.feedback_code = "match"
          /\ verdict.feedback_ref.feedback_code \in {"match", "no_match"} =>
                verdict.feedback_ref.predicate_result_ref = lesson.predicate_result_ref
          /\ Packed(lesson) <=> verdict.outcome # "neutral"
          /\ ~Packed(lesson) => verdict.next_node_ref = lesson.default_next_node_ref
    BY <1>2, VerdictAgrees DEF Lesson
<1> HIDE DEF verdict
<1> QED BY <1>1, <1>3 DEF FeedbackAgreesWithVerdict

(* What the learner is shown after a commit agrees with the outcome, for   *)
(* every stream that passed stage 7.                                       *)
THEOREM FeedbackAgrees == Spec => []FeedbackAgreesWithVerdict
BY AnswersAgree, Invariant, InvariantAnswers, PTL

-----------------------------------------------------------------------------
(* Induction, and folds over sequences.                                    *)

(* Induction over the naturals, for a set in place of a predicate.         *)
LEMMA EveryNumber ==
    ASSUME NEW S, 0 \in S, \A n \in Nat : n \in S => n + 1 \in S
    PROVE  Nat \subseteq S
<1> SUFFICES ASSUME Nat \ S # {} PROVE FALSE
    OBVIOUS
<1>1. PICK least \in Nat \ S : \A n \in Nat \ S : least <= n
    <2>1. Nat \ S \subseteq Nat
        OBVIOUS
    <2> QED BY <2>1, LeastMember
<1>2. least # 0 /\ least - 1 \in Nat /\ ~(least <= least - 1)
    BY <1>1
<1>3. least - 1 \in S /\ (least - 1) + 1 = least
    BY <1>1, <1>2
<1> QED BY <1>1, <1>2, <1>3

(* The largest index of a set that holds n, in 1 .. n.                     *)
LEMMA MaxOf ==
    ASSUME NEW n \in Nat, NEW s, s \subseteq 1 .. n, n \in s
    PROVE  Max(s) = n
<1>1. \A x \in s : n >= x
    OBVIOUS
<1>2. Max(s) \in s /\ \A y \in s : Max(s) >= y
    BY <1>1 DEF Max
<1>3. Max(s) \in 1 .. n /\ Max(s) >= n
    BY <1>2
<1> QED BY <1>3

(* A set of indices has a largest.                                         *)
LEMMA LargestIn ==
    ASSUME NEW n \in Nat, NEW s \in SUBSET (1 .. n), s # {}
    PROVE  Max(s) \in s
<1> DEFINE Bounds == {m \in Nat : \A x \in s : m >= x}
<1>1. Bounds \subseteq Nat /\ n \in Bounds
    OBVIOUS
<1>2. PICK m \in Bounds : \A k \in Bounds : m <= k
    BY <1>1, LeastMember
<1>3. m \in s
    <2> SUFFICES ASSUME m \notin s PROVE FALSE
        OBVIOUS
    <2>1. \A x \in s : x \in Nat /\ x <= m /\ x # m /\ x >= 1
        BY <1>2
    <2>2. m \in Nat /\ m >= 1
        <3>1. PICK x \in s : TRUE
            OBVIOUS
        <3> QED BY <1>2, <2>1, <3>1
    <2>3. m - 1 \in Nat /\ \A x \in s : m - 1 >= x
        BY <2>1, <2>2
    <2>4. m - 1 \in Bounds
        BY <2>3
    <2> QED BY <1>2, <2>2, <2>4
<1>4. \E x \in s : \A y \in s : x >= y
    BY <1>2, <1>3
<1> QED BY <1>4 DEF Max

(* What a fold from the left computes of every subset of the indices.      *)
IsFold(value, step, base, seq, n) ==
    /\ value[{}] = base
    /\ \A s \in (SUBSET (1 .. n)) \ {{}} :
          value[s] = step[<<value[s \ {Max(s)}], seq[Max(s)]>>]

Foldable(R, step, base, seq, n) ==
    \E value \in [SUBSET (1 .. n) -> R] : IsFold(value, step, base, seq, n)

LEMMA FoldExists ==
    ASSUME NEW R, NEW D, NEW step \in [R \X D -> R], NEW base \in R, NEW seq \in Seq(D)
    PROVE  Foldable(R, step, base, seq, Len(seq))
<1> DEFINE Good == {n \in Nat : n <= Len(seq) => Foldable(R, step, base, seq, n)}
<1>1. 0 \in Good
    <2> DEFINE value == [s \in SUBSET (1 .. 0) |-> base]
    <2>1. value \in [SUBSET (1 .. 0) -> R] /\ SUBSET (1 .. 0) = {{}}
        OBVIOUS
    <2>2. IsFold(value, step, base, seq, 0)
        <3>1. value[{}] = base /\ \A s \in SUBSET (1 .. 0) : s = {}
            BY <2>1
        <3> HIDE DEF value
        <3>2. (SUBSET (1 .. 0)) \ {{}} = {}
            BY <3>1
        <3> QED BY <3>1, <3>2 DEF IsFold
    <2> QED BY <2>1, <2>2 DEF Foldable
<1>2. ASSUME NEW n \in Nat, Foldable(R, step, base, seq, n), n + 1 <= Len(seq)
      PROVE  Foldable(R, step, base, seq, n + 1)
    <2>1. PICK old \in [SUBSET (1 .. n) -> R] : IsFold(old, step, base, seq, n)
        BY <1>2 DEF Foldable
    <2> DEFINE value == [s \in SUBSET (1 .. n + 1) |->
                            IF n + 1 \in s THEN step[<<old[s \ {n + 1}], seq[n + 1]>>] ELSE old[s]]
    <2>2. seq[n + 1] \in D
        BY <1>2
    <2>3. \A s \in SUBSET (1 .. n + 1) : s \ {n + 1} \in SUBSET (1 .. n)
        OBVIOUS
    <2>4. \A s \in SUBSET (1 .. n + 1) : n + 1 \notin s => s \in SUBSET (1 .. n)
        BY <2>3
    <2>5. value \in [SUBSET (1 .. n + 1) -> R]
        BY <2>2, <2>3, <2>4
    <2>6. \A s \in SUBSET (1 .. n) : value[s] = old[s]
        <3> SUFFICES ASSUME NEW s \in SUBSET (1 .. n) PROVE value[s] = old[s]
            OBVIOUS
        <3>1. s \in SUBSET (1 .. n + 1) /\ n + 1 \notin s
            OBVIOUS
        <3> QED BY <3>1
    <2>7. value[{}] = base
        BY <2>1, <2>6 DEF IsFold
    <2>8. ASSUME NEW s \in (SUBSET (1 .. n + 1)) \ {{}}
          PROVE  value[s] = step[<<value[s \ {Max(s)}], seq[Max(s)]>>]
        <3>1. CASE n + 1 \in s
            <4>1. Max(s) = n + 1
                BY <3>1, MaxOf, n + 1 \in Nat, s \subseteq 1 .. n + 1
            <4>2. value[s \ {n + 1}] = old[s \ {n + 1}]
                BY <2>3, <2>6
            <4>3. value[s] = step[<<old[s \ {n + 1}], seq[n + 1]>>]
                BY <3>1
            <4> HIDE DEF value
            <4> QED BY <4>1, <4>2, <4>3
        <3>2. CASE n + 1 \notin s
            <4>1. s \in (SUBSET (1 .. n)) \ {{}} /\ s \ {Max(s)} \in SUBSET (1 .. n)
                BY <2>4, <3>2
            <4>2. old[s] = step[<<old[s \ {Max(s)}], seq[Max(s)]>>]
                BY <2>1, <4>1 DEF IsFold
            <4> HIDE DEF value
            <4> QED BY <2>6, <4>1, <4>2
        <3> QED BY <3>1, <3>2
    <2> HIDE DEF value
    <2>9. IsFold(value, step, base, seq, n + 1)
        BY <2>7, <2>8 DEF IsFold
    <2> QED BY <2>5, <2>9 DEF Foldable
<1>3. \A n \in Nat : n \in Good => n + 1 \in Good
    <2>1. Len(seq) \in Nat
        OBVIOUS
    <2> QED BY <1>2, <2>1
<1> HIDE DEF Good
<1>4. Nat \subseteq Good
    BY <1>1, <1>3, EveryNumber
<1>5. Len(seq) \in Nat
    OBVIOUS
<1>6. Len(seq) \in Good
    BY <1>4, <1>5
<1> QED BY <1>5, <1>6 DEF Good

-----------------------------------------------------------------------------
(* What a run records.                                                     *)

(* A run has its lesson's share of the budget and, once committed, a       *)
(* response its lesson could have been given.                              *)
Recorded(p, s) ==
    /\ s.local_remaining <= Lesson(p, s).item_event_budget
    /\ s.local_remaining = Lesson(p, s).item_event_budget => s.buffer = <<>>
    /\ s.phase = "committed" =>
          /\ s.outcome # "none" /\ s.buffer = <<>>
          /\ s.committed_response.shape = Lesson(p, s).response_shape
          /\ LegalBuffer(Lesson(p, s), s.committed_response.region_ids)

LEMMA OpeningSound ==
    ASSUME NEW p, IsProjection(p), Accepted(p)
    PROVE  /\ Sound(p, NewState(p))
           /\ NewState(p).global_remaining = p.global_event_budget
<1> DEFINE item == p.lesson[p.entry_node_ref].item_event_budget
<1>1. /\ p.entry_node_ref \in Nodes(p) /\ p.global_event_budget \in Nat \ {0}
      /\ item \in Nat \ {0}
    BY AcceptedLesson, AcceptedProjection
<1>2. item <= p.global_event_budget
    <2>1. PICK costs \in CostFunctions(p) :
              AreCosts(p, costs) /\ costs[p.entry_node_ref] <= p.global_event_budget
        BY AcceptedProjection DEF SuccessPathsFit
    <2>2. costs[p.entry_node_ref] \in Nat /\ costs[p.entry_node_ref] >= item
        BY <1>1, <2>1, CostCoversTarget
    <2> QED BY <1>1, <2>1, <2>2
<1>3. NewState(p) = Fresh(p.entry_node_ref, p.global_event_budget, item, "active")
    BY DEF NewState
<1>4. Sound(p, Fresh(p.entry_node_ref, p.global_event_budget, item, "active"))
    BY <1>1, <1>2, FreshSound
<1> QED BY <1>3, <1>4 DEF Fresh

LEMMA WorkRecorded ==
    ASSUME NEW p, IsProjection(p), Accepted(p), NEW s, Sound(p, s), Recorded(p, s),
           s.phase = "active", NEW buffer
    PROVE  Recorded(p, Work(s, buffer))
<1> DEFINE t == Work(s, buffer)
<1>1. /\ t.current_node_id = s.current_node_id
      /\ t.local_remaining = s.local_remaining - 1
      /\ t.phase \in {"exhausted", "active"}
    BY DEF Sound, Work, Spend, RunType
<1>2. s.local_remaining \in Nat /\ Lesson(p, s).item_event_budget \in Nat
    BY AcceptedLesson DEF Sound, RunType, Placed, Lesson
<1> HIDE DEF t
<1> QED BY <1>1, <1>2 DEF Recorded, Lesson, t

LEMMA CommitRecorded ==
    ASSUME NEW p, IsProjection(p), Accepted(p), NEW s, Sound(p, s), Recorded(p, s),
           Answers(p, s), s.phase = "active"
    PROVE  Recorded(p, Commit(p, s))
<1> DEFINE t == Commit(p, s)
           response == Response(Lesson(p, s), s.buffer)
           v == Verdict(Lesson(p, s), response)
<1>1. s \in RunType /\ s.local_remaining \in Nat /\ Lesson(p, s).item_event_budget \in Nat
    BY AcceptedLesson DEF Sound, RunType, Placed, Lesson
<1>2. t = [Spend(s) EXCEPT !.phase = "committed", !.outcome = v.outcome, !.buffer = <<>>,
                           !.committed_response = response,
                           !.feedback_ref = v.feedback_ref,
                           !.next_node_ref = v.next_node_ref]
    BY DEF Commit
<1>3. v.outcome # "none"
    BY DEF Verdict
<1>4. response.shape = Lesson(p, s).response_shape /\ response.region_ids = s.buffer
    BY DEF Response
<1>5. /\ t.current_node_id = s.current_node_id /\ t.phase = "committed" /\ t.buffer = <<>>
      /\ t.outcome = v.outcome /\ t.committed_response = response
      /\ t.local_remaining = s.local_remaining - 1
    <2> HIDE DEF response, v
    <2> QED BY <1>1, <1>2 DEF Spend, RunType
<1> HIDE DEF t, response, v
<1> QED BY <1>1, <1>3, <1>4, <1>5 DEF Recorded, Answers, Lesson, t

LEMMA ConsumedRecorded ==
    ASSUME NEW p, IsProjection(p), Accepted(p), NEW s, Sound(p, s), Recorded(p, s),
           Answers(p, s), s.phase = "active", NEW action \in Actions
    PROVE  Recorded(p, Consumed(p, s, action).state)
<1>1. CASE action.tag = "commit"
    BY <1>1, CommitRecorded DEF Consumed
<1>2. CASE action.tag # "commit"
    <2>1. PICK buffer : Consumed(p, s, action).state = Work(s, buffer)
        BY <1>2 DEF Consumed, Actions, CallableActions
    <2> QED BY <2>1, WorkRecorded
<1> QED BY <1>1, <1>2

(* What the interpreter's own calls keep of a run, and validate_run_state  *)
(* asks of one.                                                            *)
Legal(p, s) == Sound(p, s) /\ Answers(p, s) /\ Recorded(p, s)

LEMMA ConsumedLegal ==
    ASSUME NEW p, IsProjection(p), Accepted(p), NEW s, Legal(p, s), s.phase = "active",
           NEW action \in Actions
    PROVE  Legal(p, Consumed(p, s, action).state)
BY ConsumedSound, ConsumedAnswers, ConsumedRecorded DEF Legal

LEMMA AdvanceLegal ==
    ASSUME NEW p, IsProjection(p), Accepted(p), NEW s, Legal(p, s), CanAdvance(s)
    PROVE  Legal(p, Advance(p, s)) /\ Advance(p, s).global_remaining = s.global_remaining
<1> DEFINE t == Advance(p, s)
<1>1. /\ Sound(p, t) /\ t.global_remaining = s.global_remaining
      /\ t.current_node_id = s.next_node_ref /\ s.next_node_ref \in Nodes(p)
    BY AdvanceSound DEF Legal
<1>2. Answers(p, t)
    BY <1>1, FreshAnswers DEF Advance
<1>3. /\ t.local_remaining <= p.lesson[s.next_node_ref].item_event_budget
      /\ t.buffer = <<>> /\ t.phase # "committed"
    <2>1. /\ p.lesson[s.next_node_ref].item_event_budget \in Nat
          /\ s.global_remaining \in Nat
        BY <1>1, AcceptedLesson DEF Legal, Sound, RunType
    <2> QED BY <2>1 DEF Advance, Fresh, LesserOf
<1>4. Recorded(p, t)
    BY <1>1, <1>3 DEF Recorded, Lesson
<1> QED BY <1>1, <1>2, <1>4 DEF Legal

LEMMA OpeningLegal ==
    ASSUME NEW p, IsProjection(p), Accepted(p)
    PROVE  Legal(p, NewState(p)) /\ NewState(p).global_remaining = p.global_event_budget
<1> DEFINE s == NewState(p)
<1>1. Sound(p, s) /\ s.global_remaining = p.global_event_budget
    BY OpeningSound
<1>2. /\ s.current_node_id = p.entry_node_ref /\ s.phase = "active" /\ s.buffer = <<>>
      /\ s.local_remaining = Lesson(p, s).item_event_budget
      /\ Lesson(p, s).item_event_budget \in Nat
    BY AcceptedProjection, AcceptedLesson DEF NewState, Fresh, Lesson
<1>3. Answers(p, s)
    BY AcceptedProjection, FreshAnswers DEF NewState
<1>4. Recorded(p, s)
    BY <1>2 DEF Recorded
<1> QED BY <1>1, <1>3, <1>4 DEF Legal

-----------------------------------------------------------------------------
(* The replay of a log.                                                    *)
ReplayStep(p, s, event) == IF s = Impossible THEN s ELSE ReplayEvent(p, s, event)

Held(p) == {s \in RunType : Legal(p, s)} \cup {Impossible}

LEMMA ImpossibleIsNoRun == Impossible \notin RunType
BY DEF Impossible, RunType, Phases

LEMMA ReplayStepTyped ==
    ASSUME NEW p, IsProjection(p), Accepted(p), NEW s \in Held(p), NEW event \in Event
    PROVE  LET t == ReplayStep(p, s, event)
           IN  /\ t \in Held(p)
               /\ t # Impossible => s # Impossible /\ t.global_remaining = s.global_remaining - 1
<1> SUFFICES ASSUME ReplayStep(p, s, event) # Impossible
             PROVE  LET t == ReplayStep(p, s, event)
                    IN  /\ Legal(p, t)
                        /\ s # Impossible /\ t.global_remaining = s.global_remaining - 1
    BY DEF Held, Legal, Sound
<1> DEFINE at == IF CanAdvance(s) THEN Advance(p, s) ELSE s
<1>1. s # Impossible /\ Legal(p, s)
    BY DEF ReplayStep, Held
<1>2. Legal(p, at) /\ at.global_remaining = s.global_remaining
    BY <1>1, AdvanceLegal
<1>3. at.phase = "active" /\ ReplayStep(p, s, event) = Consumed(p, at, event.action).state
    BY <1>1 DEF ReplayStep, ReplayEvent
<1>4. event.action \in Actions
    BY DEF Event
<1> HIDE DEF at
<1>5. Consumed(p, at, event.action).state.global_remaining = at.global_remaining - 1
    BY <1>2, <1>3, <1>4, ConsumedSound DEF Legal
<1> QED BY <1>1, <1>2, <1>3, <1>4, <1>5, ConsumedLegal

Replays(after, p, log) ==
    /\ after \in [0 .. Len(log) -> Held(p)]
    /\ after[0] = NewState(p)
    /\ \A k \in 1 .. Len(log) : after[k] = ReplayStep(p, after[k - 1], log[k])

(* The fold goes through the log event by event.                           *)
LEMMA ReplayUnfolds ==
    ASSUME NEW p, IsProjection(p), Accepted(p), NEW log \in Seq(Event)
    PROVE  \E after : Replays(after, p, log) /\ Replay(p, log) = after[Len(log)]
<1> DEFINE step == [x \in Held(p) \X Event |-> ReplayStep(p, x[1], x[2])]
           n == Len(log)
           Body(g) == [s \in SUBSET DOMAIN log |->
                          IF s = {} THEN NewState(p)
                          ELSE ReplayStep(p, g[s \ {Max(s)}], log[Max(s)])]
           value == CHOOSE g : g = Body(g)
<1>1. n \in Nat /\ DOMAIN log = 1 .. n
    OBVIOUS
<1>2. NewState(p) \in Held(p)
    BY OpeningLegal DEF Held, Legal, Sound
<1>3. step \in [Held(p) \X Event -> Held(p)]
    BY ReplayStepTyped
<1>4. PICK g \in [SUBSET (1 .. n) -> Held(p)] : IsFold(g, step, NewState(p), log, n)
    <2> HIDE DEF step
    <2> QED BY <1>2, <1>3, FoldExists DEF Foldable
<1>5. g = Body(g)
    <2>1. ASSUME NEW s \in SUBSET (1 .. n), s # {}
          PROVE  g[s] = ReplayStep(p, g[s \ {Max(s)}], log[Max(s)])
        <3>1. Max(s) \in s
            BY <1>1, <2>1, LargestIn
        <3>2. Max(s) \in 1 .. n /\ s \ {Max(s)} \in SUBSET (1 .. n)
            BY <3>1
        <3>3. g[s \ {Max(s)}] \in Held(p)
            BY <1>4, <3>2
        <3>4. log[Max(s)] \in Event
            BY <1>1, <3>2
        <3>5. g[s] = step[<<g[s \ {Max(s)}], log[Max(s)]>>]
            BY <1>4, <2>1 DEF IsFold
        <3> QED BY <3>3, <3>4, <3>5
    <2>2. g[{}] = NewState(p)
        BY <1>4 DEF IsFold
    <2> HIDE DEF step
    <2> QED BY <1>1, <1>4, <2>1, <2>2
<1>6. value = Body(value)
    BY <1>5
<1>7. Replay(p, log) = value[1 .. n]
    <2> HIDE DEF step
    <2> QED BY <1>1 DEF Replay, FoldLeft, MapThenFoldSet, ReplayStep
<1> HIDE DEF value, step
<1> DEFINE after == [k \in 0 .. n |-> value[1 .. k]]
<1>8. after[0] = NewState(p)
    BY <1>1, <1>6
<1>9. ASSUME NEW k \in 1 .. n
      PROVE  after[k] = ReplayStep(p, after[k - 1], log[k])
    <2>1. Max(1 .. k) = k /\ (1 .. k) \ {k} = 1 .. k - 1
        BY <1>1, MaxOf
    <2>2. 1 .. k \in SUBSET DOMAIN log /\ 1 .. k # {}
        BY <1>1
    <2>3. value[1 .. k] = ReplayStep(p, value[1 .. k - 1], log[k])
        BY <1>6, <2>1, <2>2
    <2> QED BY <1>1, <2>3
<1>10. \A k \in 0 .. n : after[k] \in Held(p)
    <2> DEFINE Typed == {k \in Nat : k <= n => after[k] \in Held(p)}
    <2>1. 0 \in Typed
        BY <1>2, <1>8
    <2>2. ASSUME NEW k \in Nat, k <= n => after[k] \in Held(p), k + 1 <= n
          PROVE  after[k + 1] \in Held(p)
        <3>1. k + 1 \in 1 .. n /\ (k + 1) - 1 = k /\ k <= n /\ log[k + 1] \in Event
            BY <1>1, <2>2
        <3> HIDE DEF after
        <3> QED BY <1>9, <2>2, <3>1, ReplayStepTyped
    <2>3. \A k \in Nat : k \in Typed => k + 1 \in Typed
        BY <2>2
    <2> HIDE DEF Typed
    <2>4. Nat \subseteq Typed
        BY <2>1, <2>3, EveryNumber
    <2>5. \A k \in 0 .. n : k \in Nat /\ k <= n
        BY <1>1
    <2> QED BY <2>4, <2>5 DEF Typed
<1>11. after[n] = value[1 .. n]
    BY <1>1
<1>12. Replays(after, p, log)
    <2>1. after \in [0 .. n -> Held(p)]
        BY <1>10
    <2> HIDE DEF after
    <2> QED BY <1>8, <1>9, <2>1 DEF Replays
<1> QED BY <1>7, <1>11, <1>12

LEMMA OneReplay ==
    ASSUME NEW p, NEW log \in Seq(Event), NEW longer \in Seq(Event),
           Len(log) <= Len(longer), \A i \in 1 .. Len(log) : longer[i] = log[i],
           NEW a, Replays(a, p, log), NEW b, Replays(b, p, longer)
    PROVE  a[Len(log)] = b[Len(log)]
<1> DEFINE Same == {k \in Nat : k <= Len(log) => a[k] = b[k]}
<1>1. 0 \in Same
    BY DEF Replays
<1>2. ASSUME NEW k \in Nat, a[k] = b[k], k + 1 <= Len(log)
      PROVE  a[k + 1] = b[k + 1]
    <2>1. k + 1 \in 1 .. Len(log) /\ k + 1 \in 1 .. Len(longer) /\ (k + 1) - 1 = k
        BY <1>2
    <2>2. a[k + 1] = ReplayStep(p, a[k], log[k + 1])
        BY <2>1 DEF Replays
    <2>3. b[k + 1] = ReplayStep(p, b[k], longer[k + 1])
        BY <2>1 DEF Replays
    <2> QED BY <1>2, <2>1, <2>2, <2>3
<1>3. \A k \in Nat : k \in Same => k + 1 \in Same
    <2>1. Len(log) \in Nat
        OBVIOUS
    <2> QED BY <1>2, <2>1
<1> HIDE DEF Same
<1>4. Nat \subseteq Same
    BY <1>1, <1>3, EveryNumber
<1> QED BY <1>4 DEF Same

(* Replaying one event more.                                               *)
LEMMA ReplayAppends ==
    ASSUME NEW p, IsProjection(p), Accepted(p), NEW log \in Seq(Event), NEW event \in Event
    PROVE  Replay(p, Append(log, event)) = ReplayStep(p, Replay(p, log), event)
<1> DEFINE longer == Append(log, event)
<1>1. /\ longer \in Seq(Event) /\ Len(longer) = Len(log) + 1
      /\ \A i \in 1 .. Len(log) : longer[i] = log[i]
      /\ longer[Len(log) + 1] = event /\ Len(log) \in Nat
    OBVIOUS
<1> HIDE DEF longer
<1>2. PICK a : Replays(a, p, log) /\ Replay(p, log) = a[Len(log)]
    BY ReplayUnfolds
<1>3. PICK b : Replays(b, p, longer) /\ Replay(p, longer) = b[Len(longer)]
    BY <1>1, ReplayUnfolds
<1>4. a[Len(log)] = b[Len(log)]
    BY <1>1, <1>2, <1>3, OneReplay
<1>5. b[Len(log) + 1] = ReplayStep(p, b[(Len(log) + 1) - 1], longer[Len(log) + 1])
    BY <1>1, <1>3 DEF Replays
<1> QED BY <1>1, <1>2, <1>3, <1>4, <1>5 DEF longer

LEMMA ReplayOpens ==
    ASSUME NEW p, IsProjection(p), Accepted(p)
    PROVE  Replay(p, <<>>) = NewState(p)
<1>1. <<>> \in Seq(Event) /\ Len(<<>>) = 0
    OBVIOUS
<1>2. PICK a : Replays(a, p, <<>>) /\ Replay(p, <<>>) = a[Len(<<>>)]
    BY <1>1, ReplayUnfolds
<1> QED BY <1>1, <1>2 DEF Replays

(* Every event that a replay takes was paid for once.                      *)
LEMMA ReplayPays ==
    ASSUME NEW p, IsProjection(p), Accepted(p), NEW log \in Seq(Event),
           Replay(p, log) # Impossible
    PROVE  /\ Legal(p, Replay(p, log))
           /\ Len(log) + Replay(p, log).global_remaining = p.global_event_budget
<1> DEFINE Paid(s, k) == s # Impossible => k + s.global_remaining = p.global_event_budget
<1>1. PICK a : Replays(a, p, log) /\ Replay(p, log) = a[Len(log)]
    BY ReplayUnfolds
<1> DEFINE Good == {k \in Nat : k <= Len(log) => Paid(a[k], k)}
<1>2. 0 \in Good
    <2>1. a[0] = NewState(p) /\ p.global_event_budget \in Nat
        BY <1>1, AcceptedProjection DEF Replays
    <2> QED BY <2>1, OpeningLegal
<1>3. ASSUME NEW k \in Nat, Paid(a[k], k), k + 1 <= Len(log)
      PROVE  Paid(a[k + 1], k + 1)
    <2>1. k + 1 \in 1 .. Len(log) /\ (k + 1) - 1 = k /\ k \in 0 .. Len(log) /\ log[k + 1] \in Event
        BY <1>3
    <2>2. a[k] \in Held(p) /\ a[k + 1] = ReplayStep(p, a[k], log[k + 1])
        BY <1>1, <2>1 DEF Replays
    <2>3. a[k + 1] # Impossible =>
            a[k] # Impossible /\ a[k + 1].global_remaining = a[k].global_remaining - 1
        BY <2>1, <2>2, ReplayStepTyped
    <2>4. a[k] # Impossible => a[k].global_remaining \in Nat
        BY <2>2 DEF Held, RunType
    <2> QED BY <1>3, <2>3, <2>4
<1>4. \A k \in Nat : k \in Good => k + 1 \in Good
    <2>1. Len(log) \in Nat
        OBVIOUS
    <2> QED BY <1>3, <2>1
<1> HIDE DEF Good
<1>5. Len(log) \in Nat /\ Nat \subseteq Good
    BY <1>2, <1>4, EveryNumber
<1>6. Paid(a[Len(log)], Len(log)) /\ a[Len(log)] \in Held(p)
    <2>1. Len(log) \in Good /\ Len(log) \in 0 .. Len(log)
        BY <1>5
    <2> QED BY <1>1, <2>1 DEF Good, Replays
<1> QED BY <1>1, <1>6 DEF Held

-----------------------------------------------------------------------------
(* What the bytes say and what they leave out.                             *)

(* A log stands for the run it replays to and for that run moved on.       *)
StandsFor(p, log, s) ==
    LET end == Replay(p, log)
    IN  end # Impossible /\ (s = end \/ (CanAdvance(end) /\ s = Advance(p, end)))

Writable(p, s, log) ==
    /\ Legal(p, s)
    /\ log \in Seq(Event)
    /\ Len(log) + s.global_remaining = p.global_event_budget
    /\ StandsFor(p, log, s)

LEMMA EncodeTells ==
    ASSUME NEW s, NEW log
    PROVE  LET snap == Encode(s, log)
           IN  /\ snap.current_node_id = s.current_node_id
               /\ snap.global_remaining = s.global_remaining
               /\ snap.local_remaining = s.local_remaining
               /\ snap.phase = s.phase
               /\ snap.outcome = s.outcome
               /\ snap.buffer = s.buffer
               /\ snap.committed_response = s.committed_response
               /\ snap.events = log
BY DEF Encode

(* The validator's checks of the fields let every run pass.                *)
LEMMA FieldsPass ==
    ASSUME NEW p, IsProjection(p), Accepted(p), NEW s, NEW log, Writable(p, s, log)
    PROVE  FieldsValid(p, Encode(s, log))
<1> DEFINE snap == Encode(s, log)
<1>1. /\ s \in RunType /\ s.current_node_id \in Nodes(p) /\ Solvent(s)
      /\ s.global_remaining \in Nat /\ s.local_remaining \in Nat /\ Len(log) \in Nat
      /\ p.global_event_budget \in Nat
      /\ Len(log) + s.global_remaining = p.global_event_budget
      /\ s.phase \in Phases
    BY AcceptedProjection DEF Writable, Legal, Sound, Placed, RunType
<1>2. /\ snap.current_node_id = s.current_node_id
      /\ snap.global_remaining = s.global_remaining
      /\ snap.local_remaining = s.local_remaining
      /\ snap.phase = s.phase /\ snap.outcome = s.outcome /\ snap.buffer = s.buffer
      /\ snap.committed_response = s.committed_response /\ snap.events = log
    BY EncodeTells
<1> HIDE DEF snap
<1>3. PhaseFitsBudgets(snap)
    BY <1>1, <1>2 DEF PhaseFitsBudgets, Solvent
<1>4. ResponseFits(p.lesson[snap.current_node_id], snap)
    BY <1>1, <1>2 DEF ResponseFits, Writable, Legal, Recorded, Answers, Shows, Lesson
<1>5. /\ snap.global_remaining <= p.global_event_budget
      /\ snap.local_remaining <= p.lesson[snap.current_node_id].item_event_budget
      /\ snap.local_remaining <= snap.global_remaining
      /\ Len(snap.events) <= p.global_event_budget
    BY <1>1, <1>2 DEF Solvent, Writable, Legal, Recorded, Lesson
<1> QED BY <1>1, <1>2, <1>3, <1>4, <1>5 DEF FieldsValid, snap

(* A run and the same run moved on are told apart by two fields.           *)
LEMMA MovedOnDiffers ==
    ASSUME NEW p, NEW s, CanAdvance(s)
    PROVE  Advance(p, s).phase # s.phase /\ Advance(p, s).outcome = "none"
BY DEF Advance, Fresh, CanAdvance

(* Of the two runs that a log stands for, the bytes name one.              *)
LEMMA BytesName ==
    ASSUME NEW p, NEW log, NEW s, StandsFor(p, log, s), NEW r, StandsFor(p, log, r), r # s
    PROVE  /\ r.phase # s.phase
           /\ r.phase = "committed" \/ s.phase = "committed"
           /\ r.phase = "committed" => s.outcome = "none"
           /\ s.phase = "committed" => r.outcome = "none"
<1> DEFINE end == Replay(p, log)
<1>1. /\ CanAdvance(end) /\ end.phase = "committed"
      /\ \/ r = end /\ s = Advance(p, end)
         \/ s = end /\ r = Advance(p, end)
    BY DEF StandsFor, CanAdvance
<1> HIDE DEF end
<1> QED BY <1>1, MovedOnDiffers

LEMMA RestoreIs ==
    ASSUME NEW p, NEW snap
    PROVE  Restore(p, snap) =
              IF FieldsValid(p, snap)
              THEN {s \in ReplayEnds(p, snap.events) : Encode(s, snap.events) = snap} ELSE {}
BY DEF Restore

LEMMA EndsStand ==
    ASSUME NEW p, NEW log, NEW s
    PROVE  s \in ReplayEnds(p, log) <=> StandsFor(p, log, s)
BY DEF ReplayEnds, StandsFor

(* So a written run is restored, and nothing else is.                      *)
LEMMA WrittenRestores ==
    ASSUME NEW p, IsProjection(p), Accepted(p), NEW s, NEW log, Writable(p, s, log)
    PROVE  Restore(p, Encode(s, log)) = {s}
<1> DEFINE snap == Encode(s, log)
<1>1. FieldsValid(p, snap) /\ snap.events = log
    BY FieldsPass, EncodeTells
<1>2. StandsFor(p, log, s)
    BY DEF Writable
<1>3. s \in Restore(p, snap)
    BY <1>1, <1>2, EndsStand, RestoreIs
<1>4. ASSUME NEW r \in Restore(p, snap)
      PROVE  r = s
    <2>1. StandsFor(p, log, r) /\ Encode(r, log) = snap
        BY <1>1, <1>4, EndsStand, RestoreIs
    <2>2. r.phase = s.phase
        BY <2>1, EncodeTells
    <2> QED BY <1>2, <2>1, <2>2, BytesName
<1> QED BY <1>3, <1>4

(* Whatever bytes validate_run_state accepts, of whatever origin: they are *)
(* those of one run, which the log accounts for event by event, and that   *)
(* run is the one returned.                                                *)
THEOREM RestoreIsExact ==
    ASSUME NEW p, IsProjection(p), Accepted(p), NEW snap, snap.events \in Seq(Event),
           NEW s \in Restore(p, snap)
    PROVE  Writable(p, s, snap.events) /\ snap = Encode(s, snap.events) /\ Restore(p, snap) = {s}
<1> DEFINE end == Replay(p, snap.events)
<1>1. StandsFor(p, snap.events, s) /\ Encode(s, snap.events) = snap
    BY EndsStand, RestoreIs
<1>2. Legal(p, end) /\ Len(snap.events) + end.global_remaining = p.global_event_budget
    BY <1>1, ReplayPays DEF StandsFor
<1>3. Legal(p, s) /\ s.global_remaining = end.global_remaining
    BY <1>1, <1>2, AdvanceLegal DEF StandsFor
<1>4. Writable(p, s, snap.events)
    BY <1>1, <1>2, <1>3 DEF Writable
<1> QED BY <1>1, <1>4, WrittenRestores

LEMMA OpeningWritable ==
    ASSUME NEW p, IsProjection(p), Accepted(p)
    PROVE  Writable(p, NewState(p), <<>>)
<1> DEFINE s == NewState(p)
<1>1. Legal(p, s) /\ s.global_remaining = p.global_event_budget /\ p.global_event_budget \in Nat
    BY OpeningLegal, AcceptedProjection
<1>2. StandsFor(p, <<>>, s)
    <2>1. Replay(p, <<>>) = s /\ s # Impossible
        BY <1>1, ReplayOpens, ImpossibleIsNoRun DEF Legal, Sound
    <2> QED BY <2>1 DEF StandsFor
<1>3. <<>> \in Seq(Event) /\ Len(<<>>) = 0
    OBVIOUS
<1> HIDE DEF s
<1> QED BY <1>1, <1>2, <1>3 DEF Writable, s

LEMMA AdvanceWritable ==
    ASSUME NEW p, IsProjection(p), Accepted(p), NEW s, NEW log, Writable(p, s, log),
           CanAdvance(s)
    PROVE  Writable(p, Advance(p, s), log)
<1> DEFINE t == Advance(p, s)
<1>1. Legal(p, s) /\ StandsFor(p, log, s)
    BY DEF Writable
<1>2. Legal(p, t) /\ t.global_remaining = s.global_remaining
    BY <1>1, AdvanceLegal
<1>3. StandsFor(p, log, t)
    <2>1. ~CanAdvance(Advance(p, Replay(p, log)))
        BY DEF Advance, Fresh, CanAdvance
    <2>2. s = Replay(p, log)
        BY <1>1, <2>1 DEF StandsFor
    <2> QED BY <1>1, <2>2 DEF StandsFor
<1> HIDE DEF t
<1> QED BY <1>2, <1>3 DEF Writable, t

LEMMA NormalizedCanonical ==
    ASSUME NEW raw
    PROVE  /\ NormalizeAction(raw).tag \in CallableActions \cup {"invalid"}
           /\ NormalizeAction(raw).tag \in {"reset", "commit", "invalid"}
                 => NormalizeAction(raw).region = 0
BY DEF NormalizeAction, CallableActions, InvalidAction

(* A consumed call and its event keep the log true to the run.             *)
LEMMA StepWritable ==
    ASSUME NEW p, IsProjection(p), Accepted(p), NEW s, NEW log, Writable(p, s, log),
           s.phase = "active", NEW raw \in RawActions
    PROVE  Writable(p, Transition(p, s, raw).state,
                    Append(log, [node_id |-> s.current_node_id,
                                 action  |-> NormalizeAction(raw),
                                 result  |-> Transition(p, s, raw).result]))
<1> DEFINE action == NormalizeAction(raw)
           answer == Transition(p, s, raw)
           t == answer.state
           event == [node_id |-> s.current_node_id, action |-> action, result |-> answer.result]
<1>1. /\ Legal(p, s) /\ Sound(p, s) /\ log \in Seq(Event)
      /\ Len(log) + s.global_remaining = p.global_event_budget
      /\ StandsFor(p, log, s)
      /\ s.global_remaining \in Nat
    BY DEF Writable, Legal, Sound, RunType
<1>2. answer = Consumed(p, s, action)
    BY TransitionConsumes
<1>3. /\ Sound(p, t) /\ t.global_remaining = s.global_remaining - 1
      /\ answer.result \in Results /\ action \in Actions
    BY <1>1, TransitionSound, NormalizedActions
<1>4. Legal(p, t)
    BY <1>1, <1>2, <1>3, ConsumedLegal
<1>5. event \in Event
    BY <1>1, <1>3 DEF Event, Sound, RunType
<1>6. CanonicalEvent(event)
    BY NormalizedCanonical DEF CanonicalEvent
<1> HIDE DEF action, answer
<1>7. Append(log, event) \in Seq(Event) /\ Len(Append(log, event)) = Len(log) + 1
    BY <1>1, <1>5
<1>8. StandsFor(p, Append(log, event), t)
    <2> DEFINE end == Replay(p, log)
               at == IF CanAdvance(end) THEN Advance(p, end) ELSE end
    <2>1. end # Impossible /\ at = s
        BY <1>1 DEF StandsFor, CanAdvance
    <2>2. ReplayEvent(p, end, event) =
            IF /\ at.phase = "active" /\ event.node_id = at.current_node_id
               /\ CanonicalEvent(event)
               /\ Consumed(p, at, event.action).result = event.result
            THEN Consumed(p, at, event.action).state ELSE Impossible
        BY DEF ReplayEvent
    <2> HIDE DEF at, end
    <2>3. ReplayEvent(p, end, event) = t
        BY <1>2, <1>6, <2>1, <2>2
    <2>4. Replay(p, Append(log, event)) = t
        BY <1>1, <1>5, <2>1, <2>3, ReplayAppends DEF ReplayStep, end
    <2>5. t # Impossible
        BY <1>3, ImpossibleIsNoRun DEF Sound
    <2> QED BY <2>4, <2>5 DEF StandsFor
<1> HIDE DEF event
<1>9. Len(Append(log, event)) + t.global_remaining = p.global_event_budget
    BY <1>1, <1>3, <1>7
<1>10. Writable(p, t, Append(log, event))
    BY <1>3, <1>4, <1>7, <1>8, <1>9 DEF Writable
<1> QED BY <1>10 DEF event, answer, action

(* The host's calls keep the log true to the run.                          *)
LEMMA NextWritable ==
    ASSUME IsProjection(projection), Accepted(projection),
           Writable(projection, run, events), [Next]_vars
    PROVE  Writable(projection, run, events)'
<1>1. ASSUME NEW raw \in RawActions, Step(raw)
      PROVE  Writable(projection, run, events)'
    BY <1>1, StepWritable DEF Step
<1>2. CASE Select \/ Reset \/ CommitAnswer \/ InvalidCall
    BY <1>1, <1>2 DEF Select, Reset, CommitAnswer, InvalidCall, StepTagged
<1>3. CASE RefusedCall
    <2>1. run.phase \in {"committed", "exhausted"}
        BY <1>3 DEF RefusedCall, Writable, Legal, Sound, RunType, Phases
    <2>2. run' = run /\ events' = events /\ projection' = projection
        BY <1>3, <2>1 DEF RefusedCall, Transition
    <2> QED BY <2>2
<1>4. CASE AdvanceCommitted
    BY <1>4, AdvanceWritable DEF AdvanceCommitted
<1>5. CASE UNCHANGED vars
    BY <1>5 DEF vars
<1> QED BY <1>2, <1>3, <1>4, <1>5 DEF Next

LEMMA InitWritable == Init => Writable(projection, run, events)
<1> SUFFICES ASSUME Init PROVE Writable(projection, run, events)
    OBVIOUS
<1>1. IsProjection(projection) /\ Accepted(projection)
    BY InitIInv DEF IInv
<1> QED BY <1>1, OpeningWritable DEF Init

LEMMA InvariantWritable == Spec => []Writable(projection, run, events)
<1>1. IInv /\ Writable(projection, run, events) /\ [Next]_vars
        => Writable(projection, run, events)'
    BY NextWritable DEF IInv
<1> QED BY <1>1, InitWritable, Invariant, PTL DEF Spec

-----------------------------------------------------------------------------
(* The host with its snapshots.                                            *)
Written ==
    saved # NothingSaved =>
        \E s : /\ saved = Encode(s, saved.events)
               /\ Writable(projection, s, saved.events)
               /\ on_success_path => Funded(projection, s)

SnapshotIInv == /\ IsProjection(projection)
                /\ Accepted(projection)
                /\ Writable(projection, run, events)
                /\ on_success_path \in BOOLEAN
                /\ on_success_path => Funded(projection, run)
                /\ Written

LEMMA SnapshotIsIInv == SnapshotIInv => IInv
BY DEF SnapshotIInv, Writable, Legal, IInv

(* History is only ever forgotten.                                         *)
LEMMA NextForgets ==
    ASSUME [Next]_vars
    PROVE  projection' = projection /\ (on_success_path' => on_success_path)
<1>1. \A raw : Step(raw) => UNCHANGED <<projection, on_success_path>>
    BY DEF Step
<1>2. CASE Select \/ Reset \/ CommitAnswer \/ InvalidCall
    BY <1>1, <1>2 DEF Select, Reset, CommitAnswer, InvalidCall, StepTagged
<1>3. CASE RefusedCall \/ UNCHANGED vars
    BY <1>3 DEF RefusedCall, vars
<1>4. CASE AdvanceCommitted
    BY <1>4 DEF AdvanceCommitted
<1> QED BY <1>2, <1>3, <1>4 DEF Next

LEMMA SnapshotInitIInv == SnapshotInit => SnapshotIInv
<1> SUFFICES ASSUME SnapshotInit PROVE SnapshotIInv
    OBVIOUS
<1>1. Init /\ saved = NothingSaved
    BY DEF SnapshotInit
<1>2. IInv
    BY <1>1, InitIInv
<1>3. Writable(projection, run, events)
    BY <1>1, InitWritable
<1> QED BY <1>1, <1>2, <1>3 DEF SnapshotIInv, IInv, Written

LEMMA RunningKeeps ==
    ASSUME SnapshotIInv, [Next]_vars, UNCHANGED saved
    PROVE  SnapshotIInv'
<1>1. IInv'
    BY SnapshotIsIInv, NextIInv
<1>2. Writable(projection, run, events)'
    BY NextWritable DEF SnapshotIInv
<1>3. Written'
    <2> SUFFICES ASSUME saved # NothingSaved
                 PROVE  \E s : /\ saved = Encode(s, saved.events)
                               /\ Writable(projection, s, saved.events)
                               /\ on_success_path' => Funded(projection, s)
        BY NextForgets DEF Written
    <2> QED BY NextForgets DEF SnapshotIInv, Written
<1> QED BY <1>1, <1>2, <1>3 DEF SnapshotIInv, IInv

LEMMA SaveKeeps == SnapshotIInv /\ Save => SnapshotIInv'
<1> SUFFICES ASSUME SnapshotIInv, Save PROVE SnapshotIInv'
    OBVIOUS
<1>1. /\ saved' = Encode(run, events) /\ saved'.events = events
      /\ projection' = projection /\ run' = run /\ events' = events
      /\ on_success_path' = on_success_path
    BY EncodeTells DEF Save, vars
<1>2. Written'
    BY <1>1 DEF SnapshotIInv, Written
<1> QED BY <1>1, <1>2 DEF SnapshotIInv

LEMMA ResumeKeeps == SnapshotIInv /\ Resume => SnapshotIInv'
<1> SUFFICES ASSUME SnapshotIInv, Resume PROVE SnapshotIInv'
    OBVIOUS
<1>1. /\ saved # NothingSaved /\ run' \in Restore(projection, saved)
      /\ events' = saved.events /\ projection' = projection
      /\ on_success_path' = on_success_path /\ saved' = saved
    BY DEF Resume
<1>2. PICK s : /\ saved = Encode(s, saved.events)
               /\ Writable(projection, s, saved.events)
               /\ on_success_path => Funded(projection, s)
    BY <1>1 DEF SnapshotIInv, Written
<1>3. Restore(projection, saved) = {s}
    BY <1>2, WrittenRestores DEF SnapshotIInv
<1>4. run' = s
    BY <1>1, <1>3
<1>5. Written'
    BY <1>1 DEF SnapshotIInv, Written
<1> QED BY <1>1, <1>2, <1>4, <1>5 DEF SnapshotIInv

LEMMA SnapshotNextIInv == SnapshotIInv /\ [SnapshotNext]_snapshotVars => SnapshotIInv'
BY RunningKeeps, SaveKeeps, ResumeKeeps DEF SnapshotNext, Running, snapshotVars

LEMMA SnapshotInvariant == SnapshotSpec => []SnapshotIInv
BY SnapshotInitIInv, SnapshotNextIInv, PTL DEF SnapshotSpec

(* Whenever a run is written down, the bytes restore it and nothing else.  *)
THEOREM SnapshotsFaithful == SnapshotSpec => []SnapshotFaithful
<1>1. SnapshotIInv => SnapshotFaithful
    BY WrittenRestores DEF SnapshotIInv, SnapshotFaithful
<1> QED BY <1>1, SnapshotInvariant, PTL

-----------------------------------------------------------------------------
(* Damage.                                                                 *)

(* A log that is longer or shorter than the run's does not pay for it.     *)
LEMMA OtherLogRefused ==
    ASSUME NEW p, IsProjection(p), Accepted(p), NEW s, NEW log, Writable(p, s, log),
           NEW other \in Seq(Event), Len(other) # Len(log),
           NEW snap, snap.events = other, snap.global_remaining = s.global_remaining
    PROVE  Restore(p, snap) = {}
<1> SUFFICES ASSUME NEW r \in Restore(p, snap) PROVE FALSE
    OBVIOUS
<1>1. StandsFor(p, other, r) /\ Encode(r, other) = snap
    BY EndsStand, RestoreIs
<1>2. r.global_remaining = s.global_remaining
    BY <1>1, EncodeTells
<1>3. /\ Legal(p, Replay(p, other))
      /\ Len(other) + Replay(p, other).global_remaining = p.global_event_budget
    BY <1>1, ReplayPays DEF StandsFor
<1>4. r.global_remaining = Replay(p, other).global_remaining
    BY <1>1, <1>3, AdvanceLegal DEF StandsFor
<1>5. /\ Len(log) + s.global_remaining = p.global_event_budget
      /\ Len(log) \in Nat /\ Len(other) \in Nat /\ s.global_remaining \in Nat
    BY DEF Writable, Legal, Sound, RunType
<1> QED BY <1>2, <1>3, <1>4, <1>5

(* With the run's own log, the phase and the outcome name the run.         *)
LEMMA OtherFieldsRefused ==
    ASSUME NEW p, IsProjection(p), Accepted(p), NEW s, NEW log, Writable(p, s, log),
           NEW snap, snap # Encode(s, log), snap.events = log,
           snap.phase = s.phase \/ snap.outcome = s.outcome
    PROVE  Restore(p, snap) = {}
<1> SUFFICES ASSUME NEW r \in Restore(p, snap) PROVE FALSE
    OBVIOUS
<1>1. StandsFor(p, log, r) /\ Encode(r, log) = snap /\ FieldsValid(p, snap)
    BY EndsStand, RestoreIs
<1>2. r # s /\ StandsFor(p, log, s)
    BY <1>1 DEF Writable
<1>3. snap.phase = r.phase /\ snap.outcome = r.outcome
    BY <1>1, EncodeTells
<1>4. r.phase = "committed" => r.outcome # "none"
    BY <1>1, <1>3 DEF FieldsValid, ResponseFits
<1>5. s.phase = "committed" => s.outcome # "none"
    BY DEF Writable, Legal, Recorded
<1> QED BY <1>1, <1>2, <1>3, <1>4, <1>5, BytesName

(* One field changed, or the log cut or repeated: no such bytes are taken  *)
(* for a run.                                                              *)
THEOREM DamageIsDetected == SnapshotSpec => []DamageDetected
<1>1. SnapshotIInv => DamageDetected
    <2> SUFFICES ASSUME SnapshotIInv, NEW snap \in Damaged(Encode(run, events)),
                        snap # Encode(run, events)
                 PROVE  Restore(projection, snap) = {}
        BY DEF DamageDetected
    <2> DEFINE whole == Encode(run, events)
    <2>1. /\ IsProjection(projection) /\ Accepted(projection)
          /\ Writable(projection, run, events)
          /\ events \in Seq(Event)
        BY DEF SnapshotIInv, Writable
    <2>2. /\ whole.global_remaining = run.global_remaining
          /\ whole.phase = run.phase /\ whole.outcome = run.outcome
          /\ whole.events = events
        BY EncodeTells
    <2>3. ASSUME snap.events = events, snap.phase = run.phase \/ snap.outcome = run.outcome
          PROVE  Restore(projection, snap) = {}
        BY <2>1, <2>3, OtherFieldsRefused
    <2>4. ASSUME NEW other \in Seq(Event), Len(other) # Len(events),
                 snap = [whole EXCEPT !.events = other]
          PROVE  Restore(projection, snap) = {}
        <3>1. snap.events = other /\ snap.global_remaining = run.global_remaining
            BY <2>4 DEF Encode
        <3> QED BY <2>1, <2>4, <3>1, OtherLogRefused
    <2>5. CASE \E n : snap = [whole EXCEPT !.current_node_id = n]
        BY <2>3, <2>5 DEF Encode
    <2>6. CASE \E g : snap = [whole EXCEPT !.global_remaining = g]
        BY <2>3, <2>6 DEF Encode
    <2>7. CASE \E l : snap = [whole EXCEPT !.local_remaining = l]
        BY <2>3, <2>7 DEF Encode
    <2>8. CASE \E f : snap = [whole EXCEPT !.phase = f]
        BY <2>3, <2>8 DEF Encode
    <2>9. CASE \E o : snap = [whole EXCEPT !.outcome = o]
        BY <2>3, <2>9 DEF Encode
    <2>10. CASE \E b : snap = [whole EXCEPT !.buffer = b]
        BY <2>3, <2>10 DEF Encode
    <2>11. CASE \E b : snap = [whole EXCEPT !.committed_response.region_ids = b]
        BY <2>3, <2>11 DEF Encode
    <2>12. CASE \E n \in 0 .. Len(events) :
                   snap = [whole EXCEPT !.events = SubSeq(events, 1, n)]
        <3>1. PICK n \in 0 .. Len(events) :
                  snap = [whole EXCEPT !.events = SubSeq(events, 1, n)]
            BY <2>12
        <3>2. CASE n = Len(events)
            <4>1. SubSeq(events, 1, n) = events
                BY <2>1, <3>2
            <4>2. snap = whole
                BY <2>2, <3>1, <4>1 DEF Encode
            <4> QED BY <4>2
        <3>3. CASE n # Len(events)
            <4>1. SubSeq(events, 1, n) \in Seq(Event) /\ Len(SubSeq(events, 1, n)) = n
                BY <2>1
            <4> QED BY <2>4, <3>1, <3>3, <4>1
        <3> QED BY <3>2, <3>3
    <2>13. CASE \E n \in 1 .. Len(events) :
                   snap = [whole EXCEPT !.events = SubSeq(events, 1, n)
                                                     \o SubSeq(events, n, Len(events))]
        <3>1. PICK n \in 1 .. Len(events) :
                  snap = [whole EXCEPT !.events = SubSeq(events, 1, n)
                                                    \o SubSeq(events, n, Len(events))]
            BY <2>13
        <3>2. /\ SubSeq(events, 1, n) \in Seq(Event) /\ Len(SubSeq(events, 1, n)) = n
              /\ SubSeq(events, n, Len(events)) \in Seq(Event)
              /\ Len(SubSeq(events, n, Len(events))) = Len(events) - n + 1
            BY <2>1
        <3> DEFINE other == SubSeq(events, 1, n) \o SubSeq(events, n, Len(events))
        <3>3. other \in Seq(Event) /\ Len(other) = n + (Len(events) - n + 1)
            BY <3>2
        <3>4. Len(other) # Len(events)
            BY <2>1, <3>3
        <3> HIDE DEF other
        <3>5. snap = [whole EXCEPT !.events = other]
            BY <3>1 DEF other
        <3> QED BY <2>4, <3>3, <3>4, <3>5
    <2>14. \/ \E n : snap = [whole EXCEPT !.current_node_id = n]
           \/ \E g : snap = [whole EXCEPT !.global_remaining = g]
           \/ \E l : snap = [whole EXCEPT !.local_remaining = l]
           \/ \E f : snap = [whole EXCEPT !.phase = f]
           \/ \E o : snap = [whole EXCEPT !.outcome = o]
           \/ \E b : snap = [whole EXCEPT !.buffer = b]
           \/ \E b : snap = [whole EXCEPT !.committed_response.region_ids = b]
           \/ \E n \in 0 .. Len(events) :
                  snap = [whole EXCEPT !.events = SubSeq(events, 1, n)]
           \/ \E n \in 1 .. Len(events) :
                  snap = [whole EXCEPT !.events = SubSeq(events, 1, n)
                                                    \o SubSeq(events, n, Len(events))]
        <3> HIDE DEF whole
        <3> QED BY <2>2 DEF Damaged, whole
    <2> QED BY <2>5, <2>6, <2>7, <2>8, <2>9, <2>10, <2>11, <2>12, <2>13, <2>14
<1> QED BY <1>1, SnapshotInvariant, PTL

(* A region above all of an ascending buffer is inserted at its end.       *)
LEMMA InsortLast ==
    ASSUME NEW buffer \in Seq(Regions), NEW region \in Regions, Ascending(buffer),
           \A i \in 1 .. Len(buffer) : buffer[i] < region
    PROVE  Insort(buffer, region) = Append(buffer, region)
<1> DEFINE at == BisectLeft(buffer, region)
           new == Insort(buffer, region)
<1>1. \A i \in 1 .. Len(buffer) : buffer[i] \in Nat /\ ~(buffer[i] >= region)
    <2> SUFFICES ASSUME NEW i \in 1 .. Len(buffer)
                 PROVE  buffer[i] \in Nat /\ ~(buffer[i] >= region)
        OBVIOUS
    <2>1. buffer[i] \in Nat /\ region \in Nat /\ buffer[i] < region
        BY RecordIds, ElementOfSeq
    <2> QED BY <2>1
<1>2. ~Occurs(region, buffer)
    BY <1>1, RecordIds DEF Occurs
<1>3. /\ at \in 0 .. Len(buffer)
      /\ \A i \in at + 1 .. Len(buffer) : buffer[i] >= region
    BY BisectLeftFinds
<1>4. at = Len(buffer)
    <2> SUFFICES ASSUME at # Len(buffer) PROVE FALSE
        OBVIOUS
    <2>1. at + 1 \in at + 1 .. Len(buffer) /\ at + 1 \in 1 .. Len(buffer)
        BY <1>3
    <2> QED BY <1>1, <1>3, <2>1
<1>5. /\ new \in Seq(Regions) /\ Len(new) = Len(buffer) + 1
      /\ \A i \in 1 .. at : new[i] = buffer[i]
      /\ new[at + 1] = region
    BY <1>2, InsortPlaces
<1> HIDE DEF at, new
<1>6. /\ Append(buffer, region) \in Seq(Regions) /\ Len(Append(buffer, region)) = Len(buffer) + 1
      /\ \A i \in 1 .. Len(buffer) : Append(buffer, region)[i] = buffer[i]
      /\ Append(buffer, region)[Len(buffer) + 1] = region
    OBVIOUS
<1>7. \A i \in 1 .. Len(new) : new[i] = Append(buffer, region)[i]
    BY <1>4, <1>5, <1>6
<1>8. new = Append(buffer, region)
    BY <1>5, <1>6, <1>7, SeqEqual
<1> QED BY <1>8 DEF new

-----------------------------------------------------------------------------
(* Replaying the calls that spell an answer.                               *)
SpelledCalls == [tag : {"select", "commit"}, region : Regions \cup {0}]

LEMMA SpelledIs ==
    ASSUME NEW ids \in Seq(Regions)
    PROVE  /\ Spelled(ids) \in Seq(SpelledCalls) /\ Len(Spelled(ids)) = Len(ids) + 1
           /\ \A i \in 1 .. Len(ids) : Spelled(ids)[i] = [tag |-> "select", region |-> ids[i]]
           /\ Spelled(ids)[Len(ids) + 1] = [tag |-> "commit", region |-> 0]
<1>1. Len(ids) \in Nat /\ \A i \in 1 .. Len(ids) : ids[i] \in Regions
    OBVIOUS
<1>2. \A i \in 1 .. Len(ids) + 1 : Spelled(ids)[i] \in SpelledCalls
    BY <1>1 DEF Spelled, SpelledCalls
<1>3. Spelled(ids) \in [1 .. Len(ids) + 1 -> SpelledCalls]
    BY <1>2 DEF Spelled
<1>4. Spelled(ids) \in Seq(SpelledCalls) /\ Len(Spelled(ids)) = Len(ids) + 1
    BY <1>1, <1>3
<1> QED BY <1>1, <1>4 DEF Spelled

LEMMA SpelledNormal ==
    ASSUME NEW call \in SpelledCalls, call.tag = "commit" => call.region = 0
    PROVE  /\ NormalizeAction(AsRaw(call)) = [tag |-> call.tag, region |-> call.region]
           /\ NormalizeAction(AsRaw(call)) \in Actions
BY DEF SpelledCalls, NormalizeAction, AsRaw, CallableActions, Actions

(* Where a replay of calls may stand.                                      *)
Stations(p) == [state : {s \in RunType : Sound(p, s)}, results : Seq(Results)]

CallStep(p, t, call) ==
    [state   |-> Transition(p, t.state, AsRaw(call)).state,
     results |-> Append(t.results, Transition(p, t.state, AsRaw(call)).result)]

LEMMA CallStepTyped ==
    ASSUME NEW p, IsProjection(p), Accepted(p), NEW t \in Stations(p), NEW call \in SpelledCalls
    PROVE  CallStep(p, t, call) \in Stations(p)
<1> DEFINE s == t.state
           answer == Transition(p, s, AsRaw(call))
<1>1. s \in RunType /\ Sound(p, s) /\ t.results \in Seq(Results) /\ s.phase \in Phases
    BY DEF Stations, RunType
<1>2. Sound(p, answer.state) /\ answer.result \in Results
    <2>1. NormalizeAction(AsRaw(call)) \in Actions
        BY DEF SpelledCalls, NormalizeAction, AsRaw, CallableActions, Actions, InvalidAction
    <2>2. CASE s.phase = "active"
        BY <1>1, <2>1, <2>2, TransitionConsumes, ConsumedSound
    <2>3. CASE s.phase # "active"
        BY <1>1, <2>3 DEF Transition, Phases, Results
    <2> QED BY <2>2, <2>3
<1> HIDE DEF answer
<1>3. answer.state \in RunType /\ Append(t.results, answer.result) \in Seq(Results)
    BY <1>1, <1>2 DEF Sound
<1> QED BY <1>2, <1>3 DEF CallStep, Stations, answer

Calls(after, p, start, calls) ==
    /\ after[0] = [state |-> start, results |-> <<>>]
    /\ \A k \in 1 .. Len(calls) : after[k] = CallStep(p, after[k - 1], calls[k])

(* The fold goes through the calls one by one.                             *)
LEMMA ReplayedUnfolds ==
    ASSUME NEW p, IsProjection(p), Accepted(p), NEW start, Sound(p, start),
           NEW calls \in Seq(SpelledCalls)
    PROVE  \E after : Calls(after, p, start, calls)
                      /\ Replayed(p, start, calls) = after[Len(calls)]
<1> DEFINE step == [x \in Stations(p) \X SpelledCalls |-> CallStep(p, x[1], x[2])]
           n == Len(calls)
           base == [state |-> start, results |-> <<>>]
           Body(g) == [s \in SUBSET DOMAIN calls |->
                          IF s = {} THEN base
                          ELSE CallStep(p, g[s \ {Max(s)}], calls[Max(s)])]
           value == CHOOSE g : g = Body(g)
<1>1. n \in Nat /\ DOMAIN calls = 1 .. n
    OBVIOUS
<1>2. base \in Stations(p)
    BY DEF Stations, Sound
<1>3. step \in [Stations(p) \X SpelledCalls -> Stations(p)]
    BY CallStepTyped
<1> HIDE DEF base
<1>4. PICK g \in [SUBSET (1 .. n) -> Stations(p)] : IsFold(g, step, base, calls, n)
    <2> HIDE DEF step
    <2> QED BY <1>2, <1>3, FoldExists DEF Foldable
<1>5. g = Body(g)
    <2>1. ASSUME NEW s \in SUBSET (1 .. n), s # {}
          PROVE  g[s] = CallStep(p, g[s \ {Max(s)}], calls[Max(s)])
        <3>1. Max(s) \in s
            BY <1>1, <2>1, LargestIn
        <3>2. Max(s) \in 1 .. n /\ s \ {Max(s)} \in SUBSET (1 .. n)
            BY <3>1
        <3>3. g[s \ {Max(s)}] \in Stations(p)
            BY <1>4, <3>2
        <3>4. calls[Max(s)] \in SpelledCalls
            BY <1>1, <3>2
        <3>5. g[s] = step[<<g[s \ {Max(s)}], calls[Max(s)]>>]
            BY <1>4, <2>1 DEF IsFold
        <3> QED BY <3>3, <3>4, <3>5
    <2>2. g[{}] = base
        BY <1>4 DEF IsFold
    <2> HIDE DEF step
    <2> QED BY <1>1, <1>4, <2>1, <2>2
<1>6. value = Body(value)
    BY <1>5
<1>7. Replayed(p, start, calls) = value[1 .. n]
    <2> HIDE DEF step
    <2> QED BY <1>1 DEF Replayed, FoldLeft, MapThenFoldSet, CallStep, base
<1> HIDE DEF value, step
<1> DEFINE after == [k \in 0 .. n |-> value[1 .. k]]
<1>8. after[0] = base
    BY <1>1, <1>6
<1>9. ASSUME NEW k \in 1 .. n
      PROVE  after[k] = CallStep(p, after[k - 1], calls[k])
    <2>1. Max(1 .. k) = k /\ (1 .. k) \ {k} = 1 .. k - 1
        BY <1>1, MaxOf
    <2>2. 1 .. k \in SUBSET DOMAIN calls /\ 1 .. k # {}
        BY <1>1
    <2>3. value[1 .. k] = CallStep(p, value[1 .. k - 1], calls[k])
        BY <1>6, <2>1, <2>2
    <2> QED BY <1>1, <2>3
<1>10. after[n] = value[1 .. n]
    BY <1>1
<1> HIDE DEF after
<1>11. Calls(after, p, start, calls)
    BY <1>8, <1>9 DEF Calls, base
<1> QED BY <1>7, <1>10, <1>11

(* A buffer that holds a packed answer's beginning takes its next region.  *)
LEMMA SelectsNext ==
    ASSUME NEW p, IsProjection(p), Accepted(p), NEW n \in Nodes(p),
           NEW c \in p.lesson[n].cases, NEW k \in Nat, k + 1 <= Len(c.region_ids)
    PROVE  LET lesson == p.lesson[n]
               ids    == c.region_ids
           IN  /\ SelectResult(lesson, SubSeq(ids, 1, k), ids[k + 1]) = "selected"
               /\ Selected(lesson, SubSeq(ids, 1, k), ids[k + 1]) = SubSeq(ids, 1, k + 1)
<1> DEFINE lesson == p.lesson[n]
           ids    == c.region_ids
           buffer == SubSeq(ids, 1, k)
           region == ids[k + 1]
<1>1. /\ lesson \in LessonNode /\ c \in Case /\ ids \in Seq(Regions)
      /\ ResponseSchema(lesson) /\ CanonicalCases(lesson)
    BY AcceptedLesson DEF LessonNode, Case, Accepted, Stage7a
<1>2. /\ Len(ids) \in Nat /\ k + 1 \in 1 .. Len(ids) /\ region \in Regions
      /\ buffer \in Seq(Regions) /\ Len(buffer) = k
      /\ \A i \in 1 .. k : buffer[i] = ids[i] /\ i \in 1 .. Len(ids) /\ i < k + 1
    BY <1>1
<1>3. /\ Len(ids) <= lesson.max_selections /\ lesson.max_selections \in Nat
      /\ lesson.response_shape = "single" => Len(ids) <= 1
      /\ \A i \in 1 .. Len(ids) : ids[i] \in lesson.selectable
      /\ lesson.response_shape = "sequence" /\ ~lesson.allow_repeated
            => \A i, j \in 1 .. Len(ids) : i # j => ids[i] # ids[j]
      /\ lesson.response_shape \in Shapes
    BY <1>1, <1>2 DEF ResponseSchema, LessonNode
<1>4. lesson.response_shape = "set" => \A i, j \in 1 .. Len(ids) : i < j => ids[i] < ids[j]
    BY <1>1 DEF CanonicalCases, Ascending
<1> HIDE DEF ids, buffer, region, lesson
<1>5. ASSUME lesson.response_shape # "sequence"
      PROVE  Ascending(buffer) /\ \A i \in 1 .. k : buffer[i] < region
    <2>1. CASE lesson.response_shape = "set"
        <3>1. \A i, j \in 1 .. k : i < j => buffer[i] < buffer[j]
            BY <1>2, <1>4, <2>1
        <3>2. \A i \in 1 .. k : ids[i] < ids[k + 1]
            BY <1>2, <1>4, <2>1
        <3> QED BY <1>2, <3>1, <3>2 DEF Ascending, region
    <2>2. CASE lesson.response_shape = "single"
        <3>1. k = 0
            BY <1>2, <1>3, <2>2
        <3> QED BY <1>2, <3>1 DEF Ascending
    <2> QED BY <1>3, <1>5, <2>1, <2>2 DEF Shapes
<1>6. Occurs(region, buffer) => MayRepeat(lesson)
    <2> SUFFICES ASSUME NEW i \in 1 .. k, buffer[i] = region
                 PROVE  MayRepeat(lesson)
        BY <1>2 DEF Occurs
    <2>1. ids[i] = ids[k + 1] /\ i # k + 1 /\ i \in 1 .. Len(ids)
        BY <1>2 DEF region
    <2>2. CASE lesson.response_shape = "sequence"
        BY <1>2, <1>3, <2>1, <2>2 DEF MayRepeat
    <2>3. CASE lesson.response_shape # "sequence"
        <3>1. buffer[i] < region /\ region \in Nat
            BY <1>2, <1>5, <2>3, RecordIds
        <3> QED BY <3>1
    <2> QED BY <2>2, <2>3
<1>7. SelectResult(lesson, buffer, region) = "selected"
    BY <1>2, <1>3, <1>6 DEF SelectResult, region
<1>8. Append(buffer, region) = SubSeq(ids, 1, k + 1)
    <2>1. /\ Append(buffer, region) \in Seq(Regions) /\ Len(Append(buffer, region)) = k + 1
          /\ \A i \in 1 .. k : Append(buffer, region)[i] = buffer[i]
          /\ Append(buffer, region)[k + 1] = region
        BY <1>2
    <2>2. /\ SubSeq(ids, 1, k + 1) \in Seq(Regions) /\ Len(SubSeq(ids, 1, k + 1)) = k + 1
          /\ \A i \in 1 .. k + 1 : SubSeq(ids, 1, k + 1)[i] = ids[i]
        BY <1>1, <1>2 DEF ids
    <2>3. \A i \in 1 .. k + 1 : Append(buffer, region)[i] = SubSeq(ids, 1, k + 1)[i]
        BY <1>2, <2>1, <2>2 DEF region
    <2> QED BY <2>1, <2>2, <2>3, SeqEqual
<1>9. Selected(lesson, buffer, region) = SubSeq(ids, 1, k + 1)
    <2>1. CASE lesson.response_shape = "sequence"
        BY <1>8, <2>1 DEF Selected
    <2>2. CASE lesson.response_shape # "sequence"
        BY <1>2, <1>5, <1>8, <2>2, InsortLast DEF Selected
    <2> QED BY <2>1, <2>2
<1> QED BY <1>7, <1>9 DEF lesson, ids, buffer, region

(* A select that is taken and does not use the last event goes on.         *)
LEMMA SelectGoesOn ==
    ASSUME NEW p, IsProjection(p), Accepted(p), NEW s, Sound(p, s), s.phase = "active",
           s.local_remaining > 1, NEW region \in Regions,
           SelectResult(Lesson(p, s), s.buffer, region) = "selected"
    PROVE  LET t == Transition(p, s, AsRaw([tag |-> "select", region |-> region])).state
           IN  /\ Sound(p, t) /\ t.phase = "active"
               /\ t.current_node_id = s.current_node_id
               /\ t.local_remaining = s.local_remaining - 1
               /\ t.buffer = Selected(Lesson(p, s), s.buffer, region)
<1> DEFINE call == [tag |-> "select", region |-> region]
           kept == Selected(Lesson(p, s), s.buffer, region)
           t == Work(s, kept)
<1>1. /\ NormalizeAction(AsRaw(call)) = call /\ call \in Actions
    BY DEF NormalizeAction, AsRaw, CallableActions, Actions
<1>2. Transition(p, s, AsRaw(call)) = Consumed(p, s, call)
    BY <1>1, TransitionConsumes
<1> HIDE DEF kept
<1>3. Consumed(p, s, call).state = t
    BY DEF Consumed, kept
<1>4. /\ s \in RunType /\ s.local_remaining \in Nat /\ s.global_remaining \in Nat
      /\ s.local_remaining <= s.global_remaining
    BY DEF Sound, RunType, Solvent
<1>5. t.buffer = kept /\ t.phase = "active"
    <2>0. /\ Spend(s).global_remaining = s.global_remaining - 1
          /\ Spend(s).local_remaining = s.local_remaining - 1
        BY <1>4 DEF Spend, RunType
    <2>1. t = [Spend(s) EXCEPT !.buffer = kept, !.phase = "active"]
        <3>1. ~(Spend(s).global_remaining = 0 \/ Spend(s).local_remaining = 0)
            BY <1>4, <2>0
        <3> QED BY <3>1 DEF Work
    <2> QED BY <1>4, <2>1 DEF Spend, RunType
<1>6. Sound(p, t) /\ t.current_node_id = s.current_node_id
      /\ t.local_remaining = s.local_remaining - 1
    BY <1>1, <1>3, ConsumedSound
<1> HIDE DEF call, t
<1> QED BY <1>2, <1>3, <1>5, <1>6 DEF call, kept

(* The commit of a packed answer finds its own case.                       *)
LEMMA CaseIsFound ==
    ASSUME NEW p, IsProjection(p), Accepted(p), NEW n \in Nodes(p), NEW c \in p.lesson[n].cases
    PROVE  LET v == Verdict(p.lesson[n], Response(p.lesson[n], c.region_ids))
           IN  /\ v.feedback_ref = c.feedback_ref /\ v.next_node_ref = c.next_node_ref
               /\ v.outcome = IF c.case_class = "accepted" THEN "accepted" ELSE "rejected"
<1>1. CanonicalCases(p.lesson[n])
    BY DEF Accepted
<1>2. MatchingCases(p.lesson[n], Response(p.lesson[n], c.region_ids)) = {c}
    BY <1>1 DEF MatchingCases, Response, CanonicalCases
<1> QED BY <1>2 DEF Verdict

LEMMA CommitShows ==
    ASSUME NEW p, IsProjection(p), Accepted(p), NEW s, Sound(p, s), s.phase = "active"
    PROVE  LET t == Transition(p, s, AsRaw([tag |-> "commit", region |-> 0])).state
               v == Verdict(Lesson(p, s), Response(Lesson(p, s), s.buffer))
           IN  /\ t.phase = "committed" /\ t.outcome = v.outcome
               /\ t.feedback_ref = v.feedback_ref /\ t.next_node_ref = v.next_node_ref
<1> DEFINE call == [tag |-> "commit", region |-> 0]
           response == Response(Lesson(p, s), s.buffer)
           v == Verdict(Lesson(p, s), response)
           t == Commit(p, s)
<1>1. NormalizeAction(AsRaw(call)) = call
    BY DEF NormalizeAction, AsRaw, CallableActions
<1>2. Transition(p, s, AsRaw(call)).state = t
    BY <1>1, TransitionConsumes DEF Consumed
<1>3. s \in RunType
    BY DEF Sound
<1>4. t = [Spend(s) EXCEPT !.phase = "committed", !.outcome = v.outcome, !.buffer = <<>>,
                           !.committed_response = response,
                           !.feedback_ref = v.feedback_ref,
                           !.next_node_ref = v.next_node_ref]
    BY DEF Commit
<1> HIDE DEF response, v, t, call
<1>5. /\ t.phase = "committed" /\ t.outcome = v.outcome
      /\ t.feedback_ref = v.feedback_ref /\ t.next_node_ref = v.next_node_ref
    BY <1>3, <1>4 DEF Spend, RunType
<1> QED BY <1>2, <1>5 DEF call, v, response

(* Every packed answer of a lesson can be spelled out within its item      *)
(* budget, and shows its own verdict.                                      *)
LEMMA CaseAnswerable ==
    ASSUME NEW p, IsProjection(p), Accepted(p), NEW s, Sound(p, s), s.phase = "active",
           s.buffer = <<>>, s.local_remaining = Lesson(p, s).item_event_budget,
           NEW c \in Lesson(p, s).cases
    PROVE  LET end == Replayed(p, s, Spelled(c.region_ids)).state
           IN  /\ end.phase = "committed"
               /\ end.feedback_ref = c.feedback_ref
               /\ end.next_node_ref = c.next_node_ref
               /\ end.outcome = IF c.case_class = "accepted" THEN "accepted" ELSE "rejected"
<1> DEFINE ids == c.region_ids
           calls == Spelled(ids)
           item == Lesson(p, s).item_event_budget
<1>1. /\ s.current_node_id \in Nodes(p) /\ Lesson(p, s) = p.lesson[s.current_node_id]
      /\ ids \in Seq(Regions) /\ Len(ids) \in Nat
      /\ Len(ids) + 1 <= item /\ item \in Nat
    <2>1. /\ s.current_node_id \in Nodes(p) /\ Lesson(p, s) = p.lesson[s.current_node_id]
          /\ Lesson(p, s) \in LessonNode /\ ResponseSchema(Lesson(p, s))
          /\ item >= Lesson(p, s).max_selections + 1
        BY AcceptedLesson DEF Sound, Placed, Lesson, Accepted, Stage7a, Stage8, LocalBounds
    <2>2. c \in Case /\ ids \in Seq(Regions) /\ Len(ids) \in Nat
        BY <2>1 DEF LessonNode, Case
    <2>3. /\ Len(ids) <= Lesson(p, s).max_selections /\ Lesson(p, s).max_selections \in Nat
          /\ item \in Nat
        BY <2>1 DEF ResponseSchema, LessonNode
    <2> QED BY <2>1, <2>2, <2>3
<1>2. /\ calls \in Seq(SpelledCalls) /\ Len(calls) = Len(ids) + 1
      /\ \A i \in 1 .. Len(ids) : calls[i] = [tag |-> "select", region |-> ids[i]]
      /\ calls[Len(ids) + 1] = [tag |-> "commit", region |-> 0]
    BY <1>1, SpelledIs
<1> HIDE DEF ids, calls, item
<1>3. PICK after : Calls(after, p, s, calls) /\ Replayed(p, s, calls) = after[Len(calls)]
    BY <1>2, ReplayedUnfolds
<1> DEFINE Spelling(k) ==
               LET t == after[k].state
               IN  /\ Sound(p, t) /\ t.phase = "active"
                   /\ t.current_node_id = s.current_node_id
                   /\ t.local_remaining = item - k
                   /\ t.buffer = SubSeq(ids, 1, k)
           Good == {k \in Nat : k <= Len(ids) => Spelling(k)}
<1>4. 0 \in Good
    <2>1. after[0].state = s /\ SubSeq(ids, 1, 0) = <<>>
        BY <1>1, <1>3 DEF Calls
    <2>2. item - 0 = item /\ s.local_remaining = item
        BY <1>1 DEF item
    <2> HIDE DEF item
    <2>3. Spelling(0)
        BY <2>1, <2>2
    <2> QED BY <2>3
<1>5. ASSUME NEW k \in Nat, Spelling(k), k + 1 <= Len(ids)
      PROVE  Spelling(k + 1)
    <2> DEFINE t == after[k].state
    <2>0. k + 1 \in 1 .. Len(ids) /\ k + 1 \in 1 .. Len(calls) /\ (k + 1) - 1 = k
        BY <1>1, <1>2, <1>5
    <2>1. /\ k + 1 \in 1 .. Len(calls) /\ (k + 1) - 1 = k
          /\ calls[k + 1] = [tag |-> "select", region |-> ids[k + 1]]
          /\ ids[k + 1] \in Regions
        <3>1. ids[k + 1] \in Regions
            BY <1>1, <2>0
        <3> QED BY <1>2, <2>0, <3>1
    <2>2. after[k + 1].state =
            Transition(p, t, AsRaw([tag |-> "select", region |-> ids[k + 1]])).state
        <3>1. after[k + 1] = CallStep(p, after[k], calls[k + 1])
            BY <1>3, <2>1 DEF Calls
        <3> QED BY <2>1, <3>1 DEF CallStep
    <2>3. Lesson(p, t) = p.lesson[s.current_node_id]
        BY <1>5 DEF Lesson
    <2>4. /\ SelectResult(Lesson(p, t), t.buffer, ids[k + 1]) = "selected"
          /\ Selected(Lesson(p, t), t.buffer, ids[k + 1]) = SubSeq(ids, 1, k + 1)
        BY <1>1, <1>5, <2>3, SelectsNext DEF ids
    <2>5. t.local_remaining > 1 /\ (item - k) - 1 = item - (k + 1)
        BY <1>1, <1>5
    <2> HIDE DEF t
    <2>6. Sound(p, t) /\ t.phase = "active" /\ t.current_node_id = s.current_node_id
          /\ t.local_remaining = item - k
        BY <1>5 DEF t
    <2> QED BY <2>1, <2>2, <2>4, <2>5, <2>6, SelectGoesOn
<1>6. \A k \in Nat : k \in Good => k + 1 \in Good
    BY <1>1, <1>5
<1> HIDE DEF Good
<1>7. Nat \subseteq Good
    BY <1>4, <1>6, EveryNumber
<1>8. Spelling(Len(ids)) /\ SubSeq(ids, 1, Len(ids)) = ids
    BY <1>1, <1>7 DEF Good
<1> DEFINE last == after[Len(ids)].state
<1>9. Replayed(p, s, calls).state =
        Transition(p, last, AsRaw([tag |-> "commit", region |-> 0])).state
    <2>1. Len(ids) + 1 \in 1 .. Len(calls) /\ (Len(ids) + 1) - 1 = Len(ids)
        BY <1>1, <1>2
    <2>2. after[Len(ids) + 1] = CallStep(p, after[Len(ids)], calls[Len(ids) + 1])
        BY <1>3, <2>1 DEF Calls
    <2> QED BY <1>2, <1>3, <2>2 DEF CallStep
<1>10. Sound(p, last) /\ last.phase = "active" /\ last.buffer = ids
       /\ Lesson(p, last) = Lesson(p, s)
    BY <1>8 DEF Lesson
<1> HIDE DEF last
<1>11. LET v == Verdict(Lesson(p, s), Response(Lesson(p, s), ids))
       IN  /\ v.feedback_ref = c.feedback_ref /\ v.next_node_ref = c.next_node_ref
           /\ v.outcome = IF c.case_class = "accepted" THEN "accepted" ELSE "rejected"
    BY <1>1, CaseIsFound DEF ids
<1> QED BY <1>9, <1>10, <1>11, CommitShows DEF calls, ids

LEMMA WritableAnswerable ==
    ASSUME IsProjection(projection), Accepted(projection), Writable(projection, run, events)
    PROVE  EveryCaseAnswerable
<1> SUFFICES ASSUME JustArrived PROVE EveryCaseAnswerable
    BY DEF EveryCaseAnswerable
<1>1. /\ Sound(projection, run) /\ run.phase = "active" /\ run.buffer = <<>>
      /\ run.local_remaining = Lesson(projection, run).item_event_budget
    BY DEF Writable, Legal, Recorded, JustArrived
<1> QED BY <1>1, CaseAnswerable DEF EveryCaseAnswerable

(* Whatever lesson is opened with its item budget: every answer it packs   *)
(* can be given and gets its own verdict.                                  *)
THEOREM CasesAnswerable == Spec => []EveryCaseAnswerable
<1>1. IInv /\ Writable(projection, run, events) => EveryCaseAnswerable
    BY WritableAnswerable DEF IInv
<1> QED BY <1>1, Invariant, InvariantWritable, PTL

(* A run that was stopped and resumed any number of times keeps what an    *)
(* uninterrupted one keeps: budgets, buffer, feedback, answerable cases    *)
(* and, on a success path, funds.                                          *)
THEOREM ResumedRunsKeep ==
    SnapshotSpec => /\ [](BudgetsCoherent /\ BufferLegal)
                    /\ [](FeedbackAgreesWithVerdict /\ EveryCaseAnswerable)
                    /\ SuccessPathFunded
<1>1. SnapshotIInv => BudgetsCoherent /\ BufferLegal
    BY SnapshotIsIInv, SoundBudgets, AnswersLegal DEF SnapshotIInv, Writable, Legal
<1>2. SnapshotIInv => FeedbackAgreesWithVerdict /\ EveryCaseAnswerable
    BY SnapshotIsIInv, AnswersAgree, WritableAnswerable DEF SnapshotIInv, Writable, Legal
<1>3. SnapshotIInv /\ [SnapshotNext]_snapshotVars =>
        [AdvanceCommitted /\ on_success_path' =>
            /\ run'.phase = "active"
            /\ run'.local_remaining = Lesson(projection, run').item_event_budget]_vars
    BY SnapshotIsIInv, SuccessFunds
<1> QED BY <1>1, <1>2, <1>3, SnapshotInvariant, PTL DEF SnapshotSpec, SuccessPathFunded
=============================================================================
