-------------------------- MODULE SectionReceiver --------------------------
(***************************************************************************)
(* The observation decoder (m2_decoder.py): from the protected units of an *)
(* observation to sections, content streams and an artifact state.  A      *)
(* "hier" profile (version 7) carries every fragment in one replica group; *)
(* a "copies" profile carries whole semantic copies, one unit a fragment.  *)
(*                                                                         *)
(* The channel may lose, damage, repeat, misplace or replace any unit, by  *)
(* units of another carrier too, and delivers them in any order.  What it  *)
(* delivers for a section is chosen when the decoder first looks at it:    *)
(* no step looks at the units of a section twice.  Where the decoder takes *)
(* the blocks of a section from any unit, the units at other places that   *)
(* carry one are chosen with it.  history variables keep what those units  *)
(* proved, for the properties.                                             *)
(***************************************************************************)
EXTENDS ReplicaGroup, SectionRules

CONSTANTS
    Observations,   \* Observations[factor]: the lanes a group may be seen as
    Deliveries,     \* Deliveries[unit]: what that unit of a copies profile may
                    \* bring to the inventory, for the unit of each place of the
                    \* inventory and for units of any other place
    Misplaced       \* Misplaced[s]: the sets of [block, verified] records that
                    \* units of other places may carry of section s

\* Of any section: the blocks of all carriers.
SectionBlocks(s) ==
    {Block(source, s, c, f) : source \in Sources, c \in Copies(s), f \in Fragments(s)}

InventoryPlaces == Copies(Inventory) \X Fragments(Inventory)

\* A unit of a place carries the block of that place, of this carrier or of
\* another one, or the block of some other place.
ASSUME RolesAssumption ==
    /\ Sources \subseteq Blocks /\ "sent" \in Sources
    /\ \A s \in Sections : Entry(s).factor \in DOMAIN Observations
    /\ 1 \in DOMAIN Observations
    /\ InventoryPlaces \subseteq DOMAIN Deliveries /\ IsFiniteSet(DOMAIN Deliveries)
    /\ \A unit \in DOMAIN Deliveries : \A d \in Deliveries[unit] :
        /\ d \in [state : {"missing", "corrupt", "recovered", "verified"},
                  carried : SUBSET SectionBlocks(Inventory)]
        /\ d.carried # {} => /\ d.state \in {"recovered", "verified"}
                            /\ \E b \in d.carried : d.carried = {b}
    /\ \A s \in Sections : \A blocks \in Misplaced[s] :
        \A m \in blocks : m.block \in SectionBlocks(s)

VARIABLES
    profile,    \* "hier" or "copies"
    stage,      \* the step of the decoder that comes next
    arrived,    \* copies: what the units brought to the inventory, by unit
    copies,     \* copies: the inventory's semantic copies, as assembled
    inventory,  \* the source of the recovered inventory; {} when there is none
    sections,   \* the result of each section looked at so far
    rivals,     \* history: what the units of a released or disputed section
                \* proved
    intact,     \* history: the sections that were read as they were sent
    streams,    \* the two content streams: released or not
    artifact,   \* the artifact state of this observation
    decision    \* what decode returns over all hypotheses

vars == <<profile, stage, arrived, copies, inventory, sections, rivals, intact,
          streams, artifact, decision>>

Sent == "sent"

Outcomes == [factor \in DOMAIN Observations |->
                {Aggregate(lanes) : lanes \in Observations[factor]}]

Factor(s) == IF profile = "hier" THEN Entry(s).factor ELSE 1

\* The places of a section and what may be read there.
CopyIds(s) == IF profile = "hier" THEN {0} ELSE Copies(s)
Places(s) == CopyIds(s) \X Fragments(s)
Readings(s) == [Places(s) -> Outcomes[Factor(s)]]

Unread == [state |-> "unread", envelope |-> {}]

-----------------------------------------------------------------------------
(* What a reading proves.                                                  *)

\* The source a place is accepted from: a released block whose identity is
\* the one the inventory expects there.
Accepted(outcome, s, expected) ==
    {source \in outcome.chosen \cap Sources :
        Layout[source][s].length = Layout[expected][s].length}

PlaceState(outcome, s, expected) ==
    IF Released(outcome.state) /\ Accepted(outcome, s, expected) = {}
    THEN "corrupt" ELSE outcome.state

Proved(reading) ==
    UNION {{e.block : e \in reading[p].evidence} : p \in DOMAIN reading}

\* History: every place of one copy reads as sent, and no whole copy reads
\* as anything else.
ReadAsSent(reading, s) ==
    LET reads(c, b) == \A f \in Fragments(s) : reading[<<c, f>>].chosen = {b}
    IN /\ \E c \in CopyIds(s) : reads(c, Sent)
       /\ \A c \in CopyIds(s), b \in Sources : reads(c, b) => b = Sent

-----------------------------------------------------------------------------
(* A section under an inventory.                                           *)

\* _recover_sections_v7: one group a fragment.
HierResult(reading, s, expected) ==
    LET accepted(f) == Accepted(reading[<<0, f>>], s, expected)
        states == {PlaceState(reading[<<0, f>>], s, expected) : f \in Fragments(s)}
        joined == UNION {accepted(f) : f \in Fragments(s)}
    IN IF \A f \in Fragments(s) : accepted(f) # {}
       THEN IF Cardinality(joined) = 1
                 /\ \A source \in joined : AgreesWithInventory(source, s, expected)
            THEN Result(IF states = {"verified"} THEN "verified" ELSE "recovered",
                        joined)
            ELSE Result("corrupt", {})
       ELSE Result(IF states \cap {"corrupt", "ambiguous"} # {} THEN "corrupt"
                   ELSE "incomplete", {})

\* _recover_sections: a copy stops at its first fragment that is missing or
\* does not carry the expected block.
Failed(reading, s, expected, c) ==
    {f \in Fragments(s) : Accepted(reading[<<c, f>>], s, expected) = {}}

FirstFailure(reading, s, expected, c) ==
    LET failed == Failed(reading, s, expected, c)
        first == CHOOSE f \in failed : \A g \in failed : f <= g
    IN IF failed = {} THEN "none"
       ELSE IF reading[<<c, first>>].state = "missing" THEN "missing" ELSE "corrupt"

\* The complete copies that pass the section check, and whether unchanged.
Witnesses(reading, s, expected) ==
    UNION {LET read(f) == reading[<<c, f>>]
               joined == UNION {Accepted(read(f), s, expected) : f \in Fragments(s)}
           IN IF Failed(reading, s, expected, c) = {} /\ Cardinality(joined) = 1
              THEN {[source |-> source,
                     verified |-> \A f \in Fragments(s) : read(f).state = "verified"] :
                        source \in joined}
              ELSE {} : c \in CopyIds(s)}

MutantCopiesResult(reading, s, expected) ==         \* one damaged copy spoils the section
    LET witnesses == Witnesses(reading, s, expected)
    IN IF Cardinality(CopyIds(s)) = Cardinality({c \in CopyIds(s) :
                FirstFailure(reading, s, expected, c) = "none"}) /\ witnesses # {}
       THEN RecoverLogical(witnesses) ELSE Result("corrupt", {})

CopiesResult(reading, s, expected) ==
    LET witnesses == {w \in Witnesses(reading, s, expected) :
                        AgreesWithInventory(w.source, s, expected)}
        whole(c) == Failed(reading, s, expected, c) = {}
    IN IF witnesses # {} THEN RecoverLogical(witnesses)
       ELSE Result(IF \E c \in CopyIds(s) :
                        whole(c) \/ FirstFailure(reading, s, expected, c) = "corrupt"
                   THEN "corrupt" ELSE "incomplete", {})

SectionResult(reading, s, expected) ==
    IF profile = "hier" THEN HierResult(reading, s, expected)
    ELSE CopiesResult(reading, s, expected)

\* History: in a replica group every lane speaks for its place; a semantic
\* copy speaks only when it is complete.
RivalsOf(reading, s, expected) ==
    IF profile = "hier" THEN Proved(reading)
    ELSE {w.source : w \in Witnesses(reading, s, expected)}

-----------------------------------------------------------------------------
(* A section without an inventory: the diagnostics of _without_inventory   *)
(* and _without_inventory_v7, where every unit speaks for itself, whatever *)
(* its place.                                                              *)

PlaceBlocks(reading, s) ==
    UNION {{[block |-> Block(e.block, s, p[1], p[2]), verified |-> e.verified] :
                e \in {x \in reading[p].evidence : x.block \in Sources}} :
                    p \in DOMAIN reading}

RawWitnesses(read, s) ==
    UNION {LET mine == {r \in read : r.block.copy = c}
               unchanged == \A r \in mine : r.verified
           IN {[source |-> source, verified |-> unchanged] :
                    source \in AssembleSet({r.block : r \in mine}, s)} : c \in CopyIds(s)}

RawResult(read, s) ==
    LET witnesses == RawWitnesses(read, s)
    IN IF witnesses = {} THEN Result("absent", {}) ELSE RecoverLogical(witnesses)

\* History: as under an inventory.
RawRivals(read, s) ==
    IF profile = "hier" THEN {r.block.source : r \in read}
    ELSE {w.source : w \in RawWitnesses(read, s)}

\* Section 1 of a hierarchical profile counts by its groups only.
HierInventoryState(reading) ==
    LET opens == reading[<<0, 0>>].chosen \cap Sources # {}
        state(f) == LET read == reading[<<0, f>>]
                    IN IF Released(read.state) /\ read.chosen \cap Sources = {}
                       THEN "corrupt" ELSE read.state
        looked == IF opens THEN Fragments(Inventory) ELSE {0}
    IN IF \/ ~opens /\ reading[<<0, 0>>].state # "missing"
          \/ \E f \in looked : state(f) \in {"corrupt", "ambiguous"}
       THEN "corrupt" ELSE "incomplete"

-----------------------------------------------------------------------------
(* The inventory of a copies profile: every unit that carries a block of   *)
(* section 1 counts, wherever it sits, in the order of arrival.            *)

DeliveredTo(c) == {u \in DOMAIN arrived : \E b \in arrived[u].carried : b.copy = c}

DeliveredBlocks(c) == {b \in UNION {arrived[u].carried : u \in DOMAIN arrived} : b.copy = c}

InventoryWitnesses ==
    UNION {{[source |-> source,
             verified |-> \A u \in DeliveredTo(c) : arrived[u].state = "verified"] :
                source \in Assemble(copies[c], Inventory)} : c \in DOMAIN copies}

\* The units of the inventory's own places, read by place: a unit that
\* carries another block than the one of its place is corrupt.
ArrivedReading ==
    [p \in InventoryPlaces |->
        LET own == {b \in arrived[p].carried : <<b.copy, b.fragment>> = p}
        IN [state |-> IF own = {} /\ arrived[p].state # "missing" THEN "corrupt"
                      ELSE arrived[p].state,
            chosen |-> {b.source : b \in own},
            evidence |-> {[block |-> b.source, verified |-> arrived[p].state = "verified"] :
                            b \in own}]]

\* History: the places of the inventory read as sent; one copy of it was
\* carried as sent, and not a block of that copy from another carrier; and
\* no copy was carried whole and alone by another carrier.
InventoryAsSent ==
    LET carried(c, source) ==
            DeliveredBlocks(c) = {Block(source, Inventory, c, f) : f \in Fragments(Inventory)}
    IN /\ ReadAsSent(ArrivedReading, Inventory)
       /\ \E c \in Copies(Inventory) : carried(c, Sent)
       /\ \A c \in Copies(Inventory), b \in Sources : carried(c, b) => b = Sent

-----------------------------------------------------------------------------
Init ==
    /\ profile \in {"hier", "copies"}
    /\ stage = "inventory"
    /\ arrived = <<>>
    /\ copies = [c \in Copies(Inventory) |-> NoBlocks]
    /\ inventory = {}
    /\ sections = [s \in Sections |-> Unread]
    /\ rivals = [s \in Sections |-> {}]
    /\ intact = {}
    /\ streams = [required |-> FALSE, all |-> FALSE]
    /\ artifact = "none"
    /\ decision = [selected |-> "none", artifact |-> "none"]

\* One unit of a copies profile, decoded and, when its block says section 1,
\* filed under the copy it says, whatever the place of the unit.
Deliver(unit, d) ==
    /\ profile = "copies" /\ stage = "inventory"
    /\ unit \notin DOMAIN arrived
    /\ arrived' = [u \in DOMAIN arrived \cup {unit} |->
                    IF u = unit THEN d ELSE arrived[u]]
    /\ copies' = [c \in DOMAIN copies |->
                    LET mine == {b \in d.carried : b.copy = c}
                    IN IF mine = {} THEN copies[c]
                       ELSE AddBlock(copies[c], CHOOSE b \in mine : TRUE)]
    /\ UNCHANGED <<profile, stage, inventory, sections, rivals, intact, streams,
                   artifact, decision>>

\* The result of a section, and for history what its units proved and
\* whether they came as sent.
Note(s, result, proved, asSent) ==
    /\ sections' = [sections EXCEPT ![s] = result]
    /\ rivals' = [rivals EXCEPT ![s] =
        IF Released(result.state) \/ result.state = "ambiguous" THEN proved ELSE {}]
    /\ intact' = IF asSent THEN intact \cup {s} ELSE intact

\* Under the inventory found.
Look(s, reading, found, asSent) ==
    LET expected == CHOOSE x \in found : TRUE
    IN Note(s, SectionResult(reading, s, expected), RivalsOf(reading, s, expected), asSent)

\* _recover_inventory_v7: the groups of section 1, all released, all of one
\* identity, joined to one envelope that passes its check.
JoinedInventory(reading) ==
    LET joined == UNION {reading[p].chosen : p \in DOMAIN reading}
    IN IF /\ \A p \in DOMAIN reading : Released(reading[p].state)
          /\ Cardinality(joined) = 1
       THEN joined \cap Sources ELSE {}

RecoverInventoryHier ==
    /\ profile = "hier" /\ stage = "inventory"
    /\ \E reading \in Readings(Inventory) :
        LET found == JoinedInventory(reading)
            asSent == ReadAsSent(reading, Inventory)
        IN /\ inventory' = found
           /\ IF found # {} THEN Look(Inventory, reading, found, asSent)
              ELSE Note(Inventory, Result(HierInventoryState(reading), {}), {}, asSent)
    /\ stage' = "sections"
    /\ UNCHANGED <<profile, arrived, copies, streams, artifact, decision>>

\* _recover_inventory: the copies that assemble, without a vote.
RecoverInventoryCopies ==
    LET witnesses == InventoryWitnesses
        logical == IF witnesses = {} THEN Result("absent", {}) ELSE RecoverLogical(witnesses)
        found == logical.envelope
    IN /\ profile = "copies" /\ stage = "inventory"
       /\ DOMAIN arrived = DOMAIN Deliveries
       /\ inventory' = found
       /\ IF found # {} THEN Look(Inventory, ArrivedReading, found, InventoryAsSent)
          ELSE Note(Inventory, logical, {w.source : w \in witnesses}, InventoryAsSent)
       /\ stage' = "sections"
       /\ arrived' = <<>>
       /\ copies' = [c \in DOMAIN copies |-> NoBlocks]
       /\ UNCHANGED <<profile, streams, artifact, decision>>

\* The sections are taken in ascending order.
IsNext(s) ==
    /\ stage = "sections"
    /\ sections[s] = Unread
    /\ \A t \in Sections : t < s => sections[t] # Unread

\* A section under the inventory, from the units of its places only.
RecoverSection(s) ==
    /\ IsNext(s) /\ inventory # {}
    /\ \E reading \in Readings(s) : Look(s, reading, inventory, ReadAsSent(reading, s))
    /\ UNCHANGED <<profile, stage, arrived, copies, inventory, streams, artifact,
                   decision>>

\* A section without an inventory, from any unit that carries a block of it;
\* a carrier of this profile has no other copies.
DiagnoseSection(s) ==
    /\ IsNext(s) /\ inventory = {}
    /\ \E reading \in Readings(s), misplaced \in Misplaced[s] :
        LET read == PlaceBlocks(reading, s)
                    \cup {m \in misplaced : m.block.copy \in CopyIds(s)}
        IN Note(s, RawResult(read, s), RawRivals(read, s), ReadAsSent(reading, s))
    /\ UNCHANGED <<profile, stage, arrived, copies, inventory, streams, artifact,
                   decision>>

Envelopes == [s \in Sections |-> sections[s].envelope]

\* _recover_content_tiers and the artifact state.  A hierarchical profile
\* withholds the whole stream when the required one failed.
RecoverContentTiers ==
    /\ stage = "sections"
    /\ \A s \in Sections : sections[s] # Unread
    /\ \E required \in StreamVerdicts(RequiredFrame, Envelopes),
          all \in StreamVerdicts(AllFrame, Envelopes) :
        LET whole == all /\ (required \/ profile = "copies")
        IN IF inventory = {}
           THEN /\ artifact' = IF \E s \in Sections : sections[s].state = "ambiguous"
                               THEN "ambiguous" ELSE "failure"
                /\ UNCHANGED streams
           ELSE /\ streams' = [required |-> required, all |-> whole]
                /\ artifact' =
                    IF \E s \in Sections : sections[s].state = "ambiguous"
                    THEN "ambiguous"
                    ELSE IF /\ required /\ whole
                            /\ \A s \in Sections : Released(sections[s].state)
                    THEN "exact"
                    ELSE IF required THEN "degraded" ELSE "failure"
    /\ stage' = "decide"
    /\ UNCHANGED <<profile, arrived, copies, inventory, sections, rivals, intact,
                   decision>>

-----------------------------------------------------------------------------
(* decode: one profile among the registered ones for a list of units, and  *)
(* one hypothesis among the orientations, polarities and routes of a       *)
(* square.                                                                 *)

Decide(selected, state) ==
    /\ stage = "decide"
    /\ decision' = [selected |-> selected, artifact |-> state]
    /\ stage' = "done"
    /\ UNCHANGED <<profile, arrived, copies, inventory, sections, rivals, intact,
                   streams, artifact>>

\* A list of units, tried under every registered profile: two that establish
\* an inventory are ambiguous and nothing is released; without an inventory
\* the artifact is a failure, however ambiguous its sections are.
DecideUnits(rival) ==
    LET mine == inventory # {}
    IN CASE rival = "established" /\ mine -> Decide("none", "ambiguous")
         [] rival = "established" /\ ~mine -> Decide("rival", "rival")
         [] rival # "established" -> Decide("this", IF mine THEN artifact ELSE "failure")

\* A square: another hypothesis, with or without an inventory, that came to
\* another result.  Two results that both have an inventory are ambiguous
\* and nothing is released; two that both have none are a failure.
DecideSquare(rival) ==
    LET mine == inventory # {}
    IN CASE rival = "none" -> Decide("this", artifact)
         [] rival = "established" /\ mine -> Decide("none", "ambiguous")
         [] rival = "established" /\ ~mine -> Decide("rival", "rival")
         [] rival = "diagnostic" /\ mine -> Decide("this", artifact)
         [] rival = "diagnostic" /\ ~mine -> Decide("none", "failure")

Rivals == {"none", "established", "diagnostic"}

Done == stage = "done" /\ UNCHANGED vars

Next ==
    \/ \E unit \in DOMAIN Deliveries : \E d \in Deliveries[unit] : Deliver(unit, d)
    \/ RecoverInventoryHier
    \/ RecoverInventoryCopies
    \/ \E s \in Sections \ {Inventory} : RecoverSection(s) \/ DiagnoseSection(s)
    \/ RecoverContentTiers
    \/ \E rival \in Rivals : DecideUnits(rival) \/ DecideSquare(rival)
    \/ Done

Spec == Init /\ [][Next]_vars

-----------------------------------------------------------------------------
(* Safety                                                                  *)

\* Nothing is decided by a vote: when a section is released, no unit of its
\* places (in a replica group) and no complete copy (of a copies profile)
\* proves another block, however many agree (m2_codec.py:1715,
\* bootstrap.py:465).
NeverOutvoted ==
    \A s \in Sections :
        sections[s].envelope # {} => rivals[s] \subseteq sections[s].envelope

\* The order, repetition and misplacement of the inventory's units do not
\* matter: what the assembly loop holds after any arrival is the outcome of
\* the set of the blocks that arrived (bootstrap.py:409).
AssemblyOrderBlind ==
    \A c \in DOMAIN copies :
        DeliveredTo(c) # {} =>
            /\ copies[c].conflict <=> ~OneCopy(DeliveredBlocks(c))
            /\ Assemble(copies[c], Inventory) =
                    AssembleSet(DeliveredBlocks(c), Inventory)

\* A tier is whole when its frame and every body it names are released, each
\* with the very layout the inventory's entry declares for it.
WholeTier(sectionIds) ==
    \E source \in inventory : \A s \in sectionIds :
        \E envelope \in sections[s].envelope : AgreesWithInventory(envelope, s, source)

\* A section is disputed when what its units prove is not one envelope.
Disputed == \E s \in Sections : \E a, b \in rivals[s] : a # b

\* The artifact state claims no more than was recovered, and no less than a
\* dispute: each of the two streams comes from a whole tier; "exact" means
\* that every section is whole, "degraded" at least the required tier;
\* "ambiguous" that the units of some section prove two envelopes; and what
\* decode returns over all hypotheses says no more (m2_decoder.py:2246,
\* 3130).
ArtifactHonest ==
    LET required == Bodies(RequiredFrame) \cup {RequiredFrame}
        all == Bodies(AllFrame) \cup {AllFrame}
        states == {artifact} \cup IF decision.selected = "this" THEN {decision.artifact} ELSE {}
    IN /\ streams.required => WholeTier(required)
       /\ streams.all => WholeTier(all)
       /\ "exact" \in states => streams.required /\ streams.all /\ WholeTier(Sections)
       /\ "degraded" \in states => streams.required
       /\ "ambiguous" \in states => Disputed

\* Damage stays where it is: with the inventory, the required frame and the
\* required bodies read as sent, the required stream is released whatever
\* happened to every other unit; and with all sections read as sent the
\* artifact is exact (m2_decoder.py:2246).  An inventory in copies is read
\* as sent only when no other carrier's block stands against the copy that
\* came through: such a block counts wherever its unit sits, and costs the
\* inventory (m2_decoder.py:1603).
DamageContained ==
    stage \in {"decide", "done"} =>
        /\ {Inventory, RequiredFrame} \cup Bodies(RequiredFrame) \subseteq intact =>
                inventory = {Sent} /\ streams.required
        /\ Sections \subseteq intact => artifact = "exact"
=============================================================================
