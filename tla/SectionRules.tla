---------------------------- MODULE SectionRules ----------------------------
(***************************************************************************)
(* The logical layer above the units: common blocks, semantic copies,      *)
(* section envelopes, the inventory and the tier frames (bootstrap.py).    *)
(*                                                                         *)
(* Bytes are abstracted to their origin.  A carrier ("source") is an       *)
(* inventory together with one envelope per section; a block is a fragment *)
(* of one of its envelopes.  The section check is what tells a whole       *)
(* envelope from a patchwork: fragments of two sources never pass it.      *)
(***************************************************************************)
EXTENDS Integers, FiniteSets

CONSTANTS
    Sources,     \* the carriers whose units may turn up in an observation
    Sections,    \* the section ids of every inventory: 1, 2, 3, 16, ...
    Layout       \* Layout[source][section]: the inventory entry

Inventory == 1
RequiredFrame == 2
AllFrame == 3
Required == 128
Content == 3

EntryFields == {"type", "closure", "copies", "factor", "fragments", "length"}

\* Every carrier is one the encoder accepts (two copies of the inventory, at
\* least one of any section), and they share their geometry, so that a unit
\* id means the same place in all of them.  They may differ in the length of
\* an envelope, which is part of a block's identity.
ASSUME LayoutAssumption ==
    /\ {Inventory, RequiredFrame, AllFrame} \subseteq Sections
    /\ Layout \in [Sources -> [Sections -> [EntryFields -> Nat]]]
    /\ \A s \in Sections, source \in Sources :
        /\ Layout[source][s].fragments > 0 /\ Layout[source][s].copies \in 1 .. 3
        /\ Layout[source][Inventory].copies = 2
        /\ \A other \in Sources, field \in EntryFields \ {"length"} :
            Layout[source][s][field] = Layout[other][s][field]

Entry(s) == LET source == CHOOSE x \in Sources : TRUE IN Layout[source][s]

Fragments(s) == 0 .. Entry(s).fragments - 1
Copies(s) == 0 .. Entry(s).copies - 1

Block(source, s, copy, fragment) ==
    [source |-> source, section |-> s, copy |-> copy, fragment |-> fragment]

\* What every block of one semantic copy has in common.
Identity(b) ==
    [section |-> b.section, copy |-> b.copy,
     fragments |-> Layout[b.source][b.section].fragments,
     length |-> Layout[b.source][b.section].length]

-----------------------------------------------------------------------------
(* assemble_semantic_copy: the loop over the blocks of one copy, as it     *)
(* goes, and the same outcome as a function of the set of the blocks.      *)

NoBlocks == [identity |-> {}, held |-> {}, conflict |-> FALSE]

MutantAddBlock(copy, b) ==                          \* the last block of a place wins
    IF copy.conflict \/ copy.identity \notin {{}, {Identity(b)}}
    THEN [copy EXCEPT !.conflict = TRUE]
    ELSE [identity |-> {Identity(b)}, conflict |-> FALSE,
          held |-> {x \in copy.held : x.fragment # b.fragment} \cup {b}]

AddBlock(copy, b) ==
    LET held == {x \in copy.held : x.fragment = b.fragment}
        clash == \/ copy.identity \notin {{}, {Identity(b)}}
                 \/ held \notin {{}, {b}}
    IN IF copy.conflict \/ clash THEN [copy EXCEPT !.conflict = TRUE]
       ELSE [identity |-> {Identity(b)}, held |-> copy.held \cup {b},
             conflict |-> FALSE]

\* The source of an envelope joined from these blocks: the section check
\* passes only when they are all of one envelope.
Checked(blocks) ==
    LET sources == {b.source : b \in blocks}
    IN IF Cardinality(sources) = 1 THEN sources ELSE {}

Complete(blocks, s) == {b.fragment : b \in blocks} = Fragments(s)

Assemble(copy, s) ==
    IF copy.conflict \/ ~Complete(copy.held, s) THEN {} ELSE Checked(copy.held)

\* Of a set of blocks, in whatever order they came.
OneCopy(blocks) ==
    /\ Cardinality({Identity(b) : b \in blocks}) = 1
    /\ \A b, c \in blocks : b.fragment = c.fragment => b = c

AssembleSet(blocks, s) ==
    IF OneCopy(blocks) /\ Complete(blocks, s) THEN Checked(blocks) ELSE {}

-----------------------------------------------------------------------------
(* recover_logical_section: the complete witnesses of a section, without a *)
(* vote: two different envelopes are ambiguous however many carry each.    *)

Result(state, envelope) == [state |-> state, envelope |-> envelope]

RecoverLogical(witnesses) ==
    LET envelopes == {w.source : w \in witnesses}
    IN IF Cardinality(envelopes) # 1 THEN Result("ambiguous", {})
       ELSE Result(IF \E w \in witnesses : w.verified THEN "verified"
                   ELSE "recovered", envelopes)

\* validate_envelope_against_inventory
AgreesWithInventory(source, s, inventory) ==
    Layout[source][s] = Layout[inventory][s]

-----------------------------------------------------------------------------
(* Tier frames: the sections whose bodies make the required and the whole  *)
(* content stream.                                                         *)

Bodies(frame) ==
    {s \in Sections : Entry(s).type = Content /\
        (frame = AllFrame \/ Entry(s).closure = Required)}

MutantStreamVerdicts(frame, released) ==            \* leaves out a body that is missing
    IF released[frame] = {} THEN {FALSE}
    ELSE {Cardinality({released[s] : s \in Bodies(frame) \cup {frame}} \ {{}}) = 1}

\* assemble_content_stream: a frame and bodies of its own carrier join to
\* the stream that was built; bodies of another carrier must have the very
\* lengths the frame declares, and may then still fail content validation.
StreamVerdicts(frame, released) ==
    LET sources == {released[s] : s \in Bodies(frame) \cup {frame}}
        own == CHOOSE source \in Sources : released[frame] = {source}
    IN IF {} \in sources THEN {FALSE}
       ELSE IF Cardinality(sources) = 1 THEN {TRUE}
       ELSE IF \E s \in Bodies(frame) : \A source \in released[s] :
                    Layout[source][s].length # Layout[own][s].length
            THEN {FALSE} ELSE {TRUE, FALSE}
=============================================================================
