# A TLA+ model of golden-board

golden-board packs a taught subject (chess, by way of examples and practice) into a
square image of bits that a receiver without prior knowledge can decode, and keeps the
evidence that it can. The repository holds the decoders and the lesson interpreter twice
(Python and Rust), participant runners that carry a person through the lessons, and
command-line tools that build, damage, replay, verify and publish candidates with their
evidence.

This directory holds TLA+ modules for the parts of that system that keep state, TLC
configurations that check them on small instances, and machine-checked proofs about most
of them: the lesson interpreter with its snapshots and the runners that repeat it, the
three file transactions, the producer pair, the decoder, and the chess rules.
`PROJECT.json` names, for each definition, the source lines it stands for.

## 1. Inventory

| Component | State it keeps | Operations | What is hard |
|---|---|---|---|
| **Content interpreter** `python/golden_board/content.py` (twin: `crates/gb-content`) | an accepted projection; a run: lesson, two budgets, phase, outcome, selection buffer, committed response, feedback, next edge, event log | `stream_validation` (stages 5 to 8), `new_run`, `step`, `advance_committed`, `encode_run_state`, `validate_run_state` | a static budget proof about dynamic runs; charging before judging; redundant snapshots |
| **Participant runners** `tools/m2/learner_runner.py`, `learner_web/viewer.js`, `m2_runner.py` | the same run, mutable; commands and commitments | `perform`, `advance`, `frame` | two of the three are written without the interpreter and skip validation |
| **Participant page and review** `learner_web/ui.js`, `learner_session.py` | attempt number, dirty and busy flags, example player, examples seen | click handlers, export, restart, `review_session` | a restart awaits; the exported log must replay elsewhere |
| **Participant revision transition** `tools/m2/reopen_participant_revision.py` | the repository's documents, report, Gate8 tree, archive | `prepare`, `apply` | kills, power loss, reruns, edits meanwhile |
| **Gate 8 coordinator** `tools/m2/verify_gate8_v2.py` | candidate, Gate8 tree, report, roadmap; two child processes | `execute_pair_v2`, `publish_stage_v2`, `publish_completion_v2`, `admit_transition_v2`, `workflow_v2` | partial publication and rollback; readiness against exit, timeout and signals |
| **Producers** `tools/m2/generate_gate8_v2.py` | private work root | readiness, release, `atomic_last_file` | the receipt must be last |
| **Section recovery** `python/golden_board/bootstrap.py` 287-1365 (twin: `crates/gb-bootstrap`) | semantic copies while they are assembled; an inventory; colours, stack and worklist of the closure | `fragment_section`, `assemble_semantic_copy`, `recover_logical_section`, `_encode_inventory`, `_decode_inventory`, `validate_inventory_closure`, `dependency_closure`, tier and stream assembly | order, repetition and conflict of blocks; two validators of one format; cycles |
| **Decoders** `m2_decoder.py`, group decision in `m2_codec.py` | hypotheses, per section the best evidence, streams, the artifact's name | `decode`, `_decode_square`, `_recover_inventory*`, `_recover_sections*`, `_without_inventory*`, `_aggregate_replica_group` | what a lane proves against what a vote says; damage that must stay where it is |
| **Recipe VM** `bootstrap.py` 1369-2444 | values by number, staged outputs, step and scratch counters, nested calls | `decode_recipe_package`, `evaluate_recipe` | figures declared statically, spent dynamically; partial outputs |
| **Chess rules** `python/golden_board/chess.py` (twin: `crates/gb-chess`) | position, history keys, halfmove clock, closure | `apply_move`, `apply_event`, `_claims`, `_diagnose_move`, `validate_source_record` | repetition, en passant, rights, claims against closure, a second walk for diagnosis |
| **R3 owner bundles** `m2_policy.py` 4168-6034, `tools/m2/apply_r3_*.py` | five owner files under `spec/` | five `apply_r3_*_bundle` functions, the loaders | authority among other files, rollback, reruns, edits meanwhile |
| **Codecs, carrier, damage** `m2_codec.py`, `m2_carrier*.py`, `m2_damage*.py` | none between calls | encode, decode, damage, replay | algebra over byte arrays |
| **Checkpoint, qualification** `m2_checkpoint_v1.py`, `m2_qualification_v2.py` | files | admission of frozen evidence, a clone | byte identities |
| **Source compiler, manifests, curriculum, slices, routes** | none | conversions | byte exactness, which tests pin |

How they interact: the source compiler and curriculum produce a content stream; the
carrier and codecs turn it into an observation; bootstrap, section recovery and the
recipe VM get the stream back; the content interpreter validates it and runs it; a
runner drives the interpreter (or repeats it) for a person, the page exports the
session, and the owner's review replays it through the generic runner, which calls
the interpreter. The producers build a candidate from all of this independently, the
coordinator compares them and publishes the evidence in the repository, whose
`docs/roadmap.md` is the only status authority; the revision transition takes such
a published status back.

What makes each part correct:

- *Interpreter*: the budgets agree; validation's static claims (a funded success path,
  answerable cases, coherent feedback) hold in every run; a run ends; a snapshot
  restores the run it was taken of and nothing else.
- *Runners*: they are the interpreter, call by call, and offer exactly what it takes.
- *Section recovery and decoder*: nothing is decided by a vote against evidence, the order
  of arrival is of no consequence, the artifact is called what it is, and damage stays local;
  encoder and decoder of the inventory agree, and the closure is exact.
- *Recipe VM*: the declared figures hold for every evaluation, and a released output was
  written completely.
- *Chess rules*: reached positions are admissible ones, claims follow the game's history,
  a refusal tells the true reason, and a record of the game is accepted.
- *Owner bundles*: the manifest is never ahead of its owners, all or nothing, edits survive.
- *Page*: an export within the review's caps passes the review, and nothing recorded is
  lost without a warning.
- *Producers and coordinator*: no expensive replay without agreement, no success without
  two complete and equal results, no process left behind, no endless wait.
- *Transition and publication*: authority moves first when taking back and last when
  publishing, nothing foreign is destroyed, an interruption leaves a state the tool
  can name.

## 2. Modules

| Module | Models | Builds on |
|---|---|---|
| `ContentInterpreter` | `_new_state`, `_passive_state`, `_normalize_action`, `_transition`, `_advance` as operators on records | |
| `ContentValidation` | canonical cases and stages 6, 7a, 7b, 7c, 8; `Accepted` is their conjunction | `ContentInterpreter` |
| `ContentRun` | a host calling `step` and `advance_committed`; the state machine and its properties | `ContentValidation` |
| `ContentSnapshot` | `encode_run_state`, `validate_run_state`, a host that stops and resumes | `ContentRun` |
| `ContentRunProofs` | theorems about `ContentRun` and `ContentSnapshot` | `ContentSnapshot`, TLAPS |
| `LearnerCalls` | what one `perform` or `advance` of a participant runner does | `ContentValidation` |
| `LearnerRunner` | a standalone session; `Content` is the refinement to `ContentRun` | `LearnerCalls` |
| `LearnerPage` | `ui.js` around `viewer.js`, downloads, and `review_session` | `LearnerCalls` |
| `RevisionTransition` | `apply`, one action per file-system step | |
| `StagePublication` | `_publish_stage_v2` with its rollback, and `admit_transition_v2` over what is left | |
| `AgreedRelease` | what a pair of producers promises: an abstract specification | |
| `ProducerPair` | `execute_pair_v2`, `_stop`, `pair_v2` and two `produce`; `Promise` is the refinement to `AgreedRelease` | `AgreedRelease` |
| `ReplicaGroup` | lanes of a replica group, their decoding, the repetition vote, the decision | |
| `SectionRules` | blocks, copies, witnesses, envelopes, tier frames and streams | |
| `SectionReceiver` | the observation decoder from units to an artifact, under a lossy channel | `ReplicaGroup`, `SectionRules` |
| `InventoryRules` | the inventory's encoder, its decoder entry by entry, the closure check and worklist | |
| `ChessRules` | controls, moves, application, terminal boards, repetition keys, `validate_local` | |
| `ChessGame` | games: moves, resignation, agreement, claims, closure; diagnosis; source records | `ChessRules` |
| `RecipeRules` | the static stages 6 to 12 of a recipe package | |
| `RecipeMachine` | the evaluation of an accepted package, with frames for iteration bodies | `RecipeRules` |
| `OwnerTransition` | the five owner bundles, one action per file-system step | |
| `OwnerTransitionProofs` | theorems about `OwnerTransition` | `OwnerTransition`, TLAPS |
| `StagePublicationProofs` | theorems about `StagePublication` | `StagePublication`, TLAPS |
| `RevisionTransitionProofs` | theorems about `RevisionTransition` | `RevisionTransition`, TLAPS |
| `LearnerRunnerProofs` | theorems about `LearnerRunner`, the refinement among them, and about `LearnerPage` | `LearnerRunner`, `LearnerPage`, `ContentRunProofs` by instance, TLAPS |
| `ProducerPairProofs` | theorems about `ProducerPair`, the refinement among them | `ProducerPair`, TLAPS |
| `BootstrapProofs` | theorems about what `bootstrap.py` and its decoder do: `SectionReceiver`, `InventoryRules`, `RecipeRules` and `RecipeMachine` | `SectionReceiver`, `InventoryRules`, `RecipeMachine`, TLAPS |
| `ChessGameProofs` | theorems about `ChessRules` and `ChessGame` | `ChessGame`, TLAPS |
| `MCStreams` | families of small streams and calls for TLC | `ContentValidation` |
| `MCContentRun`, `MCLearnerRunner`, `MCLearnerPage`, `MCSectionReceiver`, `MCInventoryRules`, `MCChessGame`, `MCRecipeMachine` | TLC instances of the module they name | that module, `MCStreams` |

### How the interpreter maps to the code

`run` is a `_RunState` without its log, `events` the log, `projection` the accepted
`_ContentProjection`: a function from lesson ids to lesson records with cases,
default edge, budgets, answer mode and passive trace. Record references (feedback,
predicates, displays) are values of small sets; texts, displays and byte spans are left
out. `Transition` is `_transition` with its early return for runs that are not active,
its normalisation of malformed actions to the invalid action, the charge of one event
to both budgets, the insertion of a selection (`bisect_left` and slice, as a position in
the sequence), commit by matching cases, and the phase that the code derives last.
`Advance` is `_advance`. Stage 8's costs are stated as the fixed point the code computes
in topological order (`AreCosts`); its Kahn traversal is the statement that no set of
lessons has a successor inside itself for each member (`Acyclic`).

Actions of `ContentRun`: `Select`, `Reset`, `CommitAnswer`, `InvalidCall` are `step` by
kind of action, `RefusedCall` is `step` on a run that is not active,
`AdvanceCommitted` is `advance_committed`. `on_success_path` is a history variable.

### How the page maps to the code

Each click handler is one action, as JavaScript runs it to completion. `Restart` ends at
the `await` of `createRunner`; `RestartDone` and `RestartFailed` are its two
continuations. `example` is the player, `exported` the last download. `Reviewed` performs
the exported commands again with the interpreter's own operators, as `review_session`
does through `GenericRunner`; `WithinCaps` is its limit on the attempt's number and on the
watched examples (`AttemptsReviewed`, `ExamplesReviewed`: 65535 and 8192 in the code, 2 in the
run, where the page goes one beyond). The page has no such limits: *Replay* lets the same example
count again, a restart counts on. `read_session`'s limit on the size of a file is left out,
as the model knows no bytes. `SortedBuffer` is `Array.prototype.sort` by number: the same
places in some ascending order. The state names (`packet`, `state`, `log`, `PageInit`,
`PageNext`) differ from `LearnerRunner`'s so that one module can prove about both. The view of this run drops downloads of earlier attempts,
which no later step reads.

### How the transition maps to the code

`disk` is what a process reads, `synced` the directory entries a power failure cannot
undo; an `fsync` of a directory copies its part from one to the other. `pc` names the
next system call that changes something or the next whole verification. A kill leaves
`disk`; a power failure restores each directory either as it is or as it was synced, and
in the tombstone, which is never synced, each file on its own. An edit may come between
any two steps, but not in the instant between the last comparison of a file and the call
that replaces or unlinks it: the code has that window, one read wide, and cannot close it.

### How the publication maps to the code

`place` says what is at the three destinations (`ours` is the renamed stage, `edited` the
same inode with other bytes, `same` an identical tree of another origin), `owned` and
`installed` are the code's `owned` and `roadmap_installed`, `cancelled` the list the
deferred signal handlers fill. `Frozen` is the checkpoint: no signal yet, source
projection unchanged. That projection excludes the roadmap's mutable status, so an edit
is either `noted` (in the status) or `rewritten` (in the hashed part). `Fault` is any call raising,
before or after the step had its effect. `Rerun` is the next `bootstrap` over what is
left, when `Admission` calls it pending. Trees are renamed whole and removed piecemeal
(`partial`).

### How the pair maps to the code

A producer is a process group: a `leader` that goes through `produce`, and during the
replay the pool `workers` of `parallel_rows`, which share its output pipe and outlive it
when it is killed. `pc` is the coordinator's place in `execute_pair_v2`: the head of the
loop with its checks, the `select` that reads what there is, the comparison, the two
release lines, then `_stop` with its two rounds (`term`, `kill`) and, in `pair_v2`, the
comparison of the complete results. `outcome` is what the `finally` block will end with.
`output` holds an unread line, which is a readiness line (with the source hash `seen`) or
noise; `core` and `table` are what the 22 preflight rows and the complete file rows
identify. A deadline is the event that it has passed. `Reject` is any `ValueError` of the
leader, a passed release deadline and an end of input without a release among them;
`LeaderKilled` is a death without cleanup, by `_stop`'s signal or another's. `unclean` is
`_stop` raising because a group survived SIGKILL for a second. The coordinator's own
SIGKILL is not modelled: nothing could clean up after it, and nothing claims to.

The promise says a producer that started its replay did so after every producer had
announced the same core, and success follows only from equal complete tables of all.

### How the decoder maps to the code

A unit is read as a word of a small code (`Code`, six bits and distance four, the
distance of the extended Hamming code): equal to a code word it is *verified*, one flipped
bit or up to three erased ones away *recovered*, else *corrupt*. `Aggregate` is
`_aggregate_replica_group`: every lane alone, then the repetition vote bit by bit over all
lanes, and the set of blocks that result; two of them make the group ambiguous, however
many lanes each has. `SectionReceiver` has one state machine for both kinds of profile. In
a *hier* profile a fragment is one group. In a *copies* profile any unit may carry a block of
the inventory, also one at the place of another section or beyond the layout: `Deliver` decodes
one unit, of the inventory's own places or of any other, and files its block under the copy the
block names (`AddBlock` is the body of `assemble_semantic_copy`'s loop).
`RecoverInventoryHier` and `RecoverInventoryCopies` are `_recover_inventory_v7` and
`_recover_inventory`; when they find nothing, the diagnostic functions report on section 1.
`RecoverSection` is a round of `_recover_sections` or `_recover_sections_v7`, which look at a
section's own places only. `DiagnoseSection` is a round of `_without_inventory` or
`_without_inventory_v7`, which take any unit that carries a block of the section: `Misplaced`
is what units at other places may carry. `RecoverContentTiers` makes the streams and
the artifact's name; `DecideUnits` is what `decode` returns for a list of units tried under all
registered profiles, `DecideSquare` for a square with its rival hypotheses.

The units of a section are chosen when the decoder first reads them: no step reads them twice,
except that a unit at the place of another section may carry a block of the inventory and is
corrupt where it sits. The model chooses the two apart, so that it covers that case and a
unit beyond the layout, which spoils no place. `rivals` and `intact` are history
variables: what the units of a section proved, and whether the section was read as sent. An
inventory in copies is read as sent (`InventoryAsSent`) when its places are, when one copy was
carried exactly as sent, and when no copy was carried whole by another carrier only. The second
condition is needed because the code has no place to hold a block against: `_recover_inventory`
files it by what it says, and one foreign block of section 1 puts the copy it names in conflict,
wherever its unit sits. Section 1 is the inventory, 2 and 3 the frames, 16 a required and
17 an optional body. The other carrier (`other`) differs in content and in the
length of its optional body. Route discovery, hypotheses' order, resource figures
and fragment diagnostics are left out.

### How the inventory maps to the code

An inventory is a sequence of entries, each field a number or a class (`size` is zero,
some or the inventory's own length). `DecodeHeader`, `DecodeEntry` and `DecodeWhole` are
the three parts of `_decode_inventory`; `StartRoot`, `VisitDependency` and `LeaveSection`
are the depth-first search of `validate_inventory_closure` with its colours and stack;
`AskClosure`, `CloseNext` and `CloseDone` are `dependency_closure` with its list of
pending sections. The definition it is compared with, `Encodes`, is the encoder's
validation, with cycles stated over reachability and not by a search: `Reachable` is the
least set that holds the start and is `ClosedUnder` the dependencies.

### How chess maps to the code

`position` is a board (a function on the occupied squares), a side, castling rights named by
the rook's home square, and the en passant target. `keys` holds the repetition keys,
`past` is a history variable with the positions themselves. `PlayMove` is `apply_move`
within `apply_event`, with the score the board gives it; `Resign`, `AgreeDraw`,
`ClaimThreefold` and `ClaimFiftyMove` are the other events. `DiagnoseMove` is a pure
function of a position and any asked move, compared with a reference that asks the
generator about a board with nothing but the two squares on it.

### How the recipe VM maps to the code

A package has tables and recipes of nodes with opcode, declared type and width, arguments,
auxiliary field and immediate. `Accepts` is the conjunction of the static stages as the code
runs them. The machine keeps a stack of frames; a frame knows how far it is and what it has
written of its outputs, and numbers of values only where an opcode's outcome depends
on them (an ITERATE body's status, a selected status). Partial opcodes may or may not
hit their limit: both are tried. `steps` and `peak` count what is executed and what is held
until its last use, as the resource rules define them; the evaluator itself keeps no
such counters, which is why the declared figures deserve a check.

### How the owner bundles map to the code

`owner` holds for each file the version that wrote its bytes; `Drift` is bytes no bundle
knows. The five functions are one text with differences: the first bundle has five
files and its own precursor, the later ones three; the last three refuse beside a canonical
candidate even when they are in place; the last two look again before the backups and
before the renames. `disk` holds what a power failure may bring back; the damage policy is
clarified by hand between two bundles (`Author`). `lost` collects edits that were there
at the run's last look before its renames and that a rename into place overwrote, `late` those
made after that look. The look at the result, after the renames, may see a late edit; the
rollback it then starts writes what was first read over it all the same, and `lost` does not count
that. A run whose rollback itself fails is "stuck" where it is, and `CleanEnd` says nothing of
it. `trust` is "loose" in a rollback, whose renames are synced only together, and
"torn" after a power failure there.

## 3. Runs

| Run | Bounds | What it shows |
|---|---|---|
| `content_run` | 2 lessons with all edges and budgets around the bound; 3 lessons with two branches that meet; one lesson with 3 shapes, repeats, ceilings 0-3, budgets 1-4, 7 answers, special cases, traces, all roles and feedback mixes; cyclic rejection edges; regions 0-4 and each kind of ill-formed call; for four of the streams a snapshot at any moment, every single-field change, one restart | `BudgetsCoherent`, `SuccessPathFunded`, `BufferLegal`, `EveryCaseAnswerable`, `FeedbackAgreesWithVerdict`, `SnapshotFaithful`, `DamageDetected`, `Terminates` |
| `learner_runner` | the families above, as packets | `OffersAreHonest`, `ImplementsContent` |
| `learner_page` | three packets, three attempts, three recorded examples, of which the review takes two each | `ExportsReviewable`, `UnsavedWorkWarned` |
| `revision_transition` | 3 Gate8 files, 2 kills or 2 power failures, 2 edits | `OnlyArchivedDestroyed`, `ArchiveBeforeAuthority`, `OutputsUnderAuthority`, `Resumable`, `EventuallyComplete` |
| `stage_publication` | 2 failing calls, 2 kills, 2 edits, any signal | `AuthorityLast`, `AllOrNothing`, `OnlyOwnRemoved` |
| `producer_pair` | 2 producers, 2 cores, 2 tables, 1 edit, any failure, signal or kill | `NobodyLeft`, `KeepsPromise`, `PreflightEnds`, `TroubleEnds` |
| `section_receiver` | 5 sections, 2 carriers, groups of 1, 2 and 5 lanes, inventory and a body of 2 fragments, lanes clean, fixable, torn in two ways, of another carrier or a stray block, or missing; two units elsewhere that may carry inventory blocks of either carrier, one misplaced block of a section | `NeverOutvoted`, `AssemblyOrderBlind`, `ArtifactHonest`, `DamageContained` |
| `inventory_rules` | every dependency graph over 3 sections, every inventory that differs from a sound one in one field, or in two fields of kinds that interact, both versions; 6 root lists, 4 sets of available sections | `DecoderAgreesWithEncoder`, `ClosureExact`, `EveryInputAnswered` |
| `chess_game` | 6 starts (locked pawns with and without an en passant capture, a pinned capture, castling, mating, promotion), 2 free plies and up to 9 quiet ones; repetition after 3, a fifty-move rule of 6 plies, agreement after 2 | `PositionsAdmissible`, `ClaimsFollowHistory`, `RefusalsTrue`, `RecordsAgree` |
| `recipe_machine` | a body and a recipe of 2 free nodes of 12 by 10 kinds and 8 endings, 0 to 2 rounds, and three recipes with nested calls; declared figures right or one off; limits 60 steps and 40 bytes | `WithinDeclared`, `CoverageComplete` |
| `owner_transition` | 5 bundles from any version, 2 runs, 1 failing call, 2 kills or power failures, 1 edit | `AuthorityLast`, `CleanEnd`, `EditsKept` |

Why the bounds are enough. The interpreter's rules look at one lesson, its successor and
two counters: two lessons give every edge shape (forward, back, to itself, none), three
give branches of different cost that meet, and budgets are taken on both sides of
the accepted bound. A buffer of two regions with a third visible one distinguishes all
three shapes, repeats and order. Two attempts are needed to see a restart forget
something; two examples to see one finished before and one after it; the third of each passes
the review's cap. In the file
transactions each file passes the same code, so three files show a partial removal
with something before and after it; two faults let the second one hit the rollback
of the first; two edits change a thing and then another the checks compare it with.
The pair has two producers in the code too; two values tell equal cores and tables from
different ones, and the source is frozen or not.

In the decoder five lanes show each side of a vote and a conflict beside a majority; two
fragments and two copies show a torn copy, a crossed unit and a missing half; two units
elsewhere can carry a whole inventory copy of another carrier or spoil both copies of the
own one; one required and one optional body show both tiers. The chess constants 3, 6, 2 and 9 stand for 3, 100,
the agreement minimum and the history's capacity: what matters is their order and that
each is reached from both sides. Two free nodes in a recipe make a value die before, at and
after a call, and three recipes show a call inside a call. Two runs of
the owner bundles let the second one meet whatever the first one left.

One run is expected to find a violation of a sentence the repository states:

- `revision_resume_claim`: the transition's specification (lines 142 to 148) says the
  interrupted command may be resumed. An archive that is already there is reused
  without an `fsync` of its directory: kill after the rename, rerun, power failure, and
  the roadmap is pending while its archive is gone. (Without the kill, or without the
  power failure, `Resumable` and `EventuallyComplete` hold: `revision_transition`, where
  a behaviour has kills or power failures but not both.)

Known divergences, met while modelling, that the models have as the code has them and
that no run states:

- `spec/content-v0.md:764` says that the passive trace of packed practice commits an
  accepted case. `_validate_stage7c` (`content.py:2223`) compares the replay only with
  the trace's own expectation, so a trace that demonstrates a wrong answer is accepted.
- `learner_web/index.html:82` says that restarting exports this attempt before opening a new
  one. The download comes before the `await`, the reset after it (`ui.js:230`), and
  the example player does not look at `busy` in between.
- `spec/gate8-policy-v2.toml:272` says the status update preserves all other bytes.
  Between the last look at the roadmap and its replacement runs a checkpoint that hashes
  the source but not the roadmap's status (`verify_gate8_v2.py:419`): an edit there is lost.
- The page lets a participant watch an example again and restart as often as they like
  (`ui.js:231`, `ui.js:248`); the review refuses a file with more than 8192 watched examples
  or an attempt beyond 65535 (`learner_session.py:37`, `:82`). `ExportsReviewable` says that
  these two are the only grounds of refusal among those modelled.
- In a copies profile the other sections are read place by place, the inventory is not
  (`m2_decoder.py:1589`): a foreign block of section 1 in any unit can cost an inventory whose
  own places all came through (see `InventoryAsSent`).
- The pair's cancellation test calls it an error that a cancelled pair returns success, and
  a comment says that cancellation is deferred. The loop looks at `cancelled` when a round
  begins (`verify_gate8_v2.py:127`); a signal in the last round, or during `_stop`, is
  dropped, where the loop that runs other commands looks once more after its end.

Deadlock is not checked where the system stops: a transition or publication that has ended
with nothing left to do, a pair that has ended, a page whose bounds are reached, a closed
game, a finished evaluation, an answered request. A closed content run still
answers `step` (`RefusedCall`), so those runs check it, except that the refinement run
of `LearnerRunner`, whose command files end, does not.

### Fairness

`SnapshotSpec` of `ContentSnapshot` assumes weak fairness of `ContentRun`'s whole next-state
relation (`Running`), as `LiveSpec` there does: the host keeps calling, nothing about which
action the learner takes, nothing about when it saves or resumes (`MaxResumes` bounds how
often it starts again); a host that stops leaves a run open, and the code promises
nothing then. `InventorySpec` assumes that a single thread inside a loop goes on. `LiveSpec` of
`RevisionTransition` assumes that a started command proceeds (a single-threaded script)
and that the owner starts it again and clears a stage file left behind, which is the
documented way to resume: the command itself refuses while such a file is there. Kills
are bounded, as a command killed for ever makes no progress, and edits that change what
the package holds end the promise. `LiveSpec` of `ProducerPair` assumes that the
coordinator runs and that time passes; of the producers it assumes nothing: they may
hang at any step and ignore SIGTERM. The other properties are
safety properties and assume nothing.

## 4. Proofs

The theorems hold for every value of the constants that satisfies the named assumptions;
TLC evaluates those on the instances of section 3. Each module has an inductive invariant
`IInv`, stated as a conjunction of named parts, and one lemma per action or per part. The
theorems that `PROJECT.json` lists are named here with what they say; the rest are lemmas.

### The interpreter: `ContentRunProofs`

Assumed: finite caps, well-typed candidate streams (not that they are accepted: `Init`
takes those that `Accepted` admits), raw calls whose region is one of the stream's or 0.

- `TypeCorrect`: `Spec => []TypeOK`;
- `BudgetsAgree`: `Spec => []BudgetsCoherent`;
- `SuccessPathsFunded`: `Spec => SuccessPathFunded`, the soundness of stage 8's static
  proof;
- `BuffersLegal`: `Spec => []BufferLegal`, and `FeedbackAgrees`:
  `Spec => []FeedbackAgreesWithVerdict`;
- `CasesAnswerable`: `Spec => []EveryCaseAnswerable`;
- `SnapshotsFaithful`: `SnapshotSpec => []SnapshotFaithful`, and `DamageIsDetected`:
  `SnapshotSpec => []DamageDetected`;
- `RestoreIsExact`: whatever bytes `validate_run_state` accepts are those of one run, and
  that run is restored;
- `ResumedRunsKeep`: what holds of an uninterrupted run holds of one resumed any
  number of times.

None of these is inductive. `IInv` adds what they rest on: the projection is an accepted
one; the run is sound for its lesson (its buffer within the ceiling, its next edge a target
of the lesson, its outcome accepted only over a success edge); the log has as many
events as were charged; and, on the success path, the global budget still covers the cost
of everything from here on: the cost of the lesson as entered, less what was spent in it.
The last part is the heart of it: `CostCoversTarget` shows that stage 8's fixed point
drops by at least the item budget over a success edge, and `AdvanceFunded` that what is
left therefore funds the next lesson.

`Answers` adds that the buffer is a legal answer so far (`InsortAscends` and
`InsortMembers` are about the insertion into an ascending buffer) and that a run shows the
verdict on the response it recorded, and nothing before; `VerdictAgrees` brings in stages
7a and 7b. `Recorded` adds what a committed run keeps of its answer. `Legal` is the three
together.

Snapshots need the replay, which is a fold over the log. `FoldLeft` is a `CHOOSE` of a
function, so what it computes is known once such a function exists; `FoldExists` shows
that for any step that stays in a set, by induction over the length. The induction
is `EveryNumber`, for a set instead of a predicate, from the well-foundedness of the naturals
(`WFMin`). From this come `ReplayUnfolds`, `ReplayAppends` (a longer log is replayed
by one more step) and `ReplayPays` (each event of a log is paid for). `Writable` is then
inductive: the log replays to the run, or to the run before its last advance, which writes
no event (`StandsFor`); `EndsStand` and `BytesName` show that the phase, budgets and lesson
in the bytes tell these two apart. `SnapshotIInv` says the same of the run at hand and of the
snapshot on disk. `CaseAnswerable` follows a packed answer through the fold call by call:
each select finds the buffer one region further (`SelectsNext`), stage 8 keeps the
last event for the commit, and stage 7a makes the case found the one meant.

### The participant's runner and page: `LearnerRunnerProofs`

Assumed: the candidate packets are well typed (`PackagesTyped`); `Init` and `PageInit` take
those that validation accepts.

- `OffersHonest`: `Spec => []OffersAreHonest`;
- `RunnerImplementsContent`: `Spec => ImplementsContent`, the refinement;
- `ParticipantInherits`: the interpreter's theorems for the runner's runs;
- `ExportsReview`: `PageSpec => []ExportsReviewable`: for any caps, a downloaded file is accepted
  exactly when it keeps them; and `WorkIsWarned`: `PageSpec => []UnsavedWorkWarned`;
- `SortedIsInserted` and `ReviewAppends`, the lemmas that carry `ExportsReview`.

The interpreter's theorems come from an instance of `ContentRunProofs` with the calls a
participant can make. Theorems of an instance speak of the instance's operators:
the lemmas `Same...` say that these are the ones the runner is written with. `IInv` is the
interpreter's own; `JudgedIsVerdict` shows that judging by region ids agrees with judging by
the response as long as the buffer is legal, `PerformIsStep` and `MoveIsAdvance` that each
action is the interpreter's step, `MissingIsRefused` that what is not offered would be refused.

The page's viewer pushes a selection and sorts, where the interpreter inserts. `OneOrder`
shows that an ascending sequence without repetition has one order, so that whichever order
a sort finds, it leaves what the insertion leaves (`SortedIsInserted`, `ClickIsStep`). The
review is a fold over the exported commands; `ReviewUnfolds` takes it apart with
`FoldExists`, and `ReviewAppends` says that one command more is one step more. `PageIInv`
is then inductive: reviewing the commands kept so far ends, without a refusal, in the
viewer's state with its events and commitments. It adds the count of commands (`Paid`: an
event pays for at most two, itself and the page turn after it), on which the review's cap
rests, and that only lessons with an example were watched.

### The file transactions

`OwnerTransitionProofs` proves the three properties of `OwnerTransition` for any number of runs,
failing calls, kills, power failures and edits (the named assumption `Bounds` says only that
the bounds are natural numbers):

- `AuthorityStaysLast`: `Spec => []AuthorityLast`;
- `RunsEndClean`: `Spec => []CleanEnd`;
- `EditsSurvive`: `Spec => []EditsKept`.

The inductive invariant has three parts beside the types. `Shape` says what a run knows: it
started from a precursor of its bundle, and every file nobody edited since the last look holds
`Mid`, the output if its rename is among the first `n`, else what was found. From this
follows what is overwritten (`EditsKept`). `Endings` adds, without edits, that the directory is
synced when the authority is renamed and when the result is looked at. `Authority` carries
`SafeDisk`: for each promotion a power failure may leave, every version each other file may
be left with is one it may stand on. `MidIsBacked` shows each step of the way there and
back to be backed; `AuthorityStep` shows that a rename keeps `SafeDisk`, which for
the authority's own rename needs the sync before it, and for the others that no promotion on disk
is newer than the one in place. In a rollback `SafeDisk` fails until the last sync: the
promotion and an owner are taken back without a sync between them, which is why `trust`
excepts a power failure there.

`StagePublicationProofs` proves the three properties of `StagePublication`, again for every
bound on failing calls, kills and edits (`Bounds`):

- `AuthorityStaysLast`: `Spec => []AuthorityLast`;
- `PublishesAllOrNothing`: `Spec => []AllOrNothing`;
- `RemovesOnlyItsOwn`: `Spec => []OnlyOwnRemoved`.

`Authority` is the part that says what the roadmap may be at each step while nobody edits: the
prior one until the status is installed and again from the restore on, which is why a
tree may be taken apart. `Holdings` says whose each output is: on the way there, what is of this
transaction's inode is what it recorded as `owned`; on the way back, what is still to be taken
back (`Left`), each of it once (`Steps`), so that an emptied list means that nothing of its
own is left. `TakebackIs` shows that the list a rollback starts with is exactly what was
installed, without repetition.

`RevisionTransitionProofs` proves the invariants of `RevisionTransition` for every tree
of files and every bound, assuming `~KillsAndLosses` as the run does: kills and power failures
are not mixed in one history, any number of either may happen.

- `ArchiveComesFirst`: `Spec => []ArchiveBeforeAuthority`;
- `OutputsGoLast`: `Spec => []OutputsUnderAuthority`;
- `DestroysOnlyArchived`: `Spec => []OnlyArchivedDestroyed`;
- `AlwaysResumable`: `Spec => []Resumable`.

The assumption is needed: a rerun after a kill takes an archive or a pending roadmap that it
finds as it is, without syncing it, so that a later power failure may take back what later
steps rest on. `Archived` and `Outputs` say it so: as long as no run was killed, the archive
that a pending roadmap or a destroyed version rests on is synced, and so is the
roadmap that missing outputs rest on (`Turned`). `First` is the order of a run: another
document is replaced only after the roadmap. `Resumable` needs one part more, `Undisturbed`:
while nobody edits, what is read and what a power failure may bring back hold only
versions that are or were authoritative, with the roadmap ahead of the other documents.

### The producer pair: `ProducerPairProofs`

Assumed: there is a producer (`Producers # {}`, any number), and a natural bound on edits.

- `NobodyIsLeft`: `Spec => []NobodyLeft`;
- `PromiseKept`: `Spec => KeepsPromise`, the refinement of `AgreedRelease`: the initial states
  map to initial states and each action to a step or a stutter.

`CoresKnown` and `ReleaseAgreed` say where a core has come from by each stage, and that a
release in a pipe was written on the agreement of all; `WorkKnown` what each stage of a leader
has left behind, which is what the comparison of complete results rests on; `HuntKnown`
that a group no longer hunted is gone or never was, which gives `NobodyLeft`.

### The decoder: `BootstrapProofs`

Assumed: a finite code over finite word bits, any two words at distance four or more
(`CodeAssumption`); a layout with the three structural sections, an inventory in two copies,
and carriers that differ in lengths and content only (`LayoutAssumption`); finitely many units
that may bring something to the inventory, each at most one block of it, verified or recovered
(`RolesAssumption`). Which sections there are, how many carriers, blocks, lanes and units, where
the units sit and what the channel makes of them is free.

- `DecodesToOne`: no word decodes to two blocks;
- `NothingIsOutvoted`: `Spec => []NeverOutvoted`;
- `OrderDoesNotMatter`: `Spec => []AssemblyOrderBlind`;
- `ArtifactIsHonest`: `Spec => []ArtifactHonest`;
- `DamageStays`: `Spec => []DamageContained`, where an inventory in copies counts as read as sent
  only if no foreign block was filed against the copy that came through: with one, the
  conclusion is false of the code.

`DecodesToOne` counts the bits two readings would have to differ in. `SectionsVetted` says
that a section is released exactly when it has an envelope and then has no rival, and that it is
ambiguous only with two; it rests on what a decision may return (`Sound`). `Filed` is what makes
the order irrelevant: a semantic copy holds what was delivered to it as a set, or is in conflict
exactly if that set is (`Files`). `Agreed` says that a released section has the layout of the
inventory's entry, from which `ArtifactHonest` gets its whole tiers. `Staged` says that
nothing is reported before its stage. `InventorySent` shows that an inventory read as sent is found and is the one sent,
and `Contained` that then every section read as sent is released as sent.

### The inventory, in `BootstrapProofs`

Assumed: the fields of an inventory are what they can hold once cut from the bytes
(`InventoriesTyped`), the roots of a request are numbers (`RequestsTyped`). The inventories,
their graphs of dependencies and the requests are free.

- `DecoderAgrees`: `InventorySpec => []DecoderAgreesWithEncoder`;
- `ClosuresExact`: `InventorySpec => []ClosureExact`.

`InventoryIInv` has one part per loop. `ReadSoFar`: the entries before the one at hand would
have been written. `Searched`: grey is exactly what the stack holds, once each; the stack is a
walk over dependencies; what is black depends on black sections only. A grey dependency thus
reaches itself (`GreyIsACycle`), and a black section does not (`LeaveKept`): what it reaches
was black before it. `Closing`: closed sections lead to closed or pending ids, and both are
reached from the roots; when nothing is pending the closed set is closed under dependencies, so it
holds the least such set (`ReachLeast`).

### The recipe machine, in `BootstrapProofs`

Assumed: the fields of a package are what they can hold once cut from the bytes
(`PackagesTyped`). The packages, their recipes, tables, nodes and bodies are free, and so are
the limits, which the arguments do not need.

- `CoverageIsComplete`: `MachineSpec => []CoverageComplete`;
- `FiguresHold`: `MachineSpec => []WithinDeclared`;
- `PeakIsWorst`: the declared scratch of a recipe is the least number that no node exceeds,
  neither with its own result nor with the body it runs, beside what is held.

`MachineIInv` says that an accepted package is run by a stack of sound frames: each is at a node
of its recipe or just past the last (`FrameAt`), has written what the EMITs before that
node write, and knows a status for every value of its that is one (`FrameDid`); a frame
with another above it waits at the ITERATE that calls that one (`Calling`), so the
recipes on the stack strictly decrease. At the end of a recipe all EMITs have
run, and stage 11 says what they write.

`FigureIInv` adds the figures. Steps are a balance: the nodes executed and those still owed
by all frames (`Owing`) make the declared steps; an ITERATE owes its whole cost less the
rounds it has begun (`Paid`), which its body's frame then owes in its place. Scratch is kept per
level (`StackFigured`): what lies under a level and its recipe's declared peak stay
within the entry's, and the worst so far has seen every node of the level that ran, with
the bodies of its past rounds (`RoundFigured`). The upper bound needs no more than that; that the
worst is reached needs a node of the level to have it, which is what `PeakIsWorst`
shows of the scan (`ScanSound`, `VisitKeeps`), and a body that runs at all: hence the exception
for an ITERATE of no rounds, whose body stage 12 counts and no run meets. The sums
over nodes and over frames are the library's folds; `SumTakes`, `SumAdds` and `SumSplits` say what
they do for every set of positions, from the one fact that addition over positions exists
(`AdditionExists`).

### Chess: `ChessGameProofs`

Assumed: starts that `decode_position` accepts (`StartsAssumption`), natural thresholds for
claims, asked squares on the board. The proofs are about the whole board, all 64 squares.

- `LegalMovesAdmissible`: a legal move of an admissible position leads to an admissible one;
- `GamesStayAdmissible`: `Spec => []PositionsAdmissible`;
- `RecordsAccepted`: `Spec => []RecordsAgree`;
- `KeysTell`: keys are equal exactly when board, side, rights and legal moves are;
- `QuietTells`: a move is quiet exactly when pawns and number of men stay as they are;
- `ClaimsGranted`: `Spec => []ClaimsFollowHistory`;
- `SlidesAreLines`: the generator's slides and the diagnosis's own walk agree;
- `RefusalsTellTheTruth`: `Spec => []RefusalsTrue`.

Admissibility is shown part by part from the shape of a move (`Shape`): men per side, kings,
pawns off the last ranks, rights beside their rooks, the en passant target behind a pawn that
just passed it. `IInv` is `AtHand` (the position is admissible, a closed game was closed
truly), `Recorded` (one key per position of the history, the last at hand) and `Clocked` (the
clock counts the quiet plies since the last one that was not). With `KeysTell`
and `QuietTells` these give the claims. `RefusalsTrue` compares two walks over the board:
`SlidesAreLines` shows that they are one.

### Only model-checked

Every invariant and action property of the runs is stated by a theorem. The liveness
properties (`Terminates`, `EventuallyComplete`, `EveryInputAnswered`, `PreflightEnds`,
`TroubleEnds`) are beyond the prover, which has no rule for fairness and ENABLED, and stay with
TLC. So does the run of `RevisionResumeClaim.cfg`, which refutes a claim.

## 5. Not modelled

- The byte decoders, stages 5a to 5d and error spans of `content.py`, the byte framing of
  blocks, envelopes, inventories and recipe packages, and CRCs: one pass over an immutable
  input, and pinned by conformance vectors. The models start where fields have values.
- The Rust twins: the same algorithms again; the repository compares both byte for byte.
- Reed-Solomon and Hamming algebra, carrier geometry, mapping, route discovery, damage
  generation: algebra and search without state. Recovery is modelled over a code of
  the same distance.
- The arithmetic of the recipe VM's opcodes (their results do not steer an evaluation except
  through statuses and limits, and those are tried both ways), and `m2_recipe.py`, which
  authors the packages.
- Chess predicates and the evaluation of position trees (`chess.py` 940-1614): pure functions
  of one position or of an authored tree.
- `prepare` of the transition, check mode of the publication and the archive checks of
  the owner bundles: they write nothing that others read, or nothing at all. What the
  owners' TOML and JSON must say is one check in the model.
- `publish_completion_v2` and `workflow_v2`: a single-file variant of the transaction that
  `StagePublication` has, and the order of the commands.
- Checkpoint and qualification, source compiler, manifests, curriculum, slices, routes,
  rendering, shell scripts: read-only admission, conversions and orchestration.

## 6. Plan

Done in this order: interpreter and validation; the run with its proofs; snapshots;
runners and page; the revision transition; stage publication; the producer pair; section
recovery and the decoder; the inventory; chess; the recipe VM; the owner bundles with their
proofs, those of the other two transactions, of the runner and the page, the pair, the decoder,
the inventory, chess, snapshots and the recipe VM. Next:

1. `Gate8Workflow`: `publish_completion_v2` and `workflow_v2` over `StagePublication`, with
   `RevisionTransition` as its way back.
2. Position trees and predicates over `ChessRules`.
