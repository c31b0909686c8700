# Colander: a TLA+ development

Colander (`src/`) is a Rust library that compiles form schemas, evaluates form
rules, validates responses and a subset of JSON Schema, and exposes all of it
through a C ABI. It is sequential and keeps no state between calls: each entry
point is a pure function of its arguments. What is hard in it is not
concurrency but *order*: which expression runs before which, which check ends a
field's checks, what is memoized when, which budget is charged before which
step, and whether two paths that promise the same answer give it. The one actor
besides the library is its client, whose calls, buffers and published versions
outlive a call.

Every action below is one step of one call (or one call of a client), and a
behaviour of a specification is one call, or one client's sequence of calls.

## Inventory

| part | source (`src/src/`) | state during a call | operations | what makes it correct |
|---|---|---|---|---|
| rules analyzer | `rules/analyze.rs`, `refs.rs`, `shape.rs` | dependency lists, in-degrees, queue, order | structural checks, topological sort | a calculated value is computed before it is read; a cycle is reported iff there is one; what it accepts the evaluator can run |
| rules evaluator | `rules/evaluate.rs`, `rows.rs` | working values, row set, per-row outputs | calculations, predicates, validations | the result is a fixpoint of the rules; a row sees its own values; the two entry points agree |
| values | `rules/value.rs`, `expression.rs`, `number.rs` | none | convert, compare, add, normalize, spell | one order, one equality, exact integers; a value sent back is the value |
| form semantics | `semantic.rs`, `index.rs`, `describe.rs` | id and code indexes, repeater topology, answer index | build, describe | the four indexes are of one form; a code identifies a field |
| response validator | `validate.rs`, `validate/*` | errors, normalized values | unknown keys, fields, repeaters, calculated fields, cap | which error is reported and which value is kept, by mode and page; calls of one client agree |
| form compiler | `compile.rs`, `compile/*` | component sources, memo, resolution stack, layouts, budget, verified pins | resolve, verify, expand, clone, lay out, project | expansion is substitution, terminates, stays within budget, uses no component with a wrong pin |
| JSON Schema subset | `schema.rs`, `schema/*` | visited nodes, ancestors, error sink, step and depth budget | classify, evaluate, probe, render | classification bounds evaluation's recursion; a stop is final and visible; the verdict is the schema's meaning |
| codecs and JSON | `codec/*`, `json/*` | parser position and depth, open keys, the text written so far | parse, stream, write, pack, unpack | both readers of a text agree; a document one codec decodes survives both |
| versions | `semver.rs` | none | parse, order, bump | the next version is the least newer one of its kind |
| hash, patterns | `hash.rs`, `pattern.rs` | none | digest, match | equal documents have equal digests |
| C ABI | `ffi/*` | the stage of a call, blocks the caller owns | dispatch, alloc, free | no panic leaves the library; every call is answered by one envelope that says what happened |

How they interact: an ABI entry point parses a request and calls one part.
`colander_compile` runs the compiler, which calls the analyzer on the expanded
rules and, for every pinned component, runs a second compilation to compute a
digest. `colander_evaluate_rules` calls analyzer and evaluator;
`colander_validate_response` builds the evaluator's inputs from the submitted
answers (`flatten_for_rules`, `RowSet`), runs it, and reads its results back per
field and per row. `colander_validate_schema` runs the schema subset alone.
Everything crosses a call through arguments and return values; the shared state
within a call is what the table lists.

The behaviours that are hard to test are in `PROJECT.json` under `hazards`, each
at its line: memos and chains consulted in one order or another, positions
counted over two different sequences, stale values showing through a template,
budgets shared by probes, number formats at the edge of their precision, and
sequences of calls that have to agree, two readers of one text, four indexes of one
form, the panic boundaries of one call.

## Modules

| module | models | built on |
|---|---|---|
| `ReadyOrder` | what the analyzer's sort promises: fields are placed when all they need is placed; reject when stuck | - |
| `DependencyOrder` | `topological_sort`: loops, degrees, FIFO queue, verdict | implements `ReadyOrder` |
| `RuleEvaluation` | the evaluator's single pass over one form with a repeater, from both entry points | takes the order from `DependencyOrder` |
| `RuleEvaluation_proofs` | theorems of `RuleEvaluation` | |
| `ExpressionValues` | one binary expression from operands to a stored and resubmitted value | |
| `ExpressionValues_proofs` | theorems of `ExpressionValues` | |
| `ResponseValidation` | `validate_response` and a client's calls of it | uses an abstract evaluation with the evaluator's row scope |
| `ResponseValidation_proofs` | theorems of `ResponseValidation` | |
| `ComponentExpansion` | component references: stack, memo, sources, budget, layouts, pins | |
| `ComponentExpansion_proofs` | theorems of `ComponentExpansion` | |
| `SchemaClassify` | the classification walk over a schema document | |
| `SchemaCheck` | `check`: the walk, then evaluation under one budget, then rendering | extends `SchemaClassify` |
| `SchemaCheck_proofs` | theorems of `SchemaClassify` and `SchemaCheck` | |
| `IndexMaps` | `indexmap::IndexMap`: a map in order of first insertion | - |
| `FormIndex` | the id, code and answer indexes, the repeater topology, the description's order | `IndexMaps` |
| `RuleAnalysis` | the analyzer's structural checks, then the evaluator's walk over an expression they accepted | takes the indexes of a form as given |
| `FormRules` | the two together: the checks over the indexes built of a form | extends `RuleAnalysis` with `FormIndex` |
| `Analyzer_proofs` | theorems of `DependencyOrder` and `RuleAnalysis` | |
| `JsonText` | the two JSON readers, token by token over one text | `IndexMaps` |
| `JsonText_proofs` | theorems of `JsonText` | |
| `MessagePack` | the MessagePack reader and writer over scaled widths | extends `JsonText` |
| `Codecs` | both codecs over one document model; canonical text | extends `MessagePack` |
| `Versions` | version texts, their order, bump and the next version | - |
| `CallContract` | what a caller of the ABI relies on: asked, answered once, released | - |
| `AbiBoundary` | one client, the three stages of `dispatch`, buffers and strings | extends `Versions`, implements `CallContract` |
| `AbiBoundary_proofs` | theorems of `AbiBoundary` | |
| `MC*` | instances for TLC | |

### DependencyOrder and ReadyOrder

`dependencies[f]` is the set of references of a calculated field (`collect_references`
removes duplicates); fields that are not calculated may be among them and do not
count, as `topological_sort` looks up calculated ids only. One action is one iteration of one of the three loops
(`CountDependencies`, `SeedQueue`, `Dequeue`, `ReleaseWaiter`), plus `Conclude`,
which compares the two lengths. `SortInvariant` says what the degrees count and
who is in queue and order. The abstract `ReadyOrder` places any field whose
calculated needs are placed; the FIFO sort is shown to implement it.

### RuleEvaluation

Fields are codes; an expression is what it reads (`reads`, and `subjects` for what
it counts or sums) and an uninterpreted `Compute`, so two values are equal only if
they were computed from equal inputs. What a caller hands in (`Submitted`, kept as
`given`) and the objects of the repeater (`RowMaps`) have keys of any kind: child
codes beside the repeater, outer codes inside it, stale values of calculated fields.
`PrepareRows`/`PrepareCount` are the two ways in: rows taken from answers, where
`flatten_for_rules` leaves the last row's children in the flat values
(`FlattenedAnswers`: the answers come in any order, so a key beside the repeater is
overwritten by the rows or overwrites what they left), and rows given as values,
where `ffi/rules.rs` copies every key. `CalculateOnce` and
`CalculatePerRow` are one iteration of `apply_calculations` each, write-back into
rows included. The order of calculations is any that respects dependencies, which
is what `DependenciesComeFirst` proves of the sort.

### ExpressionValues

Integers of `IntBits` bits and doubles of `Precision` bits with the shape of `i64`
and `f64`. One behaviour evaluates `op(left, right)`, normalizes, stores and sends
back. Conversion is by what it does: strings parse to a listed value, a raw JSON
value does not convert, casts saturate, products wrap, digits are the shortest
that read back, and from `ExponentForm` on a double is spelled with an exponent.

### ResponseValidation

`Validate` is the whole of `validate_impl`: hand-off, evaluation, unknown keys,
fields, repeater, calculated fields, cross-field assertions, cap. Answers are the
tokens the checks tell apart, and those that conversion or spelling changes: a whole
number with a point (`float`, `7.0`), an integer beyond 2^53 (`exact`), a double
whose digits read back as another integer (`rough`), a number beyond doubles
(`infinite`, `1e400`), a date in a spelling of its own (`variant`). The rules read the
answer as it was sent; what is normalized is `AsKept`: converted to the field's type
(`Converted`) and written (`Spelled`). What is sent back is read anew, so the rules may
then read another token. The behaviour is a client's `Script`: draft, the two
pages, a page that does not exist, the submission, and `Resubmit`, which sends the
normalized answers back. A form has one calculation per calculated field, which reads
an answered field (`IsForm`); calculations of calculations are `RuleEvaluation`'s.

### ComponentExpansion

A compilation context has a resolution stack of frames (`compile_field_array`'s
loop is a frame's `next`), the set of sources taken, the memo, layouts and budget;
`contexts` has a second one while `component_hash` recomputes a pin. Actions:
reject a reference, compile a plain field, begin/finish a verification, resolve,
expand for the first time, clone from the memo, finish a component or the form.

### SchemaClassify and SchemaCheck

A node is the address of a JSON value at a subschema position, a document a
function from nodes to keywords; JSON being a tree, a node is held by at most one
keyword. `path` is the recursion of `walk`, one frame per ancestor with the
keyword its loop has come to; `seen` is the memo. `SchemaCheck` threads a *run*
(remaining steps, depth, sink, stop) through every call in the order of
`check_node`, and renders the result. Each operator is given `below`, which is
`check_into` one level down; `Evaluation` is `check_into` with as many levels below
it as the depth bound allows to be entered, and one more, where it only stops. A
loop of the code is a list of steps, each a function of runs (`Through`), that stops
with the run (`UntilStopped`).

### FormIndex and RuleAnalysis

A field is what the indexes read of it: id, code, type, nested fields, the keys of
it that are ill-typed. Each walk of `index.rs` and `semantic.rs` is a fold over the
fields, depth first, that threads one outcome record and adds nothing once it has an
error; a field is named by its path. What they make of a form is open in
`RuleAnalysis` (`SemanticsOf`, `AnswersOf`): it says how the checks read the indexes,
and `FormRules` that these are the ones `FormIndex` builds. `RuleAnalysis` first takes them
(`BuildSemantics`), then checks the containers and one entry of the rules document
per step (`CheckEntry`), with the five checks of an expression in their order. An
expression is a JSON node that may carry `ref`, `lit`, `op` and `args` at once, as a
JSON object may. When the document has passed, `Evaluate` takes any of its
expressions and the evaluator descends through it one activation at a time,
recording what it reads; values are left open, so a fold may stop after any operand
and an operator may fail on a value wherever its operands need not convert. The
recursions over an expression go by levels: `ShapeErrors[l]` and `Collected[l]` are
what the check and the collector say of a node with at most `l` levels in it, made of
what they say of its operands at the level below; `MaxNesting` is the readers' depth
bound, so the highest level is the recursion of the code.

### JsonText, MessagePack and Codecs

`dom` and `stream` are the two readers of `json/parse.rs`, each with its stack for
the recursion of its calls. `stream` keeps the text it has written, the keys of all
open objects with their hashes and the offset at which the innermost object's keys
begin, as the code does; `Read` gives both the next token. `MessagePack` writes and
reads elements (tags, bytes, contents) with integers of base-4 bytes, so that one,
two, four and eight of them hold few enough values to enumerate around each limit.
A behaviour of `Codecs` reads a text or receives a wire, for as long as the decoder
asks for more; in every state the documents at hand are written and read back by
both codecs.

### Versions, CallContract and AbiBoundary

A call goes through `Decode`, `Body` and `Encode`, the three closures that
`catch_unwind` guards, and each may panic. A request is the state of every key its
entry point may read (absent, right type, wrong type); `KeysRead` lists for every
branch of the entry points the keys asked for and whether they are required.
What the core answers is open, except for `colander_next_version`. The client takes
buffers (of length zero or too large included), sends pointers that lead to
anything, releases buffer and string in either order, and publishes versions,
colander's own and others, in any order; these go into later requests.

## Runs

Each run names its question in `PROJECT.json`. In short:

| run | bounds | shows |
|---|---|---|
| `dependency_order` | every document over 3 fields | the sort ends, orders, and rejects exactly cycles; refinement of `ReadyOrder` |
| `rules_evaluation` | 2 rows and an element that is no row, keys of every kind beside and inside the repeater, chains, diamonds, sums over calculated columns, cyclic documents | one pass is a fixpoint; rows, working values, results and what predicates see agree |
| `rule_analysis` | every form of 3 fields in any nesting, ids and codes repeated or not; two repeaters with every expression of depth 2 and a choice of depth 3, in four positions | the indexes of an accepted form agree; an accepted expression reads only what was analyzed, and fails on its shape only in a nested aggregate |
| `expression_values` | 43 operands around each limit, six operators, three field types | order mirrors and is numeric, one equality, exact integers, an integer survives its round trip |
| `response_validation` | four suites: the flags of a field; calculated fields and assertions; repeater access, bounds and rows; types of what the rules read, in every spelling, with a calculation that tells a double from an integer | draft, page, submission and resubmission agree; nothing dropped; honest cap |
| `component_expansion` | every reference graph of 3 components with at most 2 references, pins right, wrong or absent | verdicts exact, memo invisible, budget and layouts right, expansion ends |
| `schema_check` | 6 nodes, every combinator and container keyword, references to every node, 4 instances | no false and no missed recursion among definitions, verdict is meaning, a stop is reported, the walk ends |
| `codecs` | texts of up to 11 tokens over 3 key spellings with colliding hashes, nesting limit 2; wires of up to 5 elements | the two readers agree on every text, whatever is open; documents survive both codecs; a wire is read whole |
| `abi_session` | every combination of key states of every entry point; versions of numbers 0..2, two published, both kinds of build | the envelope says what happened, no wrong type passes, nothing leaks, the next version is the least newer; refinement of `CallContract` |
| `mixed_order`, `row_scope_answers`, `recursion_missed` | as the run beside it | a promise of the documentation the code does not keep (see Findings) |

Why the bounds are enough: three fields or components give every shape of cycle
and diamond a step can meet (a node that is on a cycle, hangs off one, or is
shared); two rows distinguish own, other and last row; the number formats keep
`2^Precision < ExponentForm < 2^(IntBits-1)`, so each limit is straddled by
operands. `MaxZeros = 3` is one more than the digits a value of that size can drop. In `schema_check` the depth bound of 4 and `BaseSteps = 4,
StepsPerNode = 1` are small enough that the depth limit is met in the walk and in
evaluation, the step limit inside probes of each combinator, and the collection
cap of 3 is full when a stop arrives; documents that pass all of them occur too.
`MaxFields = 14` and `MaxBytes = 60` are met by some form of three components and
not by others; `MaxErrors = MaxBytes = 4` likewise cut some error lists. In `codecs`
11 tokens close an object within an object with a key repeated at either level and
another object after it, which is what the offsets of the streaming reader have to
survive; a fix tag holds lengths up to 1, so lengths 1, 2 and the base-4 limits of
each wider tag are met, and the smallest integer that only an unsigned tag of eight
bytes holds. In `abi_session` two published versions are enough for the latest to
come first or last, and numbers up to 2 for a bump to be in range, at the limit or
beyond it; calls other than `next_version` are made before anything is published and
without a buffer, as neither bears on them.

The mutants in `PROJECT.json` each put one plausible bug in the code's place and
break one property; their definitions stand before the definition they replace
and are marked `Mutated`.

## Fairness

There is one thread and a call runs until it returns, so weak fairness of the steps
of a call is what the program's execution gives. It is assumed in the `FairSpec`s of
`DependencyOrder` and `ComponentExpansion`, of the walk only in `FairCheckSpec` (the
evaluation is one step there), and of `Library` in `AbiBoundary`: an entry point runs
to its end in the thread that calls it, while a client need never call. `RuleEvaluation`,
`RuleAnalysis`, `Codecs`, `ResponseValidation` and `ExpressionValues` need none. Each
liveness property is that a loop, a recursion or a call ends; that of a call is part
of the contract it implements.

## Proved

TLAPS checks the following for every value of the constants, from the assumptions
named in the modules. They say what the constants stand for, and TLC evaluates each
of them on the instances:

| assumption | of | says |
|---|---|---|
| `NAssumption` | `DependencyOrder` | how many fields there are |
| `ExpressionsAssumption`, `NoneAssumption`, `DocumentsAssumption` | `RuleAnalysis` | expressions hold expressions, nested no deeper than a reader reads; no error is no error's code; the entries of a rules document are a list and hold expressions |
| `CodesAssumption`, `KeysAssumption`, `DocumentsAssumption` | `RuleEvaluation` | fields, children and the repeater are different codes; what is handed in and what a row holds are under codes of the form; documents read codes of the form, a child in its own row only |
| `FormatsAssumption`, `ValuesAssumption`, `OpsAssumption` | `ExpressionValues` | as for `i64` and `f64`, doubles have at least two bits and are exact up to a number below the exponent form, which is below the largest integer, and ticks are a power of two; operands and texts are values; operators are those of the dispatch |
| `ClientAssumption`, `SuitesAssumption` | `ResponseValidation` | page checks are complete; the cap leaves room for its summary entry; calculations and the leading predicate read answered fields, and make values or fail, doubles for fields of numbers only; a submission holds an answer for every field |
| `BoundsAssumption`, `RequestsAssumption` | `ComponentExpansion` | bounds are numbers, at least one level of nesting, finitely many components; forms and components are lists of fields |
| `SchemaAssumption` | `SchemaClassify` | in a document a subschema is held by one keyword, and the root by none; the depth bound is at least one |
| `CheckAssumption`, `InstancesAssumption` | `SchemaCheck` | the budget's two terms are numbers, the two caps are at least one; an instance is a finite tree |
| `TokensAssumption` | `JsonText` | token classes do not overlap; escaped spellings of a key name one key; what no text can spell (an infinity) is no scalar of a text |
| `RequestsAssumption` | `AbiBoundary` | a request gives each documented key a state, and a key within another only with that other |
| `IntAssumption` | `Versions` | the largest integer is a number |

* `Analyzer_proofs`, of `DependencyOrder`. The inductive invariant is `TypeOK` with
  `SortInvariant`: a degree is the number of listed dependencies
  whose release has not happened, so a zero degree means that all are placed.
  From it: `DependenciesComeFirst`, `CyclesAreNeverPlaced` (the members of a
  blocked set keep positive degrees), `CycleVerdictIsExact` (when the queue is
  empty the unplaced fields are a blocked set), and `ReadyOrderImplemented`.
* `Analyzer_proofs`, of `RuleAnalysis`: `ReadsAreAlwaysAnalyzed` and
  `ShapeFailsOnlyInNestedAggregates`, whatever indexes are built of a form. The
  walk of the evaluator and those of the check and the collectors are different
  recursions, over the same tree but in steps of one and at once; `WalkInvariant`
  ties them together. Of every activation on the stack it says that the shape check
  passed its node at the level that is left, and that what each collector makes of
  the node, from some set of codes it may have seen by then, is part of what it made
  of the whole expression (`Covered`). A collector only ever adds to that set
  (`CollectorsGather`), so what it made of an operand is in what it made of the
  operator (`OperandCovered`), which is what evaluating an operand needs. That only
  aggregates below the root can fail on their shape is the one check of arguments
  that is made of the root alone.
* `RuleEvaluation_proofs`. `EvaluationInvariant` says that what ran had its needs
  run before and that no later step writes what an earlier one read; that makes
  `OnePassIsFixpoint` inductive though the stores change under it. Also
  `StoresStayInAgreement`, `CountIsRows`, `PredicatesSeeResults`, and
  `ValuesKeepRowScope`: from values, a per-row calculation reads its own row, what
  the caller handed in beside the repeater under a code the row lacks, or what was
  calculated outside, and never another row.
* `ExpressionValues_proofs`. `OrderAlwaysMirrors`, `OrderIsAlwaysNumeric` and
  `NumbersHaveOneEquality` are facts about `compare_values` for number formats of any
  size, by the cases in which the code compares as integers, as doubles or as texts. `NonzeroArithmeticIsExact` needs an invariant,
  `ValueInv`: that an integer result is the exact one does not say that normalization
  keeps it, so the invariant holds the value to the *spelling* the exact result has,
  before normalization and after. Powers of two are a recursive function; that they
  grow is proved by induction over the set of exponents for which it holds.
  `IntegerIsAlwaysAccepted` says that an answer to an integer field, sent back, is
  accepted and unchanged, for every format. Its invariant, `EchoInv`, says what the
  stages keep of a result: a double that is stored in the range of exact integers is
  the double of the digits it is spelled with. The argument is about gaps. A
  multiple of `2^j` whose quotient fits the precision is a double (`NearestIsNear`,
  `EvenIntegersAreDoubles`), what lies above `2^P + 1` is read as a double above
  `2^P` (`LargeIntegersStayLarge`), so the only even integer that reads as an even
  double within the precision is that double (`OnlyItsOwnIsEven`), and digits that
  were dropped leave an even number behind (`DigitsAreTheInteger`).
* `ResponseValidation_proofs`. The invariant (`CallsAreOfCurrentAnswers`) says that a
  call that returned was computed from the answers the client holds now, and that
  what was sent back came from a clean submission. The properties relate two calls,
  so each rests on what the lists of errors *are*: `AllFound` shows the list of a call
  to have, as a set, the findings of its fields, rows and rules (`Finds`), through the
  flattening of lists of lists of any length. Then `DraftIsAlwaysWeaker` and
  `PagesAlwaysAgree` compare sets of findings, `CapIsAlwaysHonest` shows that the cut
  list is the whole list or ends in the summary, `NothingIsEverDropped` that a clean
  field or cell keeps what it was given, as it is converted and written
  (`CleanSubmission`, `CleanRows`), and `AcceptedIsAlwaysStable` that what is sent back
  (`SentBack`) reads the same to the rules (`ReadAsWritten`), calculates the same, is
  judged the same as it is written (`WrittenIsJudgedAlike`, `WrittenIsSame`) and is
  written the same again (`WrittenOnce`).
* `ComponentExpansion_proofs`. `SourceAlwaysAccounted` and `VerdictAlwaysExact`, with
  nested verification of pins. The invariant `IInv` says of either context (`Sound`)
  that the stack is a path through the reference graph, each frame where its lower
  neighbour's field points and with all earlier fields done (`Path`); that the memo
  is closed under references and acyclic; and that whatever lost its source is on the
  stack or in the memo (`Memo`). A cycle is reported when a reference leads to the
  path, which makes it one; what reaches the memo refers to the memo only, so it is
  acyclic and complete. `OutputAlwaysUnfolds`, `BudgetAlwaysCoversOutput` and
  `LayoutsAlwaysFollow` say that the memo cannot be seen in what is produced: the
  output is substitution carried out in full, the budget charged is at least what it
  holds, the layouts are those of the references met. Their invariant follows each
  field of the form or of a component to the nodes it was spelled as, says that the
  memo is closed under references and that an unfolding as deep as the memo has
  members is complete for them, that what was charged exceeds what was written by
  what is still to be written, and that a layout is recorded for each field that
  expands a component, plain or cloned.
* `JsonText_proofs`. `ReadersAgree`: `parse` and `ordered_stream` expect the same, fail
  together and have the same containers open in every text. While both read, the keys
  the stream recorded from each mark on are those of the entries the value reader
  built in that container (`SeenByContainer`), which is `SeenAreAlwaysOpenKeys` and,
  for the step that reads a key, `RepeatsAreAlwaysNoticed`: the stream gives up
  exactly when the value reader overwrites an entry. The latter is an action property.
  `StreamIsAlwaysOrderedParse`: when both have read the text, what the stream wrote
  is, member by member, the spelling of the document the value reader built, in the
  order of the text. Inductively (`Told`): the text written so far is that of the
  open containers from the outermost in, each the spelling of the entries finished
  in it and, in an object, of the key that waits for its value; closing a container
  makes the text since its opening the spelling of one finished value.
* `AbiBoundary_proofs`. Whatever the calls are, and whatever the core makes of them:
  `EnvelopesMatchStages`, `NothingIsLeaked` and `CallsFollowContract` (the safety part
  of the refinement of `CallContract`). The strengthening, `StagesRun`, says which
  stages have run by where the call is: without it an envelope could not be told to
  be of a body that never ran. `EnvelopesAreTruthful` adds that an `ok` comes of a
  request whose documented keys all had the right type: for every entry point and
  choice of form, the keys it reads are those it documents (`AcceptedIsRight`).
  `NextIsAlwaysLeastNewer` holds for any number of published versions: the latest is
  the last that no other precedes (`LatestIsHighest`), and a bump is the least above
  it with lower segments zero, unless the integer overflows.
* `SchemaCheck_proofs`, the walk. `RecursionErrorIsReal` and the absence of missed loops
  are not inductive alone. The strengthening says that the path is a descent
  through the document's keywords without repetition (`PathIsDescent`), and that
  the finished nodes, `seen` less the ancestors, are closed under descent and
  loop-free, and every keyword the walk has passed leads to a finished node or to
  the next ancestor (`BehindIsFinished`). Three lemmas, one per change of the path,
  keep it: passing a keyword, entering a node, leaving one. Leaving adds a node
  that leads into a closed loop-free set (`FinishOne`). Passing a held subschema
  needs that a held node is no ancestor (`HeldIsNoAncestor`): its only other way in
  would be a reference, which `ReferencesDefinitions` excludes. That hypothesis is
  exactly what fails in the run `recursion_missed`. `CheckIsWalk` carries these
  theorems over to `check`.
* `SchemaCheck_proofs`, the evaluation. `VerdictIsAlwaysMeaning` and
  `StopIsAlwaysReported` rest on one relation between the run a call is given and the
  one it leaves (`Verdict`): the depth is the same, the errors are within the cap, a
  stop is among them, and without one there are no errors iff there were none and
  what was looked at holds. It is shown of pushing an error or a stop, of a branch
  with a sink of its own (`BranchVerdict`), of loops that stop early (`LoopVerdict`),
  of counting the branches that match (`PassingCounts`), of each keyword, and of
  `check_into`, always from the same of the level below (`IntoVerdict`); then of all
  levels by induction (`LevelsAnswer`). `Meaning` goes one level beyond those
  evaluation may enter because `additionalProperties` looks at a boolean schema
  without entering it. What a schema would mean deeper is left open: nothing that was
  not stopped depends on it. `VerdictIsAlwaysEveryReading` says the same of readings
  that do not go by levels, any assignment of verdicts in which every node says what
  its keywords say by it. Inductive over the call is only that the document is one.

Some definitions were given a form the prover can take apart: a loop over a list
that leaves elements out flattens a list of empty and one-element lists
(`RowPositions`) or passes over what was not chosen (`ErrorsOf`), the closure of
references is the least set with its property (`ReachableFrom`), and a loop or a
recursion that carries a value is a recursive function (`Latest`, `Pow2`, `Pow10`,
`Total`, `Unfolding`, `Documents`, `Written`, `Through`, `Evaluation`, `ShapeErrors`,
`Collected`), over numbers: of a tree, its levels. Functions that are applied one argument at a time stand for
functions of several, which the provers do not take.
They mean the same; the runs find the same states. Induction is over the *set* of
numbers, or of members of a finite set, that have the property (`SetInduction`), as
the provers cannot instantiate an operator.

Left to TLC:

* liveness: fairness and ENABLED are beyond the prover;
* the invariants about `FormIndex` and `MessagePack`: `IndexesAgree`,
  `DecodedSurvivesBothCodecs`, `PackedIsExact`. Their operators are recursive over
  trees.

## Findings

With a run and its counterexample:

1. `mixed_order`: an integer against a fractional double is ordered the wrong way
   round (`rules/value.rs:210`): `gt(1, 2.5)` holds.
2. `row_scope_answers`: in `validate_response` a row that omits a child reads the
   last row's value of it (`rules/evaluate.rs:216`). Through the same template a
   child code handed to `evaluate_rules` beside the repeater (`ffi/rules.rs:25-30`)
   reaches the rows that lack it; `RowScopeOfValues` allows that and nothing else.
3. `recursion_missed`: a reference into a subschema that the walk reaches by
   position hides a loop (`schema/classify.rs:226`).

Seen while modelling, without a run of their own:

* `rules/expression.rs:107`: the zero guard meant for division sends `x + 0`,
  `x - 0` and `x * 0` through doubles, so `9007199254740993 + 0` loses its last
  digit; `docs/rules.md:92-93` says integer arithmetic is exact.
  `NonzeroArithmeticExact` therefore asks for a right operand other than zero.
* `validate/calculated.rs:63`: SPEC V-11's exact range is checked of doubles only;
  an exact integer beyond 2^53 is stored.
* `rules/number.rs:100-103`: near the edge of `i64` the casts saturate and the
  product of a step wraps.
* `json/write.rs:254`: a double of 2^53 or more below 1e17 is spelled as an integer
  whose value differs, so a *number* field's value may be refused when sent back;
  `IntegerResubmissionAccepted` is about integer fields, and `ReadAsWritten` excludes
  such a calculated value.
* `validate/calculated.rs:181`: the rules read the literal the client sent, the
  normalized answers hold the converted value. With `total = div(n, 2)`, `n` sent as
  `7.0` is a double and gives 3.5; it is normalized to `7`, and that, sent back with
  its total, is an integer, which `div` divides without a remainder: an accepted
  submission is refused as `CALCULATED_VALUE_MISMATCH`. Dates and times are rewritten
  likewise. `AcceptedIsStable` is therefore stated of answers that normalization leaves
  to the rules as they were (`ReadAsWritten`).
* `validate/conversion.rs:74`: a number field turns an integer beyond 2^53 into the
  nearest double without an error, as `docs/documents.md:71` says and SPEC V-11 ("The
  core never rounds a client's exact integer away in silence") denies.
* `validate/conversion.rs:74`: a number field without a maximum accepts `1e400`, and
  its normalized value is null. `NothingDropped` names the exception.
* `compile/fields.rs:182`: a clone's layout is built from what was last recorded
  for its inner ids; `LayoutsFollowReferences` assumes that an id names one
  component (`OneComponentPerId`), and so says nothing of a layout overwritten by
  another component.
* `schema.rs:172`: rendering keeps the step limit visible among five messages, the
  depth limit not.
* `validate/repeater.rs`, `gate_repeater_access`: the answer of a hidden or disabled repeater that is
  no array is dropped without an error; `NothingDropped` names the exception.
  `AcceptedIsStable` is stated of submissions without members that are null, blank
  or `{}`, or are kept as null.
* `validate/calculated.rs:163`: a calculated integer or calculated child outside its
  constraints is published, where `docs/gotchas.md:106-110` says calculated values are
  held to them.
* `validate/repeater.rs:173`: positions of calculated values count usable rows and
  those of the output all elements, so an element that is no object shifts the
  calculated values of the rows behind it (SPEC E-9).
* `compile/fields.rs:113`: clones from the memo are not counted in the nesting bound
  (SPEC P-1).
* `rules/analyze.rs:190`: the arguments of an aggregate are checked at the root of an
  expression only. One nested below another operator passes with an argument that is
  no reference, and evaluation fails on its shape, against SPEC R-12 and
  `rules/shape.rs:8-9`. `ShapeFailureOnlyInNestedAggregate` says that nothing else
  does. The second argument of `sum` is no reference the analyzer looks up.
* `index.rs:99`: of two fields with one id the earlier is replaced in the id index
  before the code index looks, so a duplicate code can vanish with it and R-5's error
  is not given. `IndexesAgree` is stated of forms with distinct ids.
* `index.rs`, `semantic.rs`: `items` of a field that is neither group nor repeater are
  indexed, but no answer to them is ever accepted; a repeater without `items` inside a
  repeater is a child that can be answered and has no row scope. `IndexesAgree` names
  both.
* `ffi/schema.rs:95`: `read_schemas` does not look at the entries of `schemas` it has
  no document for, whatever their type (`Ignored`), where C-8 rejects a wrong type.
* `semver.rs:103`: a bump of 2147483647 is a panic in a debug build and the answer
  `1.0.-2147483648`, `ok: true`, in a release build, which no later request accepts
  (E-6, P-5). `NextIsLeastNewer` has both outcomes, for a full segment only.
* `codec/messagepack.rs:264`: `1e400` packs as an infinity, which unpacks to a Number
  whose text is `null` (`json/write.rs:214`): it reads back as null, and packing it
  again takes the branch at 119-121 that is called unreachable.
* SPEC C-11: "Every failure carries a branchable `SCREAMING_SNAKE` code". Several carry
  a message only, a missing `schemas` among them (`ffi/schema.rs:99-104`).

## Not modelled

`PROJECT.json` lists every part with the reason. In short: recognisers of single
strings (formats, patterns, dates), the characters within a JSON token, SHA-256,
verbatim copying of UI and rules documents, the labels of descriptions. Within the
modelled parts: `and`/`or`/`not`/`coalesce`/`empty` and fractional decimals in
`ExpressionValues`; more than one repeater in `RuleEvaluation` and
`ResponseValidation`, which the code handles with the same loops and shares
nothing between; numeric equality and hashing in the schema subset; float32 in
`MessagePack`; the text of an error's message in `AbiBoundary`.

## Plan

The order was: the sort and the evaluator (everything else trusts their order),
values, the response validator, the compiler, the schema subset, then the form
indexes with the structural checks, the codecs, and the ABI with versions. What is
left:

1. `Constraints`: bounds, lengths and steps of values and their conversion
   (`validate/constraints.rs`, `validate/conversion.rs`), with the calendar of
   `validate/datetime.rs` and `schema/format.rs`, whose two notions of a date should
   agree.
2. `JsonStrings`: escapes and surrogates of the two JSON readers.
3. `ComponentExpansion`: a bound on the work of all verifications together.
4. Proofs: termination measures stated as invariants.
