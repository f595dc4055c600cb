# Sayf in TLA+

Sayf keeps the causal history of a software project in an append-only ledger:
records (change sets, evidence, verification receipts, gate decisions,
releases, feedback) and typed relations between them.  What is valid, fresh,
permitted or released is never stored; it is derived by replaying the ledger.
This directory holds TLA+ models of that system, the TLC runs that check them
and proofs that TLAPS checks.

## 1. The system

| Component | State | Operations | Hard part |
|---|---|---|---|
| Event ledger (`storage.py`, `semantic_append.py`) | one SQLite table of hash-chained rows | `append`, `append_if_ledger_head`, `events`, `verify` | processes race for the head; busy, failing and dying callers; replaced files |
| Initialization (`storage.py: initialize`) | directory: ledger file, pending marker, sidecar lock | `initialize` | power loss between any two file-system calls; foreign files; stale authority to recreate |
| Artifact store (`artifacts.py`) | directory tree of objects | `put_file`, `put_bytes`, `verify`, `read_bytes` | publication races, durability of directories created by others |
| Causal graph (`graph.py`) | derived | replay, `neighbors`, `provenance_paths` | bounded walks over cycles |
| Effective state (`state.py`) | derived: validity, revision, freshness of each record | `bind_dependency`, `invalidate`, `supersede`, `affected` | cycles, canonical causes, invalidated invalidators, supersession lines |
| Gates (`gates.py`) | derived | receipts, policies, requests, evaluation, freshness | one decision per request, decisions that outlive their inputs |
| Feedback (`feedback.py`) | derived | releases, observations, cases, application, `why`, `impact`, `timeline` | unique refs, releases of stale permits, application in two appends |
| Repository (`causal.py`) | none of its own | every typed operation | validate on a snapshot, append on a ledger that may have moved; the retry loop of `apply_feedback` |
| Records, hashing, ids (`records.py`, `domain.py`, `hashing.py`, `ids.py`) | none | contracts of typed bodies, canonical JSON, SHA-256 | what the plain store wrote must meet the same contracts when it is read |
| Command line (`cli.py`) | none | parsing, printing, reservation of semantic event types | only the reservation |

How they interact.  A typed call of the repository reads a verified snapshot
of the ledger in one read transaction, derives graph, states, gates and
feedback from it, validates, builds one event and appends it under
`BEGIN IMMEDIATE` if the ledger's length and head hash are still the
snapshot's.  Nothing is shared but the file: clients are processes or threads,
and the only synchronisation is SQLite's write lock and the comparison of the
head.  Registering an artifact writes the object to the artifact store first
and appends its record afterwards.  Every append first runs `initialize`.

What makes each part correct, in the order of the modules below: rows validated
on exactly the history below them and acknowledged rows kept; a ledger that can
always be recovered until it is ready and never recreated afterwards; objects
that are on disk before the ledger names them; a ledger every replay accepts;
states that are exactly reachability over bound dependencies and never improve;
permits and releases that count as fresh only while they would be granted
again; feedback that is applied once, by eligible cases only.

## 2. Modules

| Module | Models | Notes |
|---|---|---|
| `AppendLog` | what the ledger promises | abstract: one event at a time, admissible for the history it lands on |
| `Ledger` | `append`, `append_if_ledger_head` | clients, write lock, transactions, errors, crashes, restored copies |
| `LedgerProofs` | | theorems about `Ledger`, refinement of `AppendLog` |
| `LedgerFile` | `_verify_connection`, `compute_event_hash` | rows in the file, another tool that edits them, typed appends |
| `LedgerFileProofs` | | theorems about `LedgerFile` |
| `LedgerInit` | `initialize` on POSIX and on Windows | directory entries as seen and as on disk |
| `LedgerInitProofs` | | theorems about `LedgerInit` |
| `ArtifactStore` | publication of artifacts on POSIX, registration | as `LedgerInit`, for a tree |
| `ArtifactStoreProofs` | | theorems about `ArtifactStore` |
| `Records` | contracts of typed bodies in `records.py` | operators on a body |
| `CausalHistory` | replay and lookup of `graph.py`, `state.py` | operators on a history; extends `Records` |
| `Gates` | `gates.py` | operators on a history |
| `Feedback` | `feedback.py` without the explanations | operators on a history |
| `Operations` | the typed operations of `causal.py` | operators: is a call accepted on a snapshot, which event does it build |
| `HistoryProofs` | | lemmas on the operators above and on those of `Explain`: histories that grow, builders against replay, the searches |
| `Repository` | `causal.py` | state machine: clients, snapshots, appends, `apply_feedback` |
| `ForeignHistory` | typed operations and the plain `append` on one ledger | state machine: what may be in a ledger that not only Sayf's repository wrote |
| `ForeignHistoryProofs` | | theorem about `ForeignHistory` |
| `FeedbackCase` | what `apply_feedback` promises | abstract: one case, its callers and their answers |
| `FeedbackCaseProofs` | | theorems about `FeedbackCase` |
| `Explain` | `_derive_explain_edges`, `why`, `impact`, `timeline`, `neighbors`, `provenance_paths` | operators on a history; the searches turn by turn, with their bounds |
| `ExplainProperties` | | what the answers must be, over the histories of `Repository` |
| `RepositoryProperties` | | what must hold of the repository |
| `RepositoryProofs` | | theorems about `Repository` and `ExplainProperties` |
| `MCLedger`, `MCLedgerFile`, `MCLedgerInit`, `MCArtifactStore`, `MCRepository`, `MCForeign`, `MCExplain` | | instances for TLC |

### From code to model

*The ledger* is the sequence of committed events.  The hash chain is a free
constructor: `HeadHash` of a history is the history it commits to, so a
collision is excluded and everything else that a hash can tell is kept.  In
`Ledger` a call is taken apart: snapshot, `BEGIN IMMEDIATE`, the comparison of
the head and the search for the id, `INSERT`, `COMMIT`, return.  Any step may
meet a database error (busy timeout, failed commit, full disk: rolled back and
reported) or the death of the process (after `COMMIT` only the answer is lost).
`Restore` is what a user may do to the file: an earlier copy comes back.
`Admissible` is a parameter, so what is shown holds for every typed validation;
`Repository` gives the concrete ones.

*In `Repository`* the append is one step, `AppendEvent` or `RefuseAppend`:
`Ledger` shows that this is what callers see.  A call that is refused on its
snapshot changes nothing and is not a step.  `HeadIsAt` compares lengths, as
histories only grow there.  Ids are given by the caller of the model: a random
id is one nobody else has in the menu; equal ids in a menu are the clashes.
An activation's event id is random and is named by its place in the history.
Content hashes are left out: within one ledger an id determines its content
(it is immutable), so a binding of id and hash is the id.  An
`effective_state_hash` is the state it hashes, an authority fingerprint is the
status it covers.  `apply_feedback` is modelled statement by statement, each
with the snapshot it reads: the top of the loop, `create_relation`, the
qualification and the look at the latest state after a caught error.

A process that dies inside `COMMIT`, when its journal is on disk and not yet
removed, leaves that journal behind (`hot`).  Snapshots and the check before every
append open the file with `mode=ro`: they cannot roll a journal back and fail
while there is one (`JournalError`).  `RollBack` is somebody opening the file for
writing: another program, or an append that had made its check before the death.
`Ledger` needs no such variable: there a client may meet a database error in any
step and any number of times, so a ledger that nobody can read is a history in
which everybody does.

*The derived views* are operators on histories: `States`, `Evaluate`,
`DecisionFresh`, `ReleaseFresh`, `ApplicationState`.  The code has two sets of
checks, the builders' (on the snapshot: `May...`) and the replay's (on the
prefix before an event: `...Replays`).  Both are translated, each from its own
source, and the property `OnlyOccupationPoisons` compares them.

*Who else writes.*  In `Repository` a raw append is an event without
semantics, as `sayf ledger append` refuses the reserved types.  The store
itself (`SQLiteEventStore.append`) does not: in `ForeignHistory` it writes any
event of a menu at any time, well formed or not.  An event whose stream, shape,
version or content hash is wrong is `malformed`; one whose body breaks its
contract (`Records`) keeps its body and is refused by the replay.

*The file* in `LedgerFile` is the table itself: rows under their numbers, each
with its spelling, its event, the previous hash it claims and its own hash.  A
hash is the tuple of what `event_hash_payload` puts in, previous hash included.
Verification is said of all rows at once (`Verified`): each fits behind the one
before it, which is when the loop of the code ends without a failure.
Another tool changes contents, spelling, links and numbers, removes and swaps
rows, or gives a row the hash that fits; the table's unique columns stay
unique.  Here the head hash is a value computed from the rows; that `Ledger`
may take it for the history is `AppendsToSnapshot`.

*Explanations.*  The two searches of the code are one operator of `Explain`,
`Search`: a queue of paths, `Follow` for one turn of the outer loop, with the
bounds (depth, paths, steps looked at) as arguments.  The steps behind one
path are looked at together: nothing happens between them, and if a bound is
passed on the way the query is lost wherever that was.  The loop is the
iteration of `Follow`; `b.expansions + 1` turns are enough, as every path but
the first costs a step.  What a search must return is said without a queue
(`SimplePaths`, `Results`, `Looks`): a set of simple paths closed under adding
a step.  The three bounds are not alike: a query that finds too many results or
looks at too many steps is refused, but a path that is as long as the depth is
not followed any further, and nothing says so (`IsExact`).  Whole answers need a
depth of as many steps as there are records, as a simple path visits each at
most once.  The code allows a depth of 32, 1000 results (100 for provenance) and
100000 steps at most; the models leave these caps out, so that `Enough` can ask for
whole answers.  Rows of an answer keep what distinguishes them (kind, ends,
sequence number); texts are left out.

*Directories* in `LedgerInit` and `ArtifactStore` are two sets of entries, what
processes see and what the disk has; an fsync of a directory makes the second
agree with the first for the entries of that directory, and a power loss keeps,
of every entry on which they differ, the one or the other.  File contents are fsynced by the
code before they get their names (or by SQLite at `COMMIT`).  The directory the
ledger is in, and the artifact root, are there and durable from the start: what
`initialize` does to create missing parents is not covered.  On Windows
(`windows`, chosen at the start), fsyncs of directories do nothing, the marker's moves are on disk when they
return (`MOVEFILE_WRITE_THROUGH`) and the commit of the schema puts the
ledger's name on disk, as flushing a file does there.

## 3. What the runs check

| Run | Instance | Properties | What it shows |
|---|---|---|---|
| `ledger` | 2 clients, 5 events (two share an id, two exclude each other, one needs one of those), 3 rows, one restore | `TypeOK`, `HistoryReplays`, `SnapshotStillExact`, `AcknowledgedIsDurable`, `AppendOnly`, `ImplementsAppendLog`, `CallsEnd` | no interleaving with errors, crashes and a replaced file commits a row that was validated on another history, or loses a reported one; it is the head hash, not the row count, that a replaced file needs; refinement of the abstract log; every append ends |
| `ledger_file` | 2 clients, 4 events (two differ in content only), 3 rows, 2 edits | `NothingInvented`, `AppendsToSnapshot` | what verification notices, and that count and head are enough to compare |
| `init` | 3 processes on POSIX or on Windows, 2 power losses, 3 failures or deaths, 2 foreign writes | `TypeOK`, `ReservationIsRecoverable`, `SuccessIsDurable`, `NothingReinitialized`, `EventuallyReady` | the marker protocol, with fsyncs or with write-through moves; every state that a crash leaves is recovered in the end |
| `artifacts` | 2 processes, 2 digests in one shard, 2 power losses, 2 failures, 1 changed object | `TypeOK`, `RegisteredIsDurable`, `NeverReplaced` | bytes are durable before the record; objects are immutable |
| `cases` | 2 clients; *chain*: receipt, request, decision, release, observation, case, application, with clashes of ids and an invalidation at any point; *gate*: 2 evaluations of one request, 1 binding, 3 invalidations (one of an invalidator, one of the decision); *release*: 3 releases (two with one ref), 1 binding, 2 invalidations; *feedback*: both apply one case, 2 raw events, the evidence invalidated, a plain `invalidate` of the managed relation, 1 database failure or death inside `COMMIT`; *occupied*: a plain relation takes the id derived from the case | `TypeOK`, `OnlyOccupationPoisons`, `CallsAreAtomic`, `GivesUpOnlyWhenRaced`, `OccupiedIsClosed`, `FreshPermitIsEarned`, `FreshReleaseIsEarned`, `StaleForever` | builders and replay agree, typed calls are atomic, the retry loop; only a taken id closes a ledger, for good and for everybody; decisions and releases count as fresh while they would be granted again |
| `promise` | 2 clients; *duel*: 2 cases that target what the other rests on, 1 database failure or death inside `COMMIT`; *occupied* as above without the raw event | `RivalsExclude`, `ImplementsFeedbackCase` | no write skew between cases; each case keeps the abstract promise (refinement of `FeedbackCase`) |
| `feedback_live` | 2 callers that come back, the evidence invalidated, 2 database failures or deaths inside `COMMIT`, any number of other deaths | `CallsEnd`, `CasesSettle` | the loop ends; in the end a case is applied or not eligible, if journals that deaths left are rolled back |
| `views` | 1 client; *whole chain*: 2 more bindings, 2 invalidations and 1 supersession behind a chain up to feedback; *relations*: 6 relations over 4 records, with parallel ones, a cycle, a loop; *cycle*: 4 bindings (a cycle and a short cut; one is there), 2 invalidations, 1 supersession; *lines*: 2 bindings (one is there), 2 invalidations, 4 supersessions that cannot all hold; all in every order | `OneCurrentRevision`, `StalenessIsReachability`, `CausePathsAreShortest`, `UnusableForever`, `ExplanationIsExact`, `StalenessIsExplained`, `ImpactIsCovered`, `TimelinesAgree`, `ProvenanceIsExact`, `LossesAreOnTimelines` | the derivation of states; answers of why, impact and provenance are those their bounds allow, and the wide ones agree with states, decisions and releases |
| `id_taken` | 1 client; a record has the id of the case's relation | `GivesUpAfterChanges` | **violated**, see below |
| `depth_cut` | 1 client; a chain of two steps, asked about one step deep | `BoundsAreExplicit` | **violated**, see below |
| `hot_journal` | 1 client that keeps applying a case, 1 death inside `COMMIT` | `RetriesSettle` | **violated**, see below |
| `foreign` | a chain up to an open case; 2 of some 50 events through the plain store; 2 typed invalidations, the application | `ReplayAcceptsExactlyTheEarned` | the replay accepts what typed calls could have written, and nothing else; the one difference is a case opened when its relation id is already taken |

The runs of `Repository` start in one of several scenarios (`Scenario`: a ledger
that a few sequential calls left, the calls the clients may make, and how often
the database fails); the names in italics are theirs.

Two properties carry others that a reader may look for.  `OnlyOccupationPoisons`
says that every readable ledger replays, and the replay refuses a second decision
on a request, a second release under a ref and an application of an ineligible
case.  `ImplementsFeedbackCase` and the theorem `AnswersHold` say that "applied"
and "ineligible" are true when they are said and stay true.

Three disagreements of the code with what it says of itself.  `apply_feedback` ends with "did not
converge after concurrent ledger changes" (`causal.py:441`) when four
iterations failed, and it takes every error of `create_relation` for a lost
race.  If a record already has the id derived from the case, the append fails
each time with "UNIQUE constraint failed": the run `id_taken` shows one caller
on a ledger that nobody changes being told of concurrent changes.  What
the ledger holds is not affected.

"Exceeding a bound fails rather than silently truncating", says
`src/README.md:265` of `why` and `impact` with their bounds on depth, results and
expansions, and the ninth design invariant, `src/README.md:297`:
"relationship/explanation path depth, result, and work limits fail rather than
silently presenting partial results as complete".  Both searches skip a path that has reached the depth
(`feedback.py:1007`, `graph.py:262`) and answer with the rest.  The run `depth_cut` asks
one step deep on a chain of two: the answers have no path to the second record
(for provenance, no path at all), and nothing is refused.
`BoundsAreExplicit` says that one of the two searches keeps the promise, so its
violation is one by both.  What does hold is `ExplanationIsExact` and
`ProvenanceIsExact`, which name the depth as the bound that cuts off.

"Crash-safe and concurrency-safe retries" is what the docstring of
`apply_feedback` announces (`causal.py:401`).  A death inside `COMMIT`
(`semantic_append.py:102`) leaves a journal; `initialize`, with which every call
begins, checks the ledger on a `mode=ro` connection (`storage.py:431`), which cannot roll it
back, and without a pending marker it raises (`storage.py:457-460`).  The run
`hot_journal` shows every retry failing from then on.  Any program that opens the
file for writing ends that, so `CasesSettle` has it as a premise
(`JournalsAreRolledBack`).  What the ledger holds is not affected here either.

Bounds.  The ledger run needs three rows for a snapshot that becomes stale
behind two commits, and for the row count to coincide after a restore that makes
room for another row.  Two clients are enough for a race over one head (the
model is symmetric and a head moved by a third is a head moved), and the
theorems hold for any number.  `init` needs three processes, as one may hold the
guard while two wait, and two power losses for a marker that is lost, published
again and lost again.  `apply_feedback` makes four iterations: the scenario
*feedback* lets four things get in its way (two raw events, an invalidation, a failure
or journal) besides the other client's two appends, so it gives up in some
behaviours.  The `views` run
has one client because states are a function of the history, and histories
that races could produce but no single client (there are none:
`CallsAreAtomic`) are not missing.  `Restore` is bounded by `MaxRestores`,
power losses, failures and foreign writes by the `Max...` constants (a journal that
is left counts as one failure, the errors it causes are not counted); the menus
bound everything else, as an id can be used once.

`views` asks with the tightest bounds that leave nothing out (`Enough`), and
with scant ones: some that refuse because of results or steps, some whose depth cuts
paths off; provenance queries are asked in the scenario *relations*.
`ledger_file` needs two edits for a row that is changed and given the hash that
fits, and three rows for one in the middle.  `foreign` writes two events, so
that one can lean on the other: a release on a decision, a request on a
receipt.  The events of its menu differ from what a builder would make in one
respect each.

Deadlock.  The runs of `Repository`, `ForeignHistory`, `ExplainProperties` and
`LedgerFile` set `CHECK_DEADLOCK FALSE`: when every call of the menu is used up,
or no number is left, the system rests.  The others check deadlock.

Fairness.  `Ledger`: a client inside a call goes on (a thread is scheduled; a
lock that stays taken ends in SQLite's busy timeout, `DatabaseError`).
`LedgerInit`: a call that runs goes on, and while the lock is free somebody
calls `initialize`, as every command does; power losses and failures are finite,
and `EventuallyReady` leaves out what another program put at the path.
`Repository`: a client inside a call goes on, callers go on calling
`apply_feedback`, as the code tells them to ("retry"), and processes stop dying
some time (`RetrySpec`, which `feedback_live` and `hot_journal` use).  Nothing is
assumed of `RollBack`, which nothing in Sayf has to do; the property that needs
it says so.  Otherwise no fairness
is assumed of new calls, crashes, failures, foreign programs or of one client
against another.

Every property has a mutant: a definition of the model changed the way a bug
could change the code (`PROJECT.json`), under which TLC finds the property
violated.  The operators marked "Bug for the mutants" serve only for that.

## 4. What is proved

### The ledger

`LedgerProofs.tla` proves, for every set of clients and events, every typed
validation `Admissible` and every bound:

| Theorem | States |
|---|---|
| `TypeCorrect` | `Spec => []TypeOK` |
| `SnapshotExact` | `Spec => []SnapshotStillExact` |
| `Refinement` | `Spec => ImplementsAppendLog` |
| `Replayable` | `Spec => []HistoryReplays` |
| `AcknowledgedDurable` | `Spec => []AcknowledgedIsDurable` |
| `OnlyAppends` | `Spec => AppendOnly` |

The argument.  The inductive invariant is

    IInv == TypeOK /\ LockHeld /\ DraftValidated /\ InsertedIsCurrent

`SnapshotStillExact` alone is not inductive: a client in `inserted` stays exact
only because nobody else can commit meanwhile.  `LockHeld` (a client in
`locked` or `inserted` is the writer) rules that out.  `DraftValidated` (a
client in a call holds an event, and a typed one is admissible for the snapshot
it saw) and `InsertedIsCurrent` (between the check and `COMMIT` the id is
new and a typed event's snapshot is the ledger) then make a `Commit` an `Add` of
the abstract log.  `HeadDeterminesHistory` is the only use of the hash:
equal length and equal head mean the same history.  Refinement follows step by
step (`StepSimulation`: every action but `Commit` and `Restore` stutters), and
`HistoryReplays` is inductive over the abstract steps, where a restored
prefix of a replayable history is replayable.

Assumptions: `NoClient` is not a client, `NoEvent` not an event, the bounds are
natural numbers; and what the model says of SQLite: one writer at a time,
`COMMIT` all or nothing.

### The feedback case

`FeedbackCaseProofs.tla` proves of the abstract case, for any set of callers:

| Theorem | States |
|---|---|
| `TypeCorrect` | `Spec => []TypeOK` |
| `AnswersHold` | `Spec => []AnswersLast`: an applied case stays applied, and one refused as ineligible is never applied |

`AnswersLast` is inductive: an answer is given in the state it speaks of
(`CaseKeepsAnswers`), no step leaves `applied`, and none makes an ineligible
case eligible.  A case whose
relation id is taken by other content is in conflict, and nobody is told anything
about it.  The abstract ledger may hold a case when it begins, proposed, in
conflict or neither, but no applied one.  That `apply_feedback` keeps this
promise is checked by the run `promise` and proved in `RepositoryProofs`.

### Initialization

`LedgerInitProofs.tla`, for any number of processes, failures, foreign writes and
losses of power, on both platforms:

| Theorem | States |
|---|---|
| `SpecTypeOK` | `Spec => []TypeOK`, the lock's exclusion included |
| `SpecReservationIsRecoverable` | `Spec => []ReservationIsRecoverable` |
| `SpecSuccessIsDurable` | `Spec => []SuccessIsDurable` |
| `SpecNothingReinitialized` | `Spec => NothingReinitialized` |

The invariant adds to these what the directory says by itself (`DirectoryInv`,
`ReadyInv`) and, for each place in the call, what the caller may rely on
(`CallInv`: a marker it published is on disk, a target it found blank is
still blank).  The sidecar lock makes it inductive: while one process is inside a call
all others are idle (`OthersIdle`), so what a caller relies on can only be
changed by a loss of power, which ends the call, or by a foreign program, which
needs an absent target.

### Artifacts

`ArtifactStoreProofs.tla`, for any number of publishers and any set of digests
in any shards:

| Theorem | States |
|---|---|
| `SpecTypeOK` | `Spec => []TypeOK` |
| `SpecRegisteredIsDurable` | `Spec => []RegisteredIsDurable` |
| `SpecNeverReplaced` | `Spec => NeverReplaced` |

What carries the second is that an entry is on disk only with its parent
(`ParentsOnDisk`) and that a publisher past a directory has synced that
directory's name itself, whether it created it or found it (`CallInv`).
Assumption: directories and digests have different names (`NamesAssumption`).

### The file

`LedgerFileProofs.tla`, for any number of rows, clients and edits:

| Theorem | States |
|---|---|
| `SpecNothingInvented` | `Spec => []NothingInvented` |
| `SpecAppendsToSnapshot` | `Spec => AppendsToSnapshot` |

Both go by induction along the chain (`HeadDetermines`: two tables that verify,
with equal count and head, have the same rows).  The library's induction theorems
cannot be used, but a set of natural numbers with a least element can
(`LeastNumber`), and the rows where two tables differ are such a set.

### Histories

`HistoryProofs.tla` is about the operators of `CausalHistory`, `Gates`,
`Feedback` and `Operations`, for every history.  `Fits(p, e)` is what the replay
asks of an event `e` after the history `p`; `Written(h)` says that every event of
`h` fits what is before it.

| Theorem | States |
|---|---|
| `AcceptedFits` | what a typed operation accepts on a history, and builds on it, fits it |
| `WrittenReplays` | a written history is accepted by every view, if no relation id of a case is taken |
| `SearchAnswers` | for any finite graph, start, end and bounds, a bounded search gives every simple path of up to its depth once, or is refused because these are too many or took too many steps |

The first compares two sets of checks that the code spells out twice, in the
builders and in the replay.  The second needs that what an event found before
it is found again from the end of the history: a history that grows keeps
its records, relations and activations (`RecordStays`, `RelationStays`,
`RelOfStays`), because ids are unique in it.

`RepositoryProofs.tla`, for any clients, menus and faults:

| Theorem | States |
|---|---|
| `SpecTypeOK` | `Spec => []TypeOK` |
| `SpecOnlyOccupationPoisons` | `Spec => []OnlyOccupationPoisons` |
| `SpecOccupiedIsClosed` | `Spec => OccupiedIsClosed` |
| `SpecCallsAreAtomic` | `Spec => CallsAreAtomic` |
| `SpecFreshPermitIsEarned` | `Spec => []FreshPermitIsEarned` |
| `SpecFreshReleaseIsEarned` | `Spec => []FreshReleaseIsEarned` |
| `SpecRivalsExclude` | `Spec => []RivalsExclude` |
| `SpecStalenessIsReachability` | `Spec => []StalenessIsReachability` |
| `SpecOneCurrentRevision` | `Spec => []OneCurrentRevision` |
| `SpecUnusableForever` | `Spec => UnusableForever` |
| `SpecCausePathsAreShortest` | `Spec => []CausePathsAreShortest` |
| `SpecStaleForever` | `Spec => []StaleForever` |
| `SpecGivesUpOnlyWhenRaced` | `Spec /\ []RelationIdsFree => GivesUpOnlyWhenRaced` |
| `SpecExplanationIsExact` | `Spec => []ExplanationIsExact` |
| `SpecProvenanceIsExact` | `Spec => []ProvenanceIsExact` |
| `SpecWideAnswersAreWhole` | why and impact, asked as deep as there are records and with `Enough` results and steps, are answered and leave out no simple path of any length |
| `SpecTimelinesAgree` | `Spec => []TimelinesAgree` |
| `SpecStalenessIsExplained` | `Spec => []StalenessIsExplained` |
| `SpecImpactIsCovered` | `Spec => []ImpactIsCovered` |
| `SpecLossesAreOnTimelines` | `Spec => []LossesAreOnTimelines` |
| `SpecImplementsFeedbackCase` | `Spec => ImplementsFeedbackCase` |

The inductive invariant is

    IInv == Shape /\ Written(log) /\ \A c \in Client : ClientOn(log, pc[c], ...)

`ClientOn` says that what a client holds was built on the prefix of the ledger
it read: the call would be accepted on `Prefix(log, at[c])`, with this event.
It is stated of a history, not of the state, so that it is kept when the ledger
grows by somebody else's event (`ClientStays`).  If the head has not moved, the
prefix is the ledger, and the pending event fits it by `AcceptedFits`; that is
the whole reason why validation on a snapshot is enough.

`FreshPermitIsEarned` follows from `Evaluate` being the same function in the
builder and in the replay, and from the decision's inputs containing every
record whose state the reasons depend on (`SameReasons`).  `RivalsExclude` takes
the invalidation that came later (`LaterLoses`): its case rested on a record
that the earlier one had made unusable.

`SpecStalenessIsReachability`, `SpecOneCurrentRevision` and `SpecUnusableForever`
are about effective states.  The induction they need is the one
set of numbers at a time (`AllNumbers`), on recursive functions whose existence
is itself a lemma (`IterationExists`).  `Saturates`: a growing sequence of finite
sets that stops for good once it stops has stopped after as many steps as its
bound has elements, which is why `Paths` may end the search after one step per
binding and `Reaching` after one per pair.  `SearchKeeps` is the rule for an
invariant of the search; with it, what the search found is closed under bound
dependencies when nothing is left to follow (`SearchEnds`), and the least such
set is `Reaching` (`ReachingIsLeastClosed`), whatever cycles there are.  A
history that grows keeps roots and dependencies, so what is unusable stays so
(`UnusableStays`).  `OneCurrent` takes the latest record of a set connected by
supersessions: as those lead to a later record, nothing superseded it; as
a record supersedes one other and is superseded by one at most, the records it
supersedes, one after the other, are the whole set, and all of them were
superseded.

`SpecCausePathsAreShortest` needs the order in which the search finds records
and not only what it finds.  The invariant adds to `SearchKeeps` that the queue
is in the order of the paths found, shorter ones first and equally long ones by
their binding events (`Ordered`); so the first path to a record is the best
there is, in that order, among all paths from the root (`PathsAreBest`).
`SpecStaleForever` rests on it.  A decision is stale when an input's state is not
what was evaluated, and the way back to fresh would be a state that comes back.
It does not: what a record loses stays lost, and the path of a cause, the best of
those there are, can only be replaced by a better one when bindings are added
(`PathImproves`, `StateNeverReturns`).

The explanations.  The invariant of a search (`Followed`) is about the set `V` of
paths it has followed: the queue lists the paths that are open behind `V` and
not in it, the answer lists the results behind `V`, each once, and what was
counted is the number of steps seen from `V`.  When the queue is empty `V` is
everything (`AllFollowed`); when a bound is passed, the part already exceeds it
and the whole is no smaller.  Why the loop of the model has enough turns is part
of the argument: each turn follows one path, and all but the first were paid
for by a step.  `SearchAnswers` puts this together, and the two theorems on exact answers
apply it to the edges of a history, which are finite.  A simple path visits one record
more than it has steps, so with a depth of as many steps as there are records
nothing is deeper (`NothingDeeper`): that is where the depth stops being a bound, and
`SpecWideAnswersAreWhole` follows.  Unfolding the iteration
goes by `AllNumbers` and `IterationExists` again.

The theorems that relate explanations to states need what whole answers reach.
`Gets` is the least set of records closed under steps of a kind (`GetsIsClosed`,
`GetsIsLeast`), and every record in it is the end of a simple path.  For qualified
dependencies this is `Reaching`, turned round, so the roots a record is stale from are
those its why leads to.  Impact follows every kind of edge: what lost its standing is
behind a root, and a decision or a release is behind each input whose state it
depends on.  `SpecLossesAreOnTimelines` looks at the event that made the
difference: the record lost its standing to a root whose path was not there
before, so the relation the new event activates is on the way, and one of its ends
is a record that why leads to.

The refinement says that every step of the repository is, for every case at the
same time, a step of the abstract case or none.  It has two halves.  What one event
does to a case is a lemma about histories: opening it (`CaseOpens`), a relation
with the derived id (`CaseProposed`), and everything else (`CaseGoesOn`), where
only the activation of that relation applies it (`Applies`), an eligible case
alone can be applied, and eligibility is lost for good because unusable records
stay unusable.  A typed `invalidate` never activates the relation of a case
(`TypedInvalidates`): that is what keeps the promise of `apply_feedback` its own.
The other half follows one caller: a step begins a call, goes on with it or ends it
(`StepKinds`), and an answer is true of the ledger at the moment it is given
(`Deserved`).  That needs one more invariant (`Serving`): a client in the loop is
applying a case, and once it has looked at the ledger that case is open in it.
The promise begins with no applied case because the setup was written
by typed calls (`NothingAppliedAtFirst`).

Journals need little in all of this: an access that fails because of one is a
failure like any other, and no invariant mentions `hot` but `TypeOK`
(`JournalOrNotKept`).

`SpecGivesUpOnlyWhenRaced` counts.  `Tally` says of every place in the loop that
all iterations but the one under way are paid for, each by an event that the
ledger gained since the call began or by a failure of the database, and that the
one under way is paid for too unless the client still stands where it decided,
or has met a case that is applied (`Paid`).  So a refused append costs nothing
that somebody else did not pay: the head has moved, since at the head the
event's id is new.  That last step needs `RelationIdsFree`: no event of another
kind has the id of a relation the clients propose.  Every state of the run `cases`
satisfies it; in `id_taken` a record has the id, and the property of that run,
which says nearly the same, is violated.  Four iterations are
paid for by four events or failures, of which one at most is the client's own
relation.

`ForeignHistoryProofs.tla`, for any setup, menu and set of foreign events:

| Theorem | States |
|---|---|
| `SpecReplayAcceptsExactlyTheEarned` | `Spec => []ReplayAcceptsExactlyTheEarned` |

One direction is `AcceptedFits` and `WrittenReplays` again.  The other reads the
replay backwards: what it found in the history with the event was there before the
event (`BoundWas`, `NewWas`), so the call exists that would have written it.  The
invariant (`EarnedSoFar`) is that everything but the last event is written.

The attempt to prove two properties showed that they had been stated too
widely, and TLC confirmed both on a larger menu.  A case that is opened when a
relation already has the id derived from it is accepted by the call and refused
by the views, so the replay does not accept *everything* that was earned
(`OpensOccupied`).  And of a ledger that cannot be read nothing is applied, so
`RivalsExclude` speaks of readable ones.

Assumptions of the last two modules: the ledger a behaviour starts with is what
accepted calls wrote, and menus hold calls of the operations (`SetupAssumption`,
`MenuAssumption`); the relation ids of different cases differ, and a record's id
is not empty (`RelationIdAssumption`, SHA-256 and the validation of ids); queries
are asked with bounds the code takes (`BoundsAssumption`).  TLC
evaluates each in every run whose module declares it.

### Only model-checked

Liveness: `CallsEnd`, `CasesSettle`, `EventuallyReady`, as the provers do not
reason about fairness.  So are the three violations.  The theorem that `apply_feedback` gives up only when raced
has the hypothesis `[]RelationIdsFree`, which depends on the ids callers choose.

## 5. Not modelled

- Data: normalisation of text and JSON, canonical JSON, UUIDs, SHA-256 itself.
  Contracts of bodies and the verification of rows are modelled.
- `_validate_database`: `quick_check` and the comparison of the schema's SQL
  text with the expected one, pure checks of SQLite's catalogue.
- Another program that deletes a ledger, or puts a valid copy of one at its path,
  while `initialize` runs: the foreign program of `LedgerInit` creates a file where
  there is none, fills a blank one, and empties or damages a ledger in use.  What a copy does to appends is in `Ledger`.
- SQLite's journal in `LedgerInit`: with a pending marker the target is opened for
  writing, so what a death inside `COMMIT` left is rolled back there.
- A binding with the right id and a wrong content hash: the code compares both
  (`_resolve_binding`), the models have the id only.
- Windows in `ArtifactStore`: directories are created without any flush there
  and objects moved write-through, so what is durable rests on NTFS alone.
- The parent directories of the ledger, and markers or targets that are not
  files.
- Fields of records that no decision looks at (environment, verifier,
  independence, rationale, names).
- `put_bytes` differs from `put_file` in where the bytes come from only.
- The command line, but for the reservation of semantic event types: it parses
  arguments, calls one operation and prints the result.

## 6. Plan

1. Done: ledger and its file, initialization on both platforms, artifacts, the
   repository with state, gates, releases and feedback, histories written by
   others, the explanations; the abstract log and the abstract feedback case;
   theorems about each of them, among them every safety property of the passing runs.
2. If Windows should carry more weight: what NTFS is taken to promise as a
   parameter of `LedgerInit` and `ArtifactStore`.
