# A TLA+ model of mimic++

mimic++ is a header-only C++20 mocking framework. A test creates mocks, states *expectations* about their calls,
optionally orders expectations in *sequences*, and lets the destructors of its scoped objects check that everything
expected has happened. This directory models which expectation a call uses, what sequences allow, what several threads
and re-entrant callbacks may do to one another, and how failures are reported while objects are destroyed; further how
overloads are declared and reached, what expectations built from matchers and policies accept, what the reports of
calls say and to which reporter they go, and how the names of types are read and printed. Paths below are relative to
`src/include/mimic++/`.

## Inventory of the system

| Component | State | Operations | Hard parts | What makes it correct |
|---|---|---|---|---|
| Sequences (`Sequence.hpp`) | `m_Entries` (state of every entry), `m_Cursor` | `add`, `is_consumable`, `consume`, `set_satisfied`, `set_saturated`, `priority_of`, destructor | entries may be skipped; one expectation may be in several sequences; `int` arithmetic | uses happen in the promised order, and nothing allowed is refused |
| Control policy (`policies/ControlPolicies.hpp`) | `m_Min`, `m_Max`, `m_Count`, the entries in its sequences | constructor, `consume`, `state` | publishes its state to all sequences; limits 0 and `INT_MAX` | the entries say what the count says |
| Expectation collection (`Expectation.hpp`) | `m_Expectations`, a mutex | `push`, `remove`, `handle_call` | threads; callbacks that run under the lock; raw pointers; exceptions | calls are atomic, use the documented expectation, and end |
| Scoped expectations and sequences (`Expectation.hpp`, `ScopedSequence.hpp`) | ownership | construction, `+=`, move-assignment, destructor | throwing destructors, exceptions in flight, `shared_ptr` release | no failure is lost, unwinding adds none |
| Watchers (`ObjectWatcher.hpp`) | destruction mock, relocation mock, a flag | copy, move, destroy, `expect_*` | a move fails half way | what is reported about an object is true |
| Mocks and facades (`Mock.hpp`, `CallConvention.hpp`, `Facade.hpp`, `macros/`) | one collection for each decayed signature | declaration, `expect_call`, calls, generated functions | overloads share collections; generated functions cast the mock; frames are counted by hand | a call reaches its overload, with the arguments of the user |
| Traits of signatures (`TypeTraits.hpp`) | none | take signatures apart, put them together, compare them | one specialization for every combination of qualifiers | what may be overloaded is what can be told apart |
| Builder (`ExpectationBuilder.hpp`) | a partial expectation | clauses, `finalize` | which clauses may be repeated; order of effects | the expectation is what the clauses say |
| Requirements, side effects, finalizers (`policies/`) | none | `matches`, `describe`, `consume`, `finalize_call` | select, project and change arguments; may throw or call mocks | requirements see the arguments before the effects, finalizers after them |
| Matchers (`matchers/`) | none | predicates, descriptions, inverses | NaN, infinity, empty ranges, inverses | a matcher accepts what its text says |
| Reporters and reports (`reporting/`) | the global reporter, shared by all threads | six reports, `install_reporter`, texts | a report may throw, must sometimes not return; the reporter is replaced at run time | what is reported is so; a reporter outlives its reports |
| Type printing (`printing/type/`) | tokens, parser stack | lexer, shift-reduce parser, visitor | four compilers spell names differently; ambiguous input, backtracking | a name is recognized however it is spelled, and its outline is printed |
| Utilities (`utilities/`) | none | algorithms on ranges, stack traces | boundary cases | checked where they are used: reports, parser |
| Printing of values, configuration, adapters | none | formatting, compile time | | not modelled |

How they interact: a mock forwards each call to the `ExpectationCollection` of its signature. The collection takes its
mutex, asks every expectation in reverse order of creation whether it matches, asks the control policy of the matching
ones whether they are applicable, picks one by the ratings its sequences give, consumes it (control policy, then side
effects) and runs its finalizer, all under the mutex. What fails, matches or throws on the way is made into a report,
which the reporter formats with the names of types among others. Sequences are shared, through `shared_ptr`, by the sequence
object and the expectations attached to it, which may belong to different mocks. Failures go to the global reporter,
which throws. `PROJECT.json` lists the hazards of this with the lines where they bite.

## Modules

| Module | Models | Notes |
|---|---|---|
| `BasicSequence` | one sequence as a record and its operations | positions count from 1 (code: 0) |
| `Rating` | `has_better_rating`, `find_best_match` | matches are sets of creation numbers, visited from the newest |
| `Expectations` | collections, control policies and sequences as one thread sees them; each action is a whole handler | EXTENDS the two above |
| `SequencePromise` | the abstract specification: order of uses stated by counts and limits alone | no cursor, no entry states |
| `MockThreads` | the steps of `handle_call` under the mutex, for threads and nested callbacks | EXTENDS `Expectations`, and refines it |
| `Lifetimes` | sequences, scoped sequences and expectations as automatic objects | independent state; uses `EntriesFollowCounts` as its abstraction of sequences |
| `Watchers` | `Watched<Base, LifetimeWatcher, RelocationWatcher>` | independent state; the mocks are reduced to their expectations |
| `Signatures` | signatures and the traits on them | no state |
| `Matchers` | the matchers and their inverses, as records | no state |
| `MatcherPredicates` | the predicates on floating-point values, strings and ranges | EXTENDS `Matchers` |
| `MatcherHooks` | `matches_hook` and `describe_hook` of those matchers | EXTENDS `MatcherPredicates`; given to `Policies` as `Matches` and `Describe` |
| `Meanings` | what the words of the texts mean to a reader (starts with, sorted, permutation) | follows no algorithm of the code |
| `MatcherTexts` | whether a description is true of a value (`Says`), stated on its own | EXTENDS `Meanings`; the reference for `MatcherHooks` |
| `Policies` | argument selection, requirements, side effects, finalizers, the builder and its compile-time rules | EXTENDS `Signatures`, `Matchers`; CONSTANTS `Matches(_, _)` and `Describe(_)`, as any type may specialize `custom::matcher_traits` |
| `Reports` | reports of calls and expectations, what their texts say, the traces, the global reporter | EXTENDS `Policies`, `Algorithm` |
| `Facades` | specifiers, generated functions, what overload resolution makes of their calls | EXTENDS `Signatures` |
| `BuiltMocks` | a test from the declaration of its mock to the reports; composes `Policies`, `Reports` and `Facades` | |
| `ReportTexts` | the properties about what reports say of a call | EXTENDS `BuiltMocks`, `Meanings`; CONSTANT `IsTrueOf(_, _)`, which the run gives the value `Says` |
| `Algorithm` | `partition_by`, `find_closing_token` | |
| `NameLexer`, `NameReductions`, `NamePrinter` | tokens of a name, reductions of the parser's stack, the printing visitor | each EXTENDS the one before |
| `NameSpellings` | how compilers spell a type or function, and its outline | the reference for the parser and the printer |
| `NameParser` | the parser; an action handles one token with the reductions it triggers | EXTENDS `NameSpellings`, `Algorithm` |
| `ExpectationsProofs` | theorems about `Expectations` | |
| `FoldProofs` | lemmas about the folds of the community modules | |
| `ChoiceProofs` | lemmas about `find_best_match`, theorems about the expectation a call of `Expectations` uses | EXTENDS `FoldProofs`, `ExpectationsProofs` |
| `MockThreadsProofs` | theorems about `MockThreads` | EXTENDS `ExpectationsProofs` |
| `LifetimesProofs`, `WatchersProofs` | theorems about `Lifetimes` and `Watchers` | |
| `BuiltMocksProofs` | theorems about `BuiltMocks`, and that `partition_by` is right | EXTENDS `FoldProofs` |
| `OutcomeProofs` | theorems about the expectation a call of `BuiltMocks` uses, its effects and its reports; about `MatcherPredicates` | EXTENDS these, `ReportTexts` and `BuiltMocksProofs` |
| `MC*` | constants of the TLC runs | |

**Expectations.** An expectation is identified by its creation number, so `m_Expectations` of a mock is the set
`Live(m)` in increasing order. The policies of an expectation are its `verdict` on each argument list: match, mismatch
or an exception. `Create` is the builder's `finalize` with the constructor of `ControlPolicy` (entries are added, the
state for count zero is published) and `push`; `FullMatch`, `Inapplicable` and `NoMatch` are the outcomes of
`handle_call`; `Remove` is `remove`. Every `MIMICPP_ASSERT` on the way is evaluated into the history variable
`asserted`: the macro expands to nothing by default, so what it checks is a property and never a guard.
`terminated` stands for `std::terminate`: a side effect that throws inside the `noexcept` lambda of
`BasicExpectation::consume`, or a full sequence in the `noexcept` `make_sequence_entries`.

**MockThreads.** A thread is a stack of activations of `handle_call`. Each frame holds the locals of the function:
what is still to be visited, the collected matches, the chosen expectation. Callbacks push a frame; an exception pops
frames and goes on where the code catches it (a matcher's exception is swallowed by `determine_requirement_outcomes`,
a side effect's terminates, a finalizer's propagates). `Nested` says which mocks the callbacks of which mock may call.

**Lifetimes.** The stack of automatic objects of a test, with try blocks. Leaving a block pops objects and destroys
what they own, one expectation per step; `inFlight` is `std::uncaught_exceptions()`. Throwing out of a `noexcept`
function, or a second exception during unwinding, sets `terminated`.

**Watchers.** Every construction or copy makes an instance with two mocks; moves carry `life` (the destruction mock)
and `relo` (the relocation mock) from object to object in the order of the base classes, and stop half way if the
relocation is reported. `who` is a ghost: the instance whose value `Base` holds.

**BuiltMocks.** A behaviour runs one program: the methods that share a name, the style they are mocked in (called
directly, through generated functions, or through generated functions that pass `this`), and the object expressions,
expectations and arguments it uses. `Declared` is what the compiler makes of it: `mock` holds the overloads and, for
every generated function, the overloads its call of the mock resolves to. `collections` maps each decayed signature to
`m_Expectations`; `Expect` is `expect_call` with the builder, `Destroy` a `ScopedExpectation` at its end. `running` holds
the locals of `handle_call`, one action for each of its stages: `Evaluate` visits one expectation, `Decide` is what
follows, `Consume` and `Finalize` act on the arguments, `GetTheReporter` and `Deliver` are the two halves of a report,
between which `InstallReporter` (another thread) may replace the reporter. A reporter is a number in the order of
installation; `reporter.destroyed` are those no `shared_ptr` holds any more. A number stands for itself, a string is a
sequence of letters in two cases, an object has an address, and a floating-point value is an integer, infinity or NaN;
tolerances are integers as well. Side effects and projections of the user are a few functions on integers. Overload
resolution is C++'s and not the library's: `Resolve` states it for the qualifiers of the object expression and marks it
external.

**NameParser.** A name is a sequence of pieces as `NameLexer` describes. `Lex` is the lexer, with its longest-prefix
matching of operators. An action takes the next token, as one `handle_lexer_token` does, and applies all reductions
that the handler triggers; `FinishType` and `FinishFunction` end the parse. `stack` is `m_TokenStack`, with the
alternatives of the variant as the field `is`. A `MIMICPP_ASSERT` that fails sets `asserted` to false. `NameSpellings`
takes types and functions, written in the parser's own tokens, and states from the grammar of C++ declarators how g++,
llvm's demangler, clang's source locations and MSVC spell them; `Outline` states what should be printed. The texts
the printer model yields for every name of the run were compared with what the headers print, compiled with g++ 12:
all 2867 agree.

## Runs

Bounds are chosen so that the smallest conflicts of each kind occur: two expectations compete while a third one blocks
or is skipped, two sequences disagree, two threads meet in one collection.

| Run | Question | Bounds |
|---|---|---|
| `one_sequence` | Which expectation does a call use if each is in at most one sequence? The last created one; a lazy sequence skips least, a greedy one most. Do counts and entries stay consistent with `never()`, unbounded limits, full sequences, throwing policies and side effects? | 3 expectations, a lazy and a greedy sequence of at most 2 entries (`IdMax = 1`), `IntMax = 2`, limits 0..0, 0..`IntMax` and 1..`IntMax` |
| `many_sequences` | Do expectations in several sequences keep the promised order, and only that? Do the library's assertions hold? | 3 expectations, each in any subset of a lazy and a greedy sequence, limits 0..1 and 1..1 |
| `head_claim` | *Violated*: the assertion that a sequence which refuses an expectation has a head to report. | 3 expectations, each in at most one sequence, limits 0..1 and 1..1 |
| `racing` | Two threads with callbacks that call a second mock: are calls atomic, pointers valid, is there no deadlock, do calls end? | 2 threads, 2 mocks, 2 expectations, 3 calls |
| `reentrant` | If every callback may call a mock that shares a sequence with its own: do calls end, and is a call still one step unless a callback of its own made a call before it chose? | 1 thread, 3 expectations, callbacks call once per place and visit |
| `matcher_claim` | *Violated*: the assertion in `ControlPolicy::consume`, if matchers call mocks that share a sequence. | as `reentrant`, matchers only |
| `built_calls` | From the declaration to the report: see the invariants of `BuiltMocks` and `ReportTexts`. | 398 programs, 2 expectations and 2 calls at a time, up to 2 more reporters |
| `type_names` | Are names parsed without a failed assertion, recognized whatever compiler spells them, and printed as their outline? | 2867 names in 4 styles: types and functions with template arguments, function pointers, scopes and qualifiers up to depth 3 |
| `lifetimes` | Is no failure silent, and does unwinding never add an exception? | 2 sequences, 3 objects or try blocks at a time, 3 expectations |
| `sequence_claim` | *Violated*: the error of an unfulfilled sequence propagates. | as `lifetimes` |
| `watchers` | Are destructions reported truly, is the flag in step with its mock? | 2 objects, 3 instances, one relocate-expectation at a time |
| `watchers_move_claim` | *Violated*: a fulfilled destruct-expectation means the object is gone. | as `watchers` |

`LazyMakesLeastProgress` and `GreedyMakesMostProgress` are checked for expectations in one sequence at most, and do not
hold beyond: `has_better_rating` (`Sequence.hpp:478`) decides for the left-hand match as soon as it meets a sequence the
other is not in, so a match in two lazy sequences beats an earlier one in one of them, and skips it. What holds for
several sequences is `NewestYieldsOnlyWithinItsSequences`.

No run checks for TLC's deadlock: expectations, calls and instances are bounded in the guards and a program may end or
be terminated. `NoDeadlock` and `CallsEnd` state what matters about blocking. Symmetry is used among sequences
(`lifetimes`) and places of objects (`watchers`), which differ in their identity only, and never in a run with a
liveness property.

In `built_calls` the programs are sets, one for each kind of values. Overloads: every pair of two methods without
parameters that differ in `const` and reference, or also in a parameter, `noexcept` or a calling convention, in every
style, among them all pairs C++ rejects; called on each kind of object expression. Two methods are enough, since
overload sets are compared, and calls resolved, pair by pair. Matchers: each one and its inverse, on its boundary and on the special
values. Clauses: requirements, side effects and finalizers in several orders, throwing ones and `noexcept` methods
included. Two expectations suffice for one to be passed over and one to be used; two calls for a saturated one.
Names are checked one by one; the depth is where the printer starts to drop scopes and arguments.

### What the violated runs show

* `head_claim`: let two expectations of a sequence be allowed once at most. If the second is used, it is saturated and
  the first was skipped. A call that matches only the first is inapplicable, because of the sequence; but nothing behind
  the cursor is active, so `head_from` returns `nullopt`, which the report dereferences (`StringifyReports.hpp:174`).
  A program compiled with `_GLIBCXX_ASSERTIONS` aborts there.
* `matcher_claim`: `handle_call` does not look again at the applicability of what it collected. A matcher visited later
  that makes a call through another mock may move the shared sequence on; the stale match is consumed and the cursor
  moves *back*. With two matches, reading the missing rating throws in a `noexcept` lambda.
* `sequence_claim`: `~BasicSequence` is `noexcept(false)` but only ever runs in the `noexcept` release of a
  `shared_ptr`, so its report terminates the program. This needs the exception of the unsatisfied expectation to have
  been caught inside the lifetime of the sequence.
* `watchers_move_claim`: a reported relocation interrupts a move after the `LifetimeWatcher` was moved; the half-built
  target is destroyed and fulfils the destruct-expectation of the object that still lives.

## Fairness

`CallsEnd` assumes weak fairness of the steps of a thread that is inside a call (`WF_allVars(CallStep(t))`): the
scheduler runs every thread, and the user's callbacks return, throw or call on. Nothing obliges a thread to begin a
call. `std::mutex` is not fair; weak fairness of `Lock` suffices because only finitely many calls are made (`MaxCalls`),
so a waiting thread cannot be overtaken for ever. The runs let callbacks of the first mock call the second and not
back: with cyclic calls, or a mock that calls itself, the non-recursive mutex blocks for ever, which the code makes no
attempt to prevent. A callback makes one call at a place for each visit, so callbacks end.

## Proofs

`ExpectationsProofs` proves, for every number of mocks, sequences, argument lists and expectations and every `IntMax`
and `IdMax`:

* `TypeCorrect`: `TypeOK`, with no count above `IntMax` and no position above `IdMax + 1`;
* `AssertionsNeverFail`, `CursorNeverSkips`, `EntriesTrackCounts`;
* `NothingElseRefused` and `SequencePromiseKept`: the cursors refuse nothing the promise allows, and every step of
  `Expectations` is a step of `SequencePromise` or a stutter. Together they say that the cursor mechanism is exactly
  the promise.

The argument is one inductive invariant, `IInv`. `EntriesFollowCounts` alone is not inductive: that a use finds its
entry behind the cursor and in the state to be replaced needs the following conjuncts.

* `CountsWithinLimits`: no count exceeds its limit, so that it never passes `max` unnoticed;
* `PositionsOrdered` and `EntriesOwned`: the entries of a sequence belong to distinct expectations in the order of
  their creation, which is what relates positions to the promise's "attached before";
* `StatesPublished`: the exact state of each entry as a function of the count;
* `CursorOnLastUsed`: everything before the cursor is fulfilled, the entry at the cursor is the last one used, nothing
  behind it was used.

`ConsumeKeepsBookkeeping`, `CreateKeepsBookkeeping` and `RemoveKeepsBookkeeping` have one step per conjunct; the first
two rest on lemmas that compute the effect of the operations on one sequence. The assumptions are those of
`BasicSequence` and `Expectations` on their constants, which TLC evaluates in every run: the limits are pairs
`TimesConfig` accepts, the strategies are lazy or greedy, the attachments are sets of sequences.

### The choice of an expectation

`ChoiceProofs` proves `NewestIsUsed` and `NewestYields` (`LastCreatedIsUsed`, `NewestYieldsOnlyWithinItsSequences`) for
any attachments, and `LazyIsLazy` and `GreedyIsGreedy` under `OneSequenceEach`: no expectation is in two sequences. The
last two are false without it, as explained under Runs. `find_best_match` is a fold over the matches, which visits a set
by taking its `Max` again and again. `FoldProofs` shows by induction on a bound of the set that such a fold exists and
that it preserves what each of its steps preserves; `ChoiceProofs` applies it to the matches visited so far, which
are always the newest ones (`NewestGrow`), and `has_better_rating` to what was best among them.

### Threads

`MockThreadsProofs` is about any number of threads, mocks and calls, and any nesting of callbacks.

| Theorem | Property | Hypotheses |
|---|---|---|
| `PointersStayValid` | `UsesOnlyLiveExpectations` | none |
| `SomeCallGoesOn` | `NoDeadlock` | `Ranks(rank)` |
| `MatchesAreNotStale`, `ThreadsTypeCorrect`, `ThreadsNeverFailAssertions` | `MatchesStayApplicable`, `ThreadsTypeOK`, `AssertionsHold` | `SequencesConfined` |
| `UndisturbedAtomicity` | `UndisturbedCallsAreAtomic` | `NoSequencesUsed \/ OneThread`, and `"return" \in SideEffects` |
| `CallsImplementAtomicCalls` | `CallsAreAtomic` | the same, and `MatchersMakeNoCalls` |

* `Ranks(rank)`: there is a number for every mock that decreases along `Nested`. The mutex is a `std::mutex`
  (`Expectation.hpp:405`), so a callback that reaches its own mock again waits for itself.
* `SequencesConfined`: there are no sequences, or one thread and matchers that make no calls. Sequences are documented
  as "not thread-safe" and "never intended to be" (`Sequence.hpp:65`), and without the second half the property is
  false: this is the run `matcher_claim`.
* `"return" \in SideEffects`: side effects may return. The step that consumes precedes the side effect, and is the whole
  call of `Expectations` whose side effect returns.

The inductive invariant grows in three layers. `LockInv`: a call past its lock owns the mutex, no two calls hold the
same, only the innermost call of a thread waits, and a taken mutex is that of an unfinished call. With it
`PointersLive`: whoever may erase an expectation holds the mutex, hence no other call has a pointer into that collection.
With it `EvaluationInv`: what an evaluating call has sorted so far is what the whole call would sort now, from which
`MatchesStayApplicable` and atomicity follow. The deadlock theorem takes a minimal element: among the calls that wait,
one whose mock has the least rank waits for a call that is not waiting.

### Lifetimes and watchers

`LifetimesProofs` proves `TypeOK`, `NoFailureIsSilent`, `UnwindingIsSafe` and `ScopedReportsFirst` for any number of objects and
expectations. `OwnershipInv` is needed for all of them: every expectation that is alive is owned by exactly one object of
the stack, an object of the sequence it was scoped to, in the order of creation; no two objects hold the same sequence.
With it, what ended unsatisfied has thrown (`FailuresWereThrown`), and an unsatisfied expectation ends before its
`ScopedSequence` only while that one is being destroyed with an exception in flight (`AbandonedWhileThrowing`).
`WatchersProofs` proves `TypeOK`, `AskedOnce` and `DestructionsAreWatched`. They are inductive together with
`WatchedByOne`, no two objects hold the same mock, and `FollowedOrReported`: unless a move was reported, the watcher
of an object watches the value that its base holds, or has reported it.

### Overloads, calls and reporters

`BuiltMocksProofs` proves, for any methods, expectations, matchers and number of reporters:

* `Typed` (`TypeOK`) and `ReportersLive` (`ReportersOutliveTheirReports`);
* `OverloadsCallable` (`OverloadsAreCallable`): for any number of methods, not only pairs of them;
* `CallsReach` (`CallsReachTheirOverload`) and `ExpectationsServe` (`ExpectationsServeTheirOverload`);
* `TracesBegin` (`TracesBeginAtTheCaller`);
* `ReportsAreAsAsserted` (`ReportAssertionsHold`), with the lemma `PartitionSplits`: whatever the two ranges,
  `partition_by` leaves the elements of the target in it, each once, those whose control passes in front of the
  midpoint and the others behind it. The loop swaps both ranges, so the invariant relates both to one bijection.

The assumptions are `ProgramsAssumption` and `BoundsAssumption`: methods and clauses are such as a program can state,
with limits that `TimesConfig` accepts (`ControlPolicies.hpp:50-86`, anything else throws before there is an
expectation) and a projection for every argument a requirement selects, what is passed is a list of arguments, and the
bounds are natural numbers.

First come lemmas on operators: what the traits make of a signature, what the specifiers parse to, that a method
declares an overload which `Resolve` finds again, and what the builder yields: the fold over the clauses keeps the
two policies of the overload (`BuiltIsBuilder`). The inductive invariants follow, each on the ones before:
`FrameInv` (the declaration does not change), `ReporterInv` (all reporters but the last are destroyed, except one in use),
`CallInv` (a call keeps to its overload and its arguments), `TraceInv` (where the trace of a report begins), `ServingInv`
and `AssertedInv` (what a call has sorted out so far is what its reports may say). That the chosen expectation is one of the overload called is not inductive: `ServingInv` relates each collected
match to its overload (`Serves`), which needs in turn that every expectation of a collection carries the policies of an
overload with that key (`CollectionsInv`), since these are what keeps the overloads of one collection apart.

### What comes of a call

`OutcomeProofs` goes on from these invariants, under the same assumptions:

| Theorem | Property | Hypothesis |
|---|---|---|
| `EffectsActInOrder` | `EffectsInOrder` | none |
| `CallsUseWhatAcceptsThem` | `UsedExpectationAcceptsCall` | `[]MatchersTellTheTruth` |
| `ReportsAreTrue` | `ReportsTellTheTruth` | `[]MatchersTellTheTruth` |

`MatchersTellTheTruth` says that a matcher accepts those arguments of which its description is true. Nothing in the
library enforces it: matchers and their texts are code of the user as well (`custom::matcher_traits`, predicates with a text of
one's own), and `Matches`, `Describe` and `IsTrueOf` are constants of which nothing is assumed. For the matchers of the
library the run `built_calls` checks it. What the theorems add is everything between a matcher and a report: selection
and projection of arguments, the policies the builder adds, the order in which expectations are visited, and the texts.

* `BuiltInv`: an expectation carries what the builder made of its clauses. The side effects among its policies act as the
  fold over all its clauses does, since nothing else acts; the finalizer is the one among the clauses or `Void`; the
  category and constness policies are those of one overload. No two expectations have the same id.
* `OutcomeInv`: where a call stands. While expectations are visited (`Sorted`), each one seen is in exactly the list it
  belongs to, matches from the newest on; then what is reported is what was sorted (`Reported`), or what is used is the
  first of the matches, and nothing has touched the arguments (`Judged`); after that they are what the side effects of the
  chosen expectation make of those passed (`Effected`).

`EffectsActInOrder` needs both, since the code acts by policies and the property speaks of clauses. For `CallsUseWhatAcceptsThem`,
`HoldsIs` and `AcceptsIs` relate the evaluation of a policy to what it says; the implicit requirements hold
of a call to the overload (`SharersCompare`). For `ReportsAreTrue`, lists are compared by the positions they enumerate
(`Enumerates`): a paragraph is a filter of a part of a rearrangement of what was sorted, and lists that enumerate the
same positions differ in their order only (`SameElements`).

Last come the algorithms in the predicates of matchers, each with what `Meanings` says of it, for values of any size:
`StringPredicates`, `SortedPredicate`, `PermutationPredicate`, `ApproxAbsPredicate` and `ApproxRelPredicate`. The
last one needs an epsilon that is not negative, which `check_fp_epsilon` enforces (`matchers/FloatingPointMatchers.hpp:57-65`).

### What is only model-checked

* `CallsEnd`: liveness is beyond the prover.
* `MatchersTellTheTruth` for the matchers of the library: matchers contain matchers, so that the hooks and `Says` are
  recursive operators. The theorems on predicates are what it rests on.
* Type names: the lexer, parser and printer compute over data by recursion.

## Not modelled, and why

* Sequences used by several threads: documented as not thread-safe (`Sequence.hpp:64`). Runs with two threads have no
  sequences.
* Callbacks that create or destroy expectations of the mock being called: they wait for their own lock.
* Cyclic calls among mocks: see Fairness.
* Moved-from objects used again (null mocks in watchers, null collections in mocks): undefined behaviour, excluded by
  guards.
* Unwinding in `Watchers`: the test catches a report at the operation. A watcher destroyed while another exception is
  in flight terminates if it reports, which is the case the failed move shows.
* Moves of a mock, and several mocks of one program in `BuiltMocks`: mocks share only sequences, which `Expectations`
  and `MockThreads` have.
* How macros expand their argument lists: `Facades` begins with the pieces they are given. C++'s own overload
  resolution, conversions of arguments and templates are external or left out.
* Comparators and predicates of the user in matchers, and ranges that change after the expectation was made: a range
  matcher keeps a view of an lvalue.
* Letters only have a case: `std::toupper` on a negative `char` (`String.hpp:419`) is undefined, and characters have
  no value in the model.
* Names the parser does not know, left out of `NameSpellings`: `class` after a leading `const`; `__cdecl` in a function
  without return type, which is taken for the return type; `noexcept` behind `&& __ptr64`; user-defined literals, read
  as conversions. The assertion on adjacent tokens (`NameParser.hpp:206`) is about positions in the text, which the
  pieces do not have.
* Names of types that come from `type_info`, special names (`std::string` and the like) and printers of templates.
* The text of values, layout, colours, source locations, and what a stack trace backend makes of a trace: the model
  only counts frames, none of them inlined, and a `stacktrace_base_skip` of zero.
* Reporters that return from a report which must not: the library terminates or runs into undefined behaviour by design.
* `config/` and the adapters of test frameworks: settings, and instances of `BasicReporter`.

## Plan

Done: the core (`BasicSequence`, `Rating`, `Expectations`, `SequencePromise` with proofs), threads, lifetimes, watchers;
overloads, matchers, policies, reports and the reporter (`BuiltMocks`); type names (`NameParser`); proofs of every safety
property of them but those about names and about the meaning of matchers.

1. *More of the system.* `StatePrinter`: which printer a value gets. Sequences in `BuiltMocks`, for the texts of reports
   about inapplicable expectations of sequences.

2. *More proofs.*
   `BuiltMocks` with sequences would need the invariant of `Expectations` for the choice among several matches.
