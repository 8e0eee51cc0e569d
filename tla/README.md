# m1-eval in TLA+

m1-eval executes MoTeC M1 Build projects offline. It loads a project (scripts,
channels, functions with trigger rates), runs it against a scenario on a grid of
base ticks and writes a trace of every channel, and it replays logs with some
channels overridden (counterfactual replay). This directory holds a model of its
execution, from the files that describe a run to the trace and the reports, the TLC
runs that check it on small instances, and proofs of the main results for all
instances.

## The system

| part (src/src/) | state | operations | talks to |
|---|---|---|---|
| schedule planner, `schedule.rs` | none after planning; while planning: the I/O cache and active-call stack, the dependencies considered, selected, dropped, Kahn's in-degrees and ready list | `build_schedule_plan` | called by the runner and by coverage |
| whole-project runner, `runner.rs` | value store `Env`, operator state `StateStore`, tick, startup outputs | `run`: seed, startup pass, per tick: seed, push, run due functions, close | planner, trace, adapters, evaluator |
| trace, `trace.rs` | time axis, columns, per-tick samples with an external flag, set of external channels, event lists | `push_tick`, `record_channel*`, `mark_external`, `to_csv` | written by the runner and the statement executor |
| counterfactual replay, `runner.rs`, `counterfactual.rs` | cone, its order, store, trace | `build_downstream_cone`, `topo_order`, `run_counterfactual` | log import, trace |
| virtual serial, `virtual_serial.rs` | declared packets per port, port configurations, handles with buffers and cursors, handle counter | the `Serial.*` calls of scripts | scripts through the evaluator; events to the trace |
| virtual CAN, `virtual_can.rs` | declared frames in time order, buses and their rates, DBC modules, seven kinds of handle with cursors, buffers, J1939 registrations and fault counts, one handle counter, DBC receive cursors | the `CanComms`, `J1939` and DBC calls of scripts | as serial |
| stateful operators, `builtins/stateful.rs` | per call site: held times, previous inputs, outputs | `Delay`, `Debounce`, `Change`, `Calculate`, `Integral`, `Derivative`, timers, filters | evaluator; `env.rs` owns the keys |
| executor and evaluator, `stmt.rs`, `expr.rs`, `builtins/userfn.rs`, `env.rs` | values, locals, Out, statics and operator state in one `Env`; call depth; the frames a call saves | walk over the statements of one script, inlining the functions it calls | store, trace, operators, adapters |
| pure libraries, `value.rs`, `builtins/{calculate,limit,convert,enum_conv,object,unix_time}.rs` | the time zone; values that objects set | operators, conversions, value objects, calendar | called by the evaluator |
| hardware calls, `builtins/mod.rs`, `builtins/io_stub.rs`, `hardware.rs`, `coverage.rs` | clocks of `System.ElapsedTime`, provenance, attached adapters | classify a call; answer it from an override, adapter, virtual device, System model or stub; report coverage | evaluator, scenario, adapters, trace |
| tables, `calib.rs`, `table.rs` | none | load, bind to the project, look up | project loading; the evaluator |
| scenario and log import, grid, `scenario.rs`, `log.rs`, `log/ld.rs`, `runner.rs` | none at run time | check, sort, sample; base rate, divisors, number of ticks | runner, replay |
| reports, `diff.rs`, `coverage.rs`, `conformance.rs`, `summary.rs` | none | compare a replay with its log, list what is supported | after or instead of a run |
| project loading, CLI | none at run time | parsing, arguments | everything above, once |

The program is single-threaded. What makes it hard is order and time: functions
of different rates share one store on one grid; the order among the due ones
comes from a greedy selection of dependencies; a sample may be written, held,
seeded or defaulted and must be labelled by which; adapters give several readers
their own position in one declared stream; operators count their own calls; functions
that call each other share one map of locals; four numeric families with promotion,
wrapping and saturation meet in every expression.

What makes the parts correct:

* planner: drop a dependency only when it must be dropped, honour what was
  kept, end, and know the I/O of everything a root reaches by calls;
* runner and trace: say of each value truthfully from where and from when it is;
  let a reader see this tick's value exactly when the writer ran before it; keep
  columns in step with time; end;
* serial: one owner per handle, a loss-free in-order view per handle and port,
  words that one end reads as the other wrote them;
* CAN: the same view for raw handles, DBC messages and J1939 groups over one frame
  list; bit layouts that agree and do not overlap themselves; buffers that hold the
  last write of each bit; groups that reach whom they are addressed to; lookups that
  cannot fail where the code says so;
* replay: the cone is everything an override influences and nothing else, its
  functions see the world of their own tick, and the walk over a cyclic project ends;
* executor: calls, returns and errors behave as a stack of frames although there is
  none, slots keep their family, and recursion without an end is cut off;
* libraries: no intermediate result leaves the word, comparisons are coherent over
  families, conversions and object rules agree with each other, a table answers
  what its cells say, dates and timestamps are inverse;
* hardware: a clock measures the time since its own site last ran, the trace says
  truthfully who answered, and the coverage report is not better than the run;
* files: the grid fits the rates, each channel is driven by the first source that
  speaks of it, and a difference compares like with like.

## Modules

| module | models | how it corresponds |
|---|---|---|
| `Project` | the functions and channels of a loaded project | a function is the rank of its canonical name, so `<` is the order of the code's BTreeMaps and sorts; `PathExists` is `path_exists`, as "in every closed set that holds the start" |
| `Schedule` | `build_schedule_plan` | phases `rates`, `fold`, `select`, `order`, `done` are the stages of the function; one action per loop iteration: `FoldRoot`, `ConsiderDependency`, `PlaceNext`. The I/O given by `FoldRoot` is any |
| `CallFold` | `effective_root_io` | recursion as an explicit stack of frames, `cached` as the cache, `Refused` as the three errors |
| `Planner` | both together | `BeginRoot`/`FinishRoot` around the walk; implements `Schedule` |
| `Trace` | `trace.rs` | `samples` is `channel_ticks`, `columns` and `external` the fields of that name. A value is its origin: which kind of source, which function, which tick |
| `TickLoop` | `tick_loop` | phases `startup`, `seed`, `run`; `RunDue` is one iteration over the due functions with the captured provenance, `CloseTick` the four closing passes |
| `Arrivals` | the order in which both adapters deliver what a scenario declares | `Sorted` is what the code's stable sorts by time make of some places of a list; there is one such listing |
| `SerialLink` | what reception promises | `taken[h][p]` is everything declared for p up to the last read of h |
| `VirtualSerial` | `virtual_serial.rs` | one action per call that changes state, `CallRefused` for every error; a byte is a digit and a word its value, `Weight[n]` what the n-th digit counts for, which is what the code's shifts do; implements `SerialLink` |
| `CanCodec` | the bit layouts and J1939 identifiers of `virtual_can.rs` | a payload is a function from bit places to bits, a field the sequence of its places; `RawField`, `DbcField`, `J1939Field` are the three numberings, `Encode`/`DecodeIdentifier` the code's shifts and masks as arithmetic |
| `CanLink` | what reception promises | per reader what it wants, has taken and would get next |
| `VirtualCan` | `virtual_can.rs` | one action per call that changes state, `CallRefused` for every error; `handles` joins the code's five maps, with the kind as a field; `site` is a call site and a method, as the code's key. Implements `CanLink` |
| `Stateful` | `builtins/stateful.rs` | one call site with one operator: `slot` is its `OpState`, one action per operator family is one execution of the site by a function of any period; `calls` is the history the answers are judged by: each execution with its input, the time by then, the area and the share a filter had |
| `Counterfactual` | cone and replay | `PopScript` is one turn of the walk, `PlaceNext`/`FinishOrdering` are `topo_order`, then the replay as in `TickLoop` |
| `Values` | `value.rs` and the operators of `expr.rs` | a value is its family and a number; promotion, wrapping, shifting, comparison, coercion on storing |
| `Numerics` | `calculate.rs`, `limit.rs`, `convert.rs`, fixed-point notation, rules of `object.rs` | pure operators on `Values` |
| `Objects` | `read_symbol`, `object.rs`, `enum_conv.rs` | the walk from a symbol to the one that holds its value, then the methods of value objects over the store |
| `Tables` | `calib.rs`, `table.rs`, the table calls | ordering of cells, shape and axis checks, bracketing, interpolation dimension by dimension |
| `UnixTime` | `unix_time.rs` | days and civil dates as in the code; a timestamp is a day and a second |
| `Library` | the library routes of `builtins/mod.rs` | one call is asked and answered at a time; the time zone and stored values outlast it |
| `Inputs` | grid, `scenario.rs`, `log.rs`, `log/ld.rs`, `runner.rs`'s seeding | a file is the data a parser hands on; its checks, sampling, overlay and canonical names |
| `Reports` | `counterfactual.rs`, the values of a replay, `diff.rs` | a replay on real values of a cone given in order |
| `Offline` | what files ask for before and after a run | extends `Library` and `Reports`; three more questions: a grid, what a scenario hands over on a tick, a replay with its difference |
| `Frames` | what scripts may rely on | a stack of frames, of which only the top is worked on |
| `Executor` | `stmt.rs`, `expr.rs`, `userfn.rs`, `env.rs` | the recursion over the tree is a list of items still to do and a stack of operands; `saved` is what calls keep in Rust variables. The tree's expressions and statements are constants; `Put` is every store to a slot with its coercion, `Bind` the binding of arguments. Implements `Frames` |
| `Capability` | classification of calls, `coverage.rs` | `Classify` with a set of locals, used by the run and by the report, as in the code |
| `Hardware` | dispatch of hardware calls, `System.ElapsedTime`, provenance | one action per call with the routes as guards in the code's order, over a startup script and periodic ones; a tick is the queue of its due scripts |

`Values` underlies `Numerics`, `Tables`, `Inputs`, `Executor` and `Hardware`; `Library`
composes the pure libraries, `Offline` adds the files; `Planner` composes the planner's
two halves; `Hardware` composes dispatch and report. `TickLoop`, `Counterfactual`,
`VirtualSerial`, `VirtualCan`, `Stateful`, `Executor` and `Hardware` stand beside each
other: each leaves the others' behaviour open. `MC*` modules and `.cfg` files give the
instances, `*Proofs` modules the proofs. `PROJECT.json` maps every definition to its
lines.

Abstractions that matter. In the modules of order and time a script is its sets of read
and written channels, and a run of it assigns any subset of the latter (assignments may
be conditional); it may fail at any run. Operators count time in base periods and take
integers; a filtered value is any value between the old one and the input, whatever the
time constant, while slopes and the level of `Debounce.Filter` are exact fractions.
Values are compared only by origin there, and rates are divisors of the base rate.
Bytes, words and buffers of the serial adapter have their widths as constants. The CAN
adapter has its own widths; frame times are integers, `Grain` to a tick, with `Slack`
for the tolerance of `arrival_base_tick`; a field is set to bits, so the encoding,
scaling and range checks of values are left out, as are the J1939 NAME fields, name
aliases, and calls that only read. A J1939 getter that polls, finds a frame and then
fails ends the run like any refused call. Integers have `Width` bits, binary32 is a
binary float of `FloatBits` bits with infinities, NaN and one zero, and fixed point has
`Base^Places` units to one: the ends of the ranges, rounding and saturation are kept,
their distance from zero is not. Products are rounded once, as the code's are; the
interpolation of a float body is rounded once at its end, where the code rounds at each
step, so its property is exact only where no rounding happens. A program is a tree of
statements: the text of names and keywords, the type checker's decisions and message
texts are data or left out. Substitution in the body of an expand is kept, because its
second parse decides the keys of operator state. File notations (TOML, JSON, XML, CSV
cells, the bytes of .ld blocks) are replaced by what they parse to, broken files
included. What a virtual device does with a call is left to `VirtualCan` and
`VirtualSerial`; `Hardware` keeps which calls it handled. A sensor's diagnostic is not
told apart from other values. A table is a file of its own, so that one the code
refuses, failing the whole load, is here no table. Rates count half millihertz and times
milliseconds, and binary64 is exact.
Operators named after mutants (their comments start with "Mutant") are defective
variants of the definition below them, used to show that each property notices them.

## Runs

| run | instance and bounds | shows |
|---|---|---|
| `planner` | two families of projects of three functions. Calling: every call graph with self calls, a callee without a script, an incomplete function, periodic roots of one rate. Feeding: no calls, every set of reads, every role at two rates, contested writers | nothing is dropped that agrees with rates and tie policy, the order honours what was kept, the fold against reachability, its refusals, and `Spec` of `Schedule` as a refinement. Three functions give cycles of length 2 and 3, overlapping ones, ties, diamonds and shared callees; for any number of functions see the proofs |
| `tick_loop` | a feedback pair, one writing through a callee, one startup function that may write what a periodic one owns; two rates, three ticks, one driven channel, one initial seed, either order | provenance and flags against origins, dense columns, and plan order in both directions: a reader finds this tick's value of a channel exactly when its writer is due, comes earlier in the plan and assigned it. Three ticks let a value be written, held over a tick it is not due on, and be written again |
| `virtual_serial` | three sites (symmetric) and two handles, two ports, one-bit bytes, two-byte words and buffers, two instants, three declaration lists | reception implements `SerialLink`, reads are complete, words read back. The lists hold unsorted, equal-time, empty, jointly and singly oversized entries |
| `counterfactual` | three functions, all reads up to four in all and two each, a rate that does not divide, logs and overrides on and off the cone, two ticks | cone, order, what its functions find (this tick's value, or for a channel outside the log the one last recorded), and the replay ends |
| `virtual_can` | at most three handles of seven kinds, two buses, two nodes, one DBC message, one base tick, two lists of frames: standard ones out of order, at equal times, off the grid and too short; J1939 ones to a node, to all, to another node, of another group and too long. At most three transfers, the last of which may be sent, or two field writes | reception implements `CanLink`; soundness of handles and registrations; last writes; addressing. Two readers and a tick let one read, lag and catch up while another has read all; three handles are a node, a group and a second node; two writes overlap in both byte orders |
| `stateful` | every operator at one site, five executions (four for timers and filters), inputs below, inside and above the thresholds, periods 1 and 2, limits 0 to 3 | each answer against a definition over the whole history of calls: delays, accept-after-stable, change pulses, hysteresis, smoothing, slopes, timers. Five calls hold a change, a lapse, a return and its ripening at either period |
| `library` | six-bit words, five-bit floats, quarters; operands at and beside every end of each family, NaN and infinities; decimal texts with more places than are kept; thirteen symbols with every way to forward; tables of one and two axes, of one site, enumerated, listed backwards, falling and incomplete; twelve days around every change of calendar; schedules with common, coprime and impossible rates; 23 scenarios, half of which one check refuses; 19 replays of CSV and .ld logs, half of them broken in one way | the nine library, grid, scenario and difference properties. Each call is asked in the states that can change its answer: with an offset, or with one value stored |
| `executor` | two statements out of fourteen in one script, callees that recurse, keep statics, fail after assigning, or call on; call depth 2; three scripts on one store | `Frames` as a refinement, families of slots, and every script ends. Depth 2 holds a call that is refused inside a call; a third run meets what two left |
| `hardware` | a startup script and two periodic ones at two rates, three ticks, five worlds of exact and wildcard overrides and of adapters that decline or answer with other families or fail | clocks, provenance, which virtual device handled which calls, and report. Calls in branches may be skipped, which makes a site lag; three ticks let a slow script run, skip a tick and run again |
| `held_outputs`, `expand_sites`, `coverage_honest` | those of `counterfactual`, `executor` and `hardware` | one documented claim each, which the code does not keep |

The last three are findings in `PROJECT.json`. Every tick of a replay starts with the
whole log in the store, outputs of the cone included, so an output that the log carries
too holds its computed value only while its function is due and is the log's in between
(`runner.rs:1372`), where the comment at 1315 has it hold its last value;
`ConeSeesThisTick` shows that channels outside the log do hold. Operator state in the
bodies of expand statements is keyed by an offset into the body's own text, so bodies
share state with each other and with the script. And `Env.locals` is not cleared between
scripts, so a local that one script declared shadows a function in the next, while the coverage report
counts that call as supported; `ReportHolds` shows that this is the only way in which
the report is too optimistic in the instance.

The `stateful` run also fixes where the operators differ, as none of them is wrong by
its own description: `Delay.Rising` and `Delay.Falling` count from the last call with
the opposite condition; `Debounce.Stable`, `Calculate.Between` and `Calculate.Beyond`
from the first call of the run of equal conditions, one period later; the filtered
`Change` operators on a condition count from the call before the edge. A fresh push of
`Calculate.Hysteresis` also starts at one period but is compared first on its second
call, and a push resumed after the dead band is compared at once.

Where the code parts from its comments and documents without a run of its own, seen
while translating it, the modules follow the code:

* an override in a whole-project run does not survive a computed assignment of its tick
  (`docs/cli.md` has overrides over any computed value);
* CSV columns of channels first written mid-run are shifted to the top (`Trace::to_csv`
  speaks of aligned columns);
* a startup value computed after a defaulted read is labelled external (`trace.rs:273`);
* a CAN frame a rounding error behind a tick is said to have arrived on that tick but
  received first on the next (`docs/virtual-can.md`);
* a .ld channel without samples replays as 0.0, the fallback `scenario.rs:166` calls
  unreachable;
* a replay without overrides may report changes, when the declared family cannot hold
  the logged value (`diff.rs:189` has it empty); hence the last clause of
  `DiffExplainsReplay`. A CSV log column is always a float, so on an integer channel it
  makes the replay fail;
* keyframes of a scenario are not checked for ascending times, those of a CSV are; a CSV
  column replaces only an input spelt alike; two names of a log that resolve to one
  channel, or names relative to a group with several segments, may leave a column
  without its channel or with another one in the difference. `SourcesTakePrecedence`
  and `DiffExplainsReplay` say of which files they speak;
* a keyframe at exactly the end of a log is never replayed, as the log's length is the
  time of its last one.

Two more came out of proofs that failed, with counterexamples from TLC on instances
other than those of the runs:

* with default inputs allowed, a startup script that reads a substituted default and
  computes the same channel leaves a value that counts as external from tick 0 on: the
  channels read by default are added to the external ones for the whole run
  (`runner.rs:584`), and a held sample falls back to that set (`trace.rs:273`).
  `ProvenanceIsTrue` is proved where no startup script runs or no default is allowed;
* "A static local initialises exactly once" (`stmt.rs:728`), except when its
  initialiser calls a function that calls the declaring one again: whether the slot is
  empty is asked before the initialiser runs and not again before the store
  (`stmt.rs:738` to 744), so the outer declaration stores over what the inner one and
  every statement after it left, and may change its family. `SlotsKeepTheirFamily` is
  proved where initialisers call no function with a script.

Fairness: `Schedule`, `Planner`, `TickLoop` and `Counterfactual` have weak fairness of `Next`,
`Executor` of the steps of a script that was started, not of starting one.
The code is a sequential loop; the only assumption is that it keeps running.
`ReplayEnds` and `EvaluationEnds` are the liveness properties that are checked: the
first is about feedback, the second about recursion without an end. `VirtualSerial`,
`VirtualCan`, `Stateful`, `Library` and `Hardware` have none, as scripts need not make
calls. Deadlock checking is off where a run ends by itself (a plan, a trace, an error).

## Proofs

| module | theorems |
|---|---|
| `PlannerProofs` | of `Schedule`, whatever I/O it is given: type correctness, `DroppedClosesCycle`, `DroppedIsFeedback`, `PlanHonoursSelection`, `NeighboursFollowTiePolicy`, selected dependencies are acyclic. Of `Planner`: it implements `Schedule`'s safety part, hence its plans are sound; type correctness; no function is active twice in the walk; `FoldIsReachableIO`, `RefusalIsJustified` |
| `TickLoopProofs` | type correctness; `ColumnsAreHeld`, `CurrentInputsFollowThePlan`, `ProvenanceIsTrue` |
| `CounterfactualProofs` | of `Offline`, and so of `Library`: `CalendarIsInvertible`, `OrderIsCoherent`, `WordsAreExact`, `ConversionsHold`, `GridIsExact`. Of `Counterfactual`: type correctness; `ConeIsDownstream`, `WritersRunFirst`, `ConeSeesThisTick`; every sample of a replay is flagged external exactly when it is from the log or an override |
| `StatefulProofs` | type correctness; `DelaysAreExact`, `AcceptedWhenStable`, `OnePulsePerChange`, `HysteresisIsTimely`, `TimersAreExact`, `SmoothedStaysInside` |
| `ExecutorProofs` | `Executor` implements `Frames` (`CallsAreLexical`); `SlotsKeepTheirFamily`; without a condition on initialisers, channels keep their family and a called function assigns what it declares |
| `HardwareProofs` | `ElapsedSpansExecutions`, `TraceAccountsForAnswers`, `ReportHolds` |
| `SerialProofs` | `VirtualSerial` implements `SerialLink` (`ReceptionIsExact`); `ReadsAreComplete`, `WordsReadBack`, `HandlesHaveOneOwner`, `CursorsAreDue` |
| `VirtualCanProofs` | of `CanCodec`: the big-endian walk is a straight line in mirrored bytes, no field meets itself, the three layouts agree, admitted raw fields fit, what is written is read back, identifiers decode to what was encoded. Of `VirtualCan`: type correctness, `HandlesAreSound`, `FramesReachTheirGroup`, `LastWriteWins`; it implements `CanLink` (`ReceptionIsExact`); set-up is never taken back |

Planner. `SelectionInv` keeps the selection `Orderable`: every non-empty set of
functions has a member no selected dependency of the set points to. Unlike "there
is no path" this is preserved by a one-line argument when an edge without a path
back is added, and it is what Kahn's algorithm needs: if nothing is ready, the set
of unplaced functions has no such member, so it is empty. `OrderInv` ties in-degrees
to the dependencies from unplaced functions. That a dropped dependency is feedback
needs the consideration order: while an agreeing candidate is considered, everything
selected agrees with the tie policy, and so does any path, which therefore cannot
lead from the reader back to the writer. Neighbours follow the policy because a
function that is ready after its predecessor was placed either was ready with it or
became ready by it.

Fold. No induction over the depth of calls is needed: `FoldInv` says that the finished
functions are closed under calls, so none of them reaches an active one; that the stack
is a path of calls; and that each frame has folded exactly the callees it is through
with. A function that finishes has folded all its callees, each with all it reaches.

Refinement. `Planner` maps to `Schedule` by the identity on the shared variables;
the walk's own steps are stutters. `PlannerTypeOK` adds the walk's frames: a frame is
only pushed for a function that is not active, so the stack stays free of repetition.
`Executor` maps to `Frames` by taking, for the stack, the saved frames and the current
one. Its invariant is `Agenda`: the list of things to do holds as many leaves as frames
are saved. Every step is then within a script, a call that saves one frame and adds one
leave, a return that removes both, or an error that unwinds all; the first touches the
top frame only.

Tick loop. `LoopInv` says where each tick stands: columns have no gap up to the open tick,
the store holds what the latest sample says, and a value of the open tick was computed
by a function earlier in the plan or seeded. `FlagInv` adds the labels: the flags
of all samples are true, and a channel that counts as external only because a default
was substituted for it has no value yet, or one that was recorded when it was computed,
so that falling back to the set of external channels is harmless. That a reader misses
nothing its due writer assigned needs two more facts: a function runs once in a tick,
and closing a tick adds no value a script computed on it.

Stateful. An operator does not see the history it is judged by; it keeps a few numbers.
For each family the invariant says which numbers of the history those are: since when
the condition has held, which earlier call is the reference of the present one
(`Reference`: the latest call at which a comparison started afresh), when a push
began, since which update a mean slope is taken. Each promise follows from it in one step.

Executor. `Families`: a channel has its declared family, and the Out of every called
function the declared one; every later store is coerced to what the slot holds. The one
that is not is the first store of a static; `Guarded` says that while an
initialiser is evaluated its static stays empty, which holds if no function runs in
between.

Calendar. No induction over days or years: a year that starts in March has its days
before it in closed form, so a day lies in exactly one era of 400 years, one year of the
era and one month of the year (`Lies`), and each of the three quotients that
`civil_from_days` computes is the one that its bounds leave. Reading the day that a date
has, and taking the day of a date that was read, are then the two directions of one
uniqueness. Seconds of the day are carried into days and out of them in the same way,
which is where offsets enter; a leap second runs on from the 59th. The invariant,
`CalendarInv`, adds that the offset is one that `Timezone` accepts, at most a day. This
theorem and those on numbers and the grid are of `OfflineSpec`, which has every step of
`LibrarySpec` and the questions about files.

Numbers. `AnswersInv` says that an answer is that of the operands that were asked for,
so each claim is one about operators. Rounding to a float is monotone, as the spacing of
floats only grows with the magnitude, and leaves floats alone, so it keeps the order of
what it rounds. That gives the coherence of mixed comparisons, puts a mean of floats
between its operands and makes storing twice storing once. Words are congruent to what
they wrapped modulo `Words`, sums and products keep that, and there is one word of a
family in each class. Powers, decimal places and bits are recursive functions: each is the
only list with its recurrence (`RecurrenceExists`, `RecurrenceIsOne`), and what holds along
it is proved by a least counterexample (`Climbs`).

Grid. What Euclid's recursion computes is a function of the common divisors of its
arguments, so there is such a function and `Gcd` is it; a least pair for which it is no
divisor cannot be. It is used by one property: what divides two multiples of a and b by
the same factor divides that multiple of `Gcd[<<a, b>>]`. So the join of two rates
divides every common multiple of them, and `LeastBase` holds along the fold: what it has
come to divides every base of the rates so far, or there is none within the limit.

Hardware. `History` says that each answer is of a call in the scripts, and that an
answer of this tick is of one that lies behind, so a clock is asked once in a tick;
`Clocks`, that the clock of a site is the time of its last answer. The report needs that
locals are the only thing that makes a name mean something else in the run (`OwnName`
and the lemmas after it). A virtual device changes in the step that answers the call and
in no other, so what it handled is what it answered.

Serial. Cursors: the `CHOOSE` of the first late entry is justified by a least-element
lemma, and nothing before it is late. Ownership is an invariant of the counter.
Reception: a listing of places in order exists and is unique, because the n-th place in
it is the one with n - 1 earlier ones. `ReceptionInv` says that what the events report
as received is the flattening of the first entries of the listing, as many as the
cursor says; a read adds those between the old cursor and the first late entry, and
flattening the two parts one after the other is flattening them together. Flattening is
recursive in the library, so its value is pinned down once, as the only sequence with
certain lengths and members, and used by that from then on. Words: the sum of the first
n digits of v is v modulo `Weight[n]`, which is built up a digit at a time, and a
reversed sequence reversed is itself. Recursive functions are given their values by a
general lemma (`RecurrenceExists`), and what holds for all indices is proved by a least
counterexample.

CAN. Layouts and identifiers are arithmetic of constant divisors, which the SMT
solver settles once quotients and remainders are named. `HandlesAreSound` is
inductive together with `TypeOK`, and is proved in its four parts: sites, registrations
and buses, modules, and what readers hold. The last needs that a reader that hears a
frame keeps hearing it: every step is `Settled`, no kind, configuration, node or module
bus once set is changed. Addressing follows from `IdentifiersDecode`. Last writes:
appending to the history of a handle either covers a place, and is then its last
write, or leaves the last write as it was; a clear empties both. Reception: the frames a
reader heard among the first `cursor` ones are as many as it took (`ReceptionInv`), so
what the scan finds next is the frame with that many wanted ones before it, which is
what `CanLink` offers. This needs that a frame a reader hears is one it wants, mask and
group included, that both are settled from the moment a reader listens, and that a
reader opened late starts at the first frame.

Replay. While the walk runs, the visited functions, the stack and the rest keep
`Walked`: everything downstream of a visited function is visited or on the stack,
and everything seen is reachable from a reader of an override. With an empty stack
the cone is closed, which with `PathExists` gives equality. `topo_order` puts functions
into the order that have no unplaced writer, and gives up when there is none: then
every function left has a writer that is left, so going back from any of them never
ends, which in a finite set is a cycle. For the store: each value is of this tick, or
computed and not logged. For the trace: driven channels hold what drives them until it
is recorded, and the others have no external sample. A channel nothing drives holds what
the trace has for it on the open tick, and until something is written there what it has
on the tick before (`HoldInv`); recording on the open tick leaves the earlier ones alone,
so what an execution found keeps its explanation.

What the proofs assume. The constants' assumptions of the modules, which say what a
loaded project, plan or scenario is and which TLC evaluates for each instance:
`ProjectAssumption`, `RatesAssumption`, `CallFoldAssumption` (functions without a script
are none of the functions), `TraceAssumption`, `TickLoopAssumption` (no two
periodic functions write one channel, as the planner refuses them),
`CounterfactualAssumption`, `StatefulAssumption`, `SyntaxAssumption` and
`ExecutorAssumption` (bodies and arguments are lists, parts of a tree are in the tree),
`CapabilityAssumption`, `HardwareAssumption` (no two calls of a script are at one
place), `VirtualSerialAssumption` (a byte has at least two values), `VirtualCanAssumption`
(declared identifiers fit their format, as `validate_scenario_frame` demands, and the
value for no frame is not a frame), `CalendarAssumption` (timestamps are M1 Integers and
the fields of dates integers), `ValuesAssumption` (widths and bases are positive, and the
names of enumerations none of a built-in family), `OperandsAssumption` (an operand is a
value of its family, and every word is below the largest float, as 2^32 is below that of
binary32), `GridAssumption` (rates and durations are not negative). A date of `FromGPS` is one that a satellite can
write, with two digits each (`SatelliteDate`). And three hypotheses of single theorems:

* `StartupIsSeeded`, for `ProvenanceIsTrue`: no default is allowed or nothing runs at
  startup. Without it the claim is false, as said above;
* `InitialisersCallNothing`, for `SlotsKeepTheirFamily`: also false without. The code
  refuses no such program, so this is a limit of the theorem; those of `MCExecutor`
  satisfy it;
* `RangeIsOrdered`, for `SmoothedStaysInside`: the least value of `Integral` is not above
  the greatest. The code clamps with `max` and then `min` (`stateful.rs:435`) and does
  not ask.

Trying to prove a claim also improved the models. Where a `CASE` had overlapping
branches TLC takes the first and the prover may take any, so these are nested
`IF`s now, in the code's order; and a junction list out of line in `Stateful`, which
had put a conjunct under the wrong bullet, was found by an obligation that would not
close.

Model-checked only:

* all liveness: `ReplayEnds`, `EvaluationEnds`, and the fairness in `Planner`'s
  refinement of `Schedule`;
* of `Library`, `ObjectsAgree` and `TableFollowsCells`, and of `Offline`,
  `SourcesTakePrecedence` and `DiffExplainsReplay`: they judge single answers of walks
  over symbols, interpolation axis by axis, sorting and folding of files, which would be
  induction over data.

## Not modelled

`PROJECT.json` lists every part with what is left out of it. In short:

* parsing of projects, scripts and files, the command line and the rendering of traces
  and reports: sequential and without state that outlasts them;
* conformance vectors and the I/O summary: the first compares recorded numbers, the
  second walks syntax;
* functions on binary32 whose result is the rounding itself: roots, powers, logarithms,
  angles, the blend factors of `Filter.*`;
* J1939 NAME fields, scaling of CAN values, checksums and text of the serial adapter,
  getters that only read a buffer, strings, text of the System library;
* the legacy ordering `order_by_dependency_then_rate`.

## Plan

`Executor` in place of `TickLoop`'s free assignments, on an instance small enough for both.
