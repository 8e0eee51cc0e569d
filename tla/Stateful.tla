------------------------------ MODULE Stateful ------------------------------
(***************************************************************************)
(* The stateful operators of the script language                           *)
(* (src/builtins/stateful.rs).  A call site owns one operator state (slot) *)
(* and every execution of the site advances it by the period of the        *)
(* executing function.  A site inside an inlined function is shared by its *)
(* callers, so the period may differ from one execution to the next.  A    *)
(* Timer is an object: its calls come at absolute times, the sums of the   *)
(* periods here.                                                           *)
(*                                                                         *)
(* Time is counted in base periods and values are integers: binary32       *)
(* rounding is left out, and a smoothed value is any value between the     *)
(* previous one and the input.  Slopes and the level of a filtered         *)
(* debounce are exact fractions.                                           *)
(***************************************************************************)
EXTENDS Integers, Sequences

CONSTANTS
  Inputs,       \* values of the first argument
  Periods,      \* periods of the functions that execute the site
  Limits,       \* delay, filter and timer periods
  NoFilter,     \* a call without a time: smoothing, Change without filter
  Deltas,       \* the delta arguments
  Low, High,    \* hysteresis thresholds; x >= High is the Boolean condition
  Least, Most,  \* range and clamp arguments
  Smoothing     \* FILTERED_DERIVATIVE_TC

Delays  == {"Delay.Rising", "Delay.Falling"}
Stables == {"Delay.Stable", "Calculate.Stable"}
Ranges  == {"Calculate.Between", "Calculate.Beyond"}
Changes == {"Change.By", "Change.Up", "Change.Down"}
Flanks  == {"Change.To", "Change.From", "Change.Either"}
Filters == {"Filter.FirstOrder", "Filter.Maximum", "Filter.Minimum"}
Slopes  == {"Derivative.Normal", "Derivative.Filtered"}
Smooths == Filters \cup Slopes \cup {"Integral.Normal"}
OnlyTimed == Delays \cup Stables \cup Ranges
             \cup {"Debounce.Stable", "Debounce.Filter", "Calculate.Hysteresis",
                   "Derivative.Adaptive", "Timer"}
Operators == OnlyTimed \cup Changes \cup Flanks \cup Smooths

ASSUME StatefulAssumption ==
  /\ Inputs \subseteq Int /\ Periods \subseteq Nat \ {0}
  /\ Limits \subseteq Nat /\ NoFilter \notin Limits
  /\ Deltas \subseteq Nat /\ Smoothing \in Nat
  /\ Low \in Int /\ High \in Int /\ Least \in Int /\ Most \in Int

VARIABLES
  operator,     \* the operator at the site
  limit, delta, \* its constant arguments
  slot,         \* OpState of the site
  calls         \* the executions so far: input, time and answer of each,
                \* and up to it, the area under the inputs and the share of
                \* a level that would be left of its start

site == <<operator, limit, delta>>
vars == <<operator, limit, delta, slot, calls>>

Uninit == [kind |-> "Uninit"]
Timed(output, candidate, held) ==
  [kind |-> "Timed", output |-> output, candidate |-> candidate, held |-> held]
ChangeBy(x, held, pending) ==
  [kind |-> "ChangeBy", x |-> x, held |-> held, pending |-> pending]
ChangeEdge(prev, held) == [kind |-> "ChangeEdge", prev |-> prev, held |-> held]
Filter(y)         == [kind |-> "Filter", y |-> y]
Integral(acc, x)  == [kind |-> "Integral", acc |-> acc, x |-> x]
Derivative(x, d)  == [kind |-> "Derivative", x |-> x, d |-> d]
DerivativeAdaptive(x, d, elapsed) ==
  [kind |-> "DerivativeAdaptive", x |-> x, d |-> d, elapsed |-> elapsed]
DebounceFilter(output, level) ==
  [kind |-> "DebounceFilter", output |-> output, level |-> level]
Timer(remaining, running) ==
  [kind |-> "Timer", remaining |-> remaining, running |-> running]

Fresh == slot = Uninit

Kinds ==
  [o \in Operators |->
     CASE o \in Delays \cup Ranges \cup {"Debounce.Stable", "Calculate.Hysteresis"} -> "Timed"
       [] o \in Stables \cup Changes -> "ChangeBy"
       [] o \in Flanks  -> "ChangeEdge"
       [] o \in Filters -> "Filter"
       [] o = "Integral.Normal" -> "Integral"
       [] o \in Slopes -> "Derivative"
       [] o = "Derivative.Adaptive" -> "DerivativeAdaptive"
       [] o = "Debounce.Filter" -> "DebounceFilter"
       [] o = "Timer" -> "Timer"]

TypeOK ==
  /\ Fresh \/ slot.kind = Kinds[operator]
  /\ slot.kind \in {"Timed", "ChangeBy", "ChangeEdge"} => slot.held \in Nat
  /\ slot.kind = "Timed" => slot.output \in BOOLEAN /\ slot.candidate \in BOOLEAN
  /\ slot.kind = "ChangeBy" => slot.x \in Inputs /\ slot.pending \in BOOLEAN
  /\ slot.kind = "Timer" => slot.remaining \in Nat /\ slot.running \in BOOLEAN

-----------------------------------------------------------------------------
Init ==
  /\ operator \in Operators
  /\ limit \in (IF operator \in Smooths THEN {} ELSE Limits)
               \cup (IF operator \in Operators \ OnlyTimed THEN {NoFilter} ELSE {})
  /\ delta \in IF operator \in Changes \cup {"Delay.Stable", "Derivative.Adaptive"}
              THEN Deltas ELSE {0}
  /\ slot = Uninit
  /\ calls = <<>>

Condition(x) == x >= High

Fraction(num, den) == [num |-> num, den |-> den]

Last    == Len(calls)
X(i)    == calls[i].x
Cond(i) == Condition(X(i))
At(i)   == IF i = 0 THEN 0 ELSE calls[i].at
Area(i) == IF i = 0 THEN 0 ELSE calls[i].area
Share(i) == IF i = 0 THEN Fraction(1, 1) ELSE calls[i].share
Answer  == calls[Last].answer
Elapsed(k, n) == At(n) - At(k)

(* One execution of the site by a function of period dt. *)
Execute(method, x, dt, answer) ==
  /\ calls' = Append(calls, [method |-> method, x |-> x, at |-> At(Last) + dt,
                             area |-> IF Last = 0 THEN 0 ELSE Area(Last) + (X(Last) + x) * dt,
                             share |-> IF limit = NoFilter THEN Share(Last)
                                       ELSE Fraction(Share(Last).num * limit,
                                                     Share(Last).den * (limit + dt)),
                             answer |-> answer])
  /\ UNCHANGED site

(* Mutant: the held time is not reset.                                     *)
HeldOn(continues, dt) == IF Fresh THEN 0 ELSE slot.held + dt

(* The time counted by the slot, which starts again at zero.               *)
Held(continues, dt) == IF continues THEN slot.held + dt ELSE 0

AbsDiff(x, y) == IF x >= y THEN x - y ELSE y - x

(* Delay.Rising, Delay.Falling: the edge to the delayed value waits.       *)
EdgeDelay(x, dt) ==
  /\ operator \in Delays
  /\ LET rising == operator = "Delay.Rising"
         waits  == ~Fresh /\ Condition(x) = rising
         held   == Held(waits, dt)
         output == IF ~waits THEN ~rising
                   ELSE IF held >= limit THEN rising ELSE slot.output
     IN  /\ slot' = Timed(output, Condition(x), held)
         /\ Execute("call", x, dt, output)

(* Delay.Stable and Calculate.Stable: time since x left its reference.     *)
Stable(x, dt) ==
  /\ operator \in Stables
  /\ LET moved  == Fresh \/ AbsDiff(slot.x, x) > delta
         held   == Held(~moved, dt)
         output == ~moved /\ held >= limit
     IN  /\ slot' = ChangeBy(IF moved THEN x ELSE slot.x, held, output)
         /\ Execute("call", x, dt, output)

(* Debounce.Stable: the committed output changes once a new value has      *)
(* been stable for long enough.                                            *)
DebounceStable(x, dt) ==
  /\ operator = "Debounce.Stable"
  /\ LET cond   == Condition(x)
         same   == ~Fresh /\ cond = slot.candidate
         held   == Held(same, dt)
         output == IF Fresh \/ (same /\ held >= limit) THEN cond ELSE slot.output
     IN  /\ slot' = Timed(output, cond, held)
         /\ Execute("call", x, dt, output)

(* Calculate.Between and Beyond, on the kernel timed_predicate.            *)
TimedRange(x, dt) ==
  /\ operator \in Ranges
  /\ LET inRange   == Least <= x /\ x <= Most
         cond      == inRange <=> operator = "Calculate.Between"
         candidate == ~Fresh /\ slot.candidate
         held      == IF cond # candidate THEN 0
                      ELSE (IF Fresh THEN 0 ELSE slot.held) + dt
         output    == cond /\ candidate /\ held >= limit
     IN  /\ slot' = Timed(output, cond, held)
         /\ Execute("call", x, dt, output)

(* Change.By, Up and Down against the last input that was no change.       *)
Qualifies(from, to) ==
  /\ AbsDiff(from, to) >= delta
  /\ operator = "Change.Up" => to >= from
  /\ operator = "Change.Down" => to <= from

(* Mutant: a change that lasts pulses on every tick.                       *)
ChangeRepeats(x, dt) ==
  /\ operator \in Changes
  /\ LET lasts == ~Fresh /\ limit # NoFilter /\ Qualifies(slot.x, x)
         ripe  == lasts /\ Held(lasts, dt) >= limit
         pulse == ripe \/ (~Fresh /\ limit = NoFilter /\ Qualifies(slot.x, x))
     IN  /\ slot' = ChangeBy(IF lasts THEN slot.x ELSE x, Held(lasts, dt), ripe)
         /\ Execute("call", x, dt, pulse)

ChangeInValue(x, dt) ==
  /\ operator \in Changes
  /\ LET lasts == ~Fresh /\ limit # NoFilter /\ Qualifies(slot.x, x)
         held  == Held(lasts, dt)
         ripe  == lasts /\ ~slot.pending /\ held >= limit
         pulse == ripe \/ (~Fresh /\ limit = NoFilter /\ Qualifies(slot.x, x))
     IN  /\ slot' = IF lasts THEN ChangeBy(slot.x, held, slot.pending \/ ripe)
                             ELSE ChangeBy(x, 0, FALSE)
         /\ Execute("call", x, dt, pulse)

(* Change.To, From and Either on the condition. *)
Flank(from, to) ==
  \/ operator \in {"Change.To", "Change.Either"} /\ ~from /\ to
  \/ operator \in {"Change.From", "Change.Either"} /\ from /\ ~to

ChangeInCondition(x, dt) ==
  /\ operator \in Flanks
  /\ LET cond   == Condition(x)
         edge   == ~Fresh /\ Flank(slot.prev, cond)
         waits  == ~Fresh /\ ~edge /\ limit # NoFilter /\ slot.held > 0 /\ cond = slot.prev
         ripe   == waits /\ slot.held + dt >= limit
         pulse  == ripe \/ (edge /\ limit = NoFilter)
         held   == IF edge /\ limit # NoFilter THEN dt
                   ELSE IF waits /\ ~ripe THEN slot.held + dt ELSE 0
     IN  /\ slot' = ChangeEdge(cond, held)
         /\ Execute("call", x, dt, pulse)

(* Calculate.Hysteresis: x pushes toward TRUE or FALSE or is in the dead   *)
(* band.  A push against the output starts with its own period and is not  *)
(* compared with the limit until the next call; the candidate survives the *)
(* dead band, after which a push is no fresh one.                          *)
Pushes(x, target) == IF target THEN x >= High ELSE x <= Low /\ x < High

(* Mutant: the dead band does not stop the count.                          *)
PushHeldOn(against, again, dt) ==
  IF ~against THEN (IF Fresh THEN 0 ELSE slot.held)
  ELSE (IF again THEN slot.held ELSE 0) + dt

PushHeld(against, again, dt) ==
  IF ~against THEN 0 ELSE (IF again THEN slot.held ELSE 0) + dt

Hysteresis(x, dt) ==
  /\ operator = "Calculate.Hysteresis"
  /\ LET was       == ~Fresh /\ slot.output
         candidate == ~Fresh /\ slot.candidate
         against   == Pushes(x, ~was)
         again     == against /\ candidate = ~was
         held      == PushHeld(against, again, dt)
         output    == IF again /\ held >= limit THEN ~was ELSE was
     IN  /\ slot' = Timed(output,
                          IF against THEN ~was ELSE IF Pushes(x, was) THEN was ELSE candidate,
                          held)
         /\ Execute("call", x, dt, output)

(* Filter.FirstOrder, Maximum and Minimum: y is the new output. *)
Smooth(method, x, dt, y) ==
  /\ operator \in Filters
  /\ method \in {"call", "reset"}
  /\ LET follows == \/ Fresh \/ method = "reset"
                    \/ operator = "Filter.Maximum" /\ x >= slot.y
                    \/ operator = "Filter.Minimum" /\ x <= slot.y
     IN  IF follows THEN y = x
         ELSE \/ x <= y /\ y <= slot.y
              \/ slot.y <= y /\ y <= x
  /\ slot' = Filter(y)
  /\ Execute(method, x, dt, y)

(* Integral.Normal by trapezoids, in half units; the preset is Low.        *)
Clamp(v) ==
  LET raised == IF v >= 2 * Least THEN v ELSE 2 * Least
  IN  IF raised <= 2 * Most THEN raised ELSE 2 * Most

(* Mutant: the state winds up behind a clamped answer.                     *)
IntegrateFreely(method, x, dt) ==
  /\ operator = "Integral.Normal"
  /\ method \in {"call", "reset"}
  /\ LET acc == IF method = "reset" THEN 2 * Low
                ELSE IF Fresh THEN 0 ELSE slot.acc + (x + slot.x) * dt
     IN  /\ slot' = Integral(acc, x)
         /\ Execute(method, x, dt, Clamp(acc))

Integrate(method, x, dt) ==
  /\ operator = "Integral.Normal"
  /\ method \in {"call", "reset"}
  /\ LET acc == IF method = "reset" THEN Clamp(2 * Low)
                ELSE IF Fresh THEN Clamp(0)
                ELSE Clamp(slot.acc + (x + slot.x) * dt)
     IN  /\ slot' = Integral(acc, x)
         /\ Execute(method, x, dt, acc)

(* By first_order_alpha, the level moves to its target by dt of tc + dt.   *)
Blended(level, target, tc, dt) ==
  Fraction(level.num * tc + target * level.den * dt, level.den * (tc + dt))

(* Derivative.Normal and Filtered: the difference to the previous input    *)
(* over the period, which the smoothing multiplies by the period again;    *)
(* nothing on the first call.                                              *)
Slope(x, dt) ==
  IF operator = "Derivative.Normal" THEN Fraction(x - slot.x, dt)
  ELSE Fraction(slot.d.num * Smoothing + (x - slot.x) * slot.d.den,
                slot.d.den * (Smoothing + dt))

Derive(x, dt) ==
  /\ operator \in Slopes
  /\ LET d == IF Fresh THEN Fraction(0, 1) ELSE Slope(x, dt)
     IN  /\ slot' = Derivative(x, d)
         /\ Execute("call", x, dt, d)

(* Derivative.Adaptive: the slope since the last update, taken again when  *)
(* the input has moved by delta or limit has passed, if there is one.      *)
DeriveAdaptively(x, dt) ==
  /\ operator = "Derivative.Adaptive"
  /\ LET elapsed == IF Fresh THEN 0 ELSE slot.elapsed + dt
         updates == ~Fresh /\ (AbsDiff(x, slot.x) >= delta \/ (limit > 0 /\ elapsed >= limit))
         d       == IF updates THEN Fraction(x - slot.x, elapsed)
                    ELSE IF Fresh THEN Fraction(0, 1) ELSE slot.d
     IN  /\ slot' = DerivativeAdaptive(IF Fresh \/ updates THEN x ELSE slot.x, d,
                                       IF updates THEN 0 ELSE elapsed)
         /\ Execute("call", x, dt, d)

(* Debounce.Filter: the condition through a filter of time limit, and the  *)
(* thresholds 0.2 and 0.8; the first call starts at the condition.         *)
DebounceFiltered(x, dt) ==
  /\ operator = "Debounce.Filter"
  /\ LET cond   == Condition(x)
         target == IF cond THEN 1 ELSE 0
         level  == Blended(IF Fresh THEN Fraction(target, 1) ELSE slot.level, target, limit, dt)
         output == \/ 5 * level.num >= 4 * level.den
                   \/ 5 * level.num > level.den /\ IF Fresh THEN cond ELSE slot.output
     IN  /\ slot' = DebounceFilter(output, level)
         /\ Execute("call", x, dt, output)

(* The methods of a Timer object at time now; a running timer stores its   *)
(* deadline, a stopped one what was left.                                  *)
Positive(v) == IF v > 0 THEN v ELSE 0

(* Mutant: a stopped timer goes on. *)
LeftRunning(was, now) == Positive(was.remaining - now)

Left(was, now) ==
  IF was.running THEN Positive(was.remaining - now) ELSE was.remaining

TimerCall(method, dt) ==
  /\ operator = "Timer"
  /\ method \in {"Start", "Stop", "Reset", "Remaining"}
  /\ LET now  == At(Last) + dt
         was  == IF Fresh THEN Timer(0, FALSE) ELSE slot
         left == Left(was, now)
     IN  /\ slot' = IF method = "Remaining" THEN slot
                    ELSE Timer(IF method = "Start" THEN now + limit
                               ELSE IF method = "Stop" THEN left ELSE 0,
                               method = "Start")
         /\ Execute(method, 0, dt, IF method = "Remaining" THEN left ELSE TRUE)

Next ==
  \/ \E dt \in Periods, x \in Inputs :
       \/ EdgeDelay(x, dt)
       \/ Stable(x, dt)
       \/ DebounceStable(x, dt)
       \/ TimedRange(x, dt)
       \/ ChangeInValue(x, dt)
       \/ ChangeInCondition(x, dt)
       \/ Hysteresis(x, dt)
       \/ Derive(x, dt)
       \/ DeriveAdaptively(x, dt)
       \/ DebounceFiltered(x, dt)
       \/ \E method \in {"call", "reset"} :
            Integrate(method, x, dt) \/ \E y \in Inputs : Smooth(method, x, dt, y)
  \/ \E dt \in Periods \cup {0}, method \in {"Start", "Stop", "Reset", "Remaining"} :
       TimerCall(method, dt)

Spec == Init /\ [][Next]_vars

-----------------------------------------------------------------------------
(* What the latest answer should be, from the history of calls alone.      *)
Pairs == (1..Last) \X (1..Last)

(* k is the latest call up to n at which a comparison started afresh, R    *)
(* all of them: each call is compared with the latest in R, and joins R    *)
(* when that pair is not kept.                                             *)
Reference(k, n, kept) ==
  \E R \in SUBSET (1..k) :
    /\ {1, k} \subseteq R
    /\ \A i \in 2..n :
         \E j \in R :
           /\ j < i /\ \A m \in R : m <= j \/ i <= m
           /\ i \in R <=> <<j, i>> \notin kept

(* Delay.Rising and Falling give the delayed value exactly when the        *)
(* condition has had it on every call after one at least the delay ago.    *)
DelaysAreExact ==
  (operator \in Delays /\ Last > 0) =>
    LET delayed == operator = "Delay.Rising"
    IN  Answer = delayed <=>
          \E k \in 1..(Last - 1) :
            /\ \A i \in (k + 1)..Last : Cond(i) = delayed
            /\ Elapsed(k, Last) >= limit

Within(i) == (Least <= X(i) /\ X(i) <= Most) <=> operator = "Calculate.Between"

(* The call at n confirms the condition: unchanged since a call at least   *)
(* the filter time before.                                                 *)
Confirmed(n) ==
  \E k \in 1..(n - 1) : (\A i \in k..n : Cond(i) = Cond(n)) /\ Elapsed(k, n) >= limit

(* Accept after stable: an operator of this family answers by what has     *)
(* been so since an earlier call at least the filter time ago, and         *)
(* Debounce.Stable by the latest condition of which that was true.         *)
AcceptedWhenStable ==
  Last > 0 =>
    /\ operator \in Stables =>
         \E k \in 1..Last :
           /\ Reference(k, Last, {p \in Pairs : AbsDiff(X(p[1]), X(p[2])) <= delta})
           /\ Answer <=> k < Last /\ Elapsed(k, Last) >= limit
    /\ operator \in Ranges =>
         (Answer <=> \E k \in 1..(Last - 1) :
                       (\A i \in k..Last : Within(i)) /\ Elapsed(k, Last) >= limit)
    /\ operator = "Debounce.Stable" =>
         \E n \in 1..Last :
           /\ n = 1 \/ Confirmed(n)
           /\ \A m \in (n + 1)..Last : ~Confirmed(m)
           /\ Answer = Cond(n)

(* The first call, counted from k, at which the filter time has passed.    *)
Ripens(k) == Elapsed(k, Last) >= limit /\ (k < Last - 1 => Elapsed(k, Last - 1) < limit)

(* A change that lasts for the filter time gives one pulse, on the first   *)
(* call on which it has; a shorter one gives none, and without a filter    *)
(* each change gives its own at once.                                      *)
OnePulsePerChange ==
  Last > 0 =>
    /\ operator \in Changes =>
         IF limit = NoFilter THEN Answer <=> Last > 1 /\ Qualifies(X(Last - 1), X(Last))
         ELSE \E k \in 1..Last :
                /\ Reference(k, Last, {p \in Pairs : Qualifies(X(p[1]), X(p[2]))})
                /\ Answer <=> k < Last /\ Ripens(k)
    /\ operator \in Flanks =>
         (Answer <=> \E e \in 2..Last :
                       /\ Flank(Cond(e - 1), Cond(e))
                       /\ \A i \in e..Last : Cond(i) = Cond(e)
                       /\ IF limit = NoFilter THEN e = Last
                          ELSE /\ e < Last /\ Elapsed(e - 1, Last) >= limit
                               /\ e < Last - 1 => Elapsed(e - 1, Last - 1) < limit)

Pushing(target, k, n) == \A i \in k..n : Pushes(X(i), target)

(* Calculate.Hysteresis follows an unbroken push that has lasted for the   *)
(* filter time, the first call's own period included, from the push's      *)
(* second call on; without such a push it keeps its answer.                *)
HysteresisIsTimely ==
  (operator = "Calculate.Hysteresis" /\ Last > 0) =>
    /\ Answer # (IF Last = 1 THEN FALSE ELSE calls[Last - 1].answer) =>
         \E k \in 1..Last : Pushing(Answer, k, Last) /\ Elapsed(k - 1, Last) >= limit
    /\ \A v \in BOOLEAN, k \in 1..(Last - 1) :
         Pushing(v, k, Last) /\ Elapsed(k - 1, Last) >= limit => Answer = v

LastReset == CHOOSE r \in 1..Last : /\ r = 1 \/ calls[r].method = "reset"
                                    /\ \A i \in (r + 1)..Last : calls[i].method # "reset"

FiltersStayInside ==
  operator \in Filters =>
    /\ \E i, j \in LastReset..Last : X(i) <= Answer /\ Answer <= X(j)
    /\ operator = "Filter.Maximum" => Answer >= X(Last)
    /\ operator = "Filter.Minimum" => Answer <= X(Last)

IntegralsStayInside ==
  operator = "Integral.Normal" =>
    /\ 2 * Least <= Answer /\ Answer <= 2 * Most
    /\ \A k \in LastReset..Last :
         /\ (\A i \in (k + 1)..Last : calls[i].answer > 2 * Least) =>
               Answer <= 2 * Most + Area(Last) - Area(k)
         /\ (\A i \in (k + 1)..Last : calls[i].answer < 2 * Most) =>
               Answer >= 2 * Least + Area(Last) - Area(k)

AtMost(p, q) == p.num * q.den <= q.num * p.den
Step(k, n)   == IF k = n THEN Fraction(0, 1) ELSE Fraction(X(n) - X(k), Elapsed(k, n))

(* The pairs of calls between which an adaptive slope is not taken again.  *)
NotTaken ==
  {p \in Pairs :
     AbsDiff(X(p[1]), X(p[2])) < delta /\ (limit > 0 => Elapsed(p[1], p[2]) < limit)}

SlopesStayInside ==
  /\ operator \in Slopes \cup {"Derivative.Adaptive"} =>
       LET seen == {Step(IF i = 1 THEN 1 ELSE i - 1, i) : i \in 1..Last}
       IN  \E least, most \in seen : AtMost(least, Answer) /\ AtMost(Answer, most)
  /\ operator = "Derivative.Adaptive" =>
       \E n \in 1..Last :
         /\ Reference(n, Last, NotTaken)
         /\ n > 1 => \E k \in 1..(n - 1) :
              /\ Reference(k, n - 1, NotTaken)
              /\ AtMost(Step(k, n), Answer) /\ AtMost(Answer, Step(k, n))

(* What is left of a level after the calls from k on that all push it off: *)
(* of each, limit in limit and its period.                                 *)
Remains(k) == IF limit = 0 THEN Fraction(0, 1)
              ELSE Fraction(Share(Last).num * Share(k - 1).den,
                            Share(Last).den * Share(k - 1).num)

LevelsFollow ==
  operator = "Debounce.Filter" =>
    /\ Last > 1 /\ Answer # calls[Last - 1].answer => Answer = Cond(Last)
    /\ \A k \in 1..Last :
         (\A i \in k..Last : Cond(i) = Cond(Last)) /\ AtMost(Remains(k), Fraction(1, 5)) =>
           Answer = Cond(Last)

(* A filter stays between the inputs seen since its last reset, Maximum    *)
(* never below the present one and Minimum never above it.  An integral    *)
(* stays in its range and never winds up: what it took in at a bound does  *)
(* not delay its return.  A slope stays between the slopes from call to    *)
(* call, and an adaptive one is the mean over the interval between its     *)
(* updates.  A filtered debounce turns only to the present condition, and  *)
(* has once four fifths of any level would have followed it.               *)
SmoothedStaysInside ==
  Last > 0 => FiltersStayInside /\ IntegralsStayInside /\ SlopesStayInside /\ LevelsFollow

(* Remaining answers the period of the latest Start, less the time the     *)
(* timer has run since, whatever was read in between: to the first Stop    *)
(* after it, or to now; nothing after a Reset.                             *)
TimersAreExact ==
  (Last > 0 /\ operator = "Timer" /\ calls[Last].method = "Remaining") =>
    LET Calls(method) == {i \in 1..Last : calls[i].method = method}
        Begun == {s \in Calls("Start") : \A i \in Calls("Start") \cup Calls("Reset") : i <= s}
        Until(s) == {t \in (s + 1)..Last :
                       /\ t \in Calls("Stop") \cup {Last}
                       /\ \A i \in (s + 1)..(t - 1) : i \notin Calls("Stop")}
    IN  /\ Begun = {} => Answer = 0
        /\ \A s \in Begun : \A t \in Until(s) :
             Answer = Positive(limit - Elapsed(s, t))
=============================================================================
