--------------------------- MODULE StatefulProofs ---------------------------
(***************************************************************************)
(* Theorems of Stateful, for every input, period, delay, threshold and     *)
(* number of executions.  An operator keeps a few numbers of a history     *)
(* that it does not see; each section says what those numbers are of the   *)
(* history, which is the invariant of the operator, and draws its promise  *)
(* from that.                                                              *)
(***************************************************************************)
EXTENDS Stateful, TLAPS

USE StatefulAssumption

Answers == BOOLEAN \cup Int \cup [num : Int, den : Int]

Methods == {"call", "reset", "Start", "Stop", "Reset", "Remaining"}

Shares == [num : Nat, den : Nat]

Calls == [method : Methods, x : Int, at : Nat, area : Int, share : Shares, answer : Answers]

TimedSlots == [kind : {"Timed"}, output : BOOLEAN, candidate : BOOLEAN, held : Nat]
ChangeSlots == [kind : {"ChangeBy"}, x : Int, held : Nat, pending : BOOLEAN]
EdgeSlots == [kind : {"ChangeEdge"}, prev : BOOLEAN, held : Nat]

ArgumentsOK ==
  /\ operator \in Operators
  /\ operator \in OnlyTimed => limit \in Limits
  /\ limit \in Limits \cup {NoFilter}
  /\ delta \in Nat

HistoryOK ==
  /\ calls \in Seq(Calls)
  /\ \A i, j \in 1..Last : i <= j => At(i) <= At(j)

(* The types of the arguments, the history and the slot.                   *)
Shape ==
  /\ ArgumentsOK
  /\ HistoryOK

LEMMA Appended ==
  ASSUME Shape, NEW method, NEW x, NEW dt, NEW answer, Execute(method, x, dt, answer)
  PROVE  /\ Last' = Last + 1
         /\ \A i \in 1..Last : calls'[i] = calls[i]
         /\ calls'[Last + 1].method = method
         /\ calls'[Last + 1].x = x
         /\ calls'[Last + 1].at = At(Last) + dt
         /\ calls'[Last + 1].area = IF Last = 0 THEN 0 ELSE Area(Last) + (X(Last) + x) * dt
         /\ calls'[Last + 1].share =
              IF limit = NoFilter THEN Share(Last)
              ELSE Fraction(Share(Last).num * limit, Share(Last).den * (limit + dt))
         /\ calls'[Last + 1].answer = answer
         /\ UNCHANGED site
<1> DEFINE area  == IF Last = 0 THEN 0 ELSE Area(Last) + (X(Last) + x) * dt
           share == IF limit = NoFilter THEN Share(Last)
                    ELSE Fraction(Share(Last).num * limit, Share(Last).den * (limit + dt))
           call  == [method |-> method, x |-> x, at |-> At(Last) + dt,
                     area |-> area, share |-> share, answer |-> answer]
<1>1. calls' = Append(calls, call) /\ UNCHANGED site
  BY DEF Execute
<1>2. calls \in Seq(Calls)
  BY DEF Shape, HistoryOK
<1> HIDE DEF area, share
<1>3. PICK c : c = call
  OBVIOUS
<1>4. /\ c.method = method /\ c.x = x /\ c.at = At(Last) + dt /\ c.answer = answer
      /\ c.area = area /\ c.share = share
  BY <1>3
<1> HIDE DEF call
<1>5. calls' = Append(calls, c)
  BY <1>1, <1>3
<1>6. /\ Len(calls') = Len(calls) + 1
      /\ \A i \in 1..Len(calls) : calls'[i] = calls[i]
      /\ calls'[Len(calls) + 1] = c
  BY <1>2, <1>5
<1> QED BY <1>1, <1>4, <1>6 DEF Last, area, share

LEMMA HistoryStays ==
  ASSUME Shape, NEW method \in Methods, NEW x \in Int, NEW dt \in Nat, NEW answer \in Answers,
         Execute(method, x, dt, answer)
  PROVE  Shape'
<1> PICK n \in Nat : n = Last
  BY DEF Shape, HistoryOK, Last
<1>1. /\ Last' = n + 1
      /\ \A i \in 1..n : calls'[i] = calls[i]
      /\ calls'[n + 1].at = At(n) + dt
      /\ UNCHANGED site
  BY Appended
<1>2. \A i \in 1..n : calls[i] \in Calls
  BY DEF Shape, HistoryOK, Last
<1>3. At(n) \in Nat /\ \A i \in 1..n : At(i) \in Nat
  <2>1. \A c \in Calls : c.at \in Nat
    BY DEF Calls
  <2> QED BY <1>2, <2>1 DEF At
<1>4. calls' \in Seq(Calls)
  <2> DEFINE area  == IF Last = 0 THEN 0 ELSE Area(Last) + (X(Last) + x) * dt
             share == IF limit = NoFilter THEN Share(Last)
                      ELSE Fraction(Share(Last).num * limit, Share(Last).den * (limit + dt))
             call  == [method |-> method, x |-> x, at |-> At(Last) + dt,
                       area |-> area, share |-> share, answer |-> answer]
  <2>1. area \in Int
    <3>1. n > 0 => calls[n].area \in Int /\ calls[n].x \in Int
      BY <1>2 DEF Calls
    <3> QED BY <3>1 DEF Area, X
  <2>2. share \in Shares
    <3>1. Share(n) \in Shares
      <4>1. Fraction(1, 1) \in Shares
        BY DEF Fraction, Shares
      <4>2. \A c \in Calls : c.share \in Shares
        BY DEF Calls
      <4> QED BY <4>1, <4>2, <1>2 DEF Share
    <3>2. limit # NoFilter => limit \in Nat
      BY DEF Shape, ArgumentsOK
    <3>3. Share(n).num \in Nat /\ Share(n).den \in Nat
      BY <3>1 DEF Shares
    <3>4. ASSUME limit # NoFilter
          PROVE  Share(n).num * limit \in Nat /\ Share(n).den * (limit + dt) \in Nat
      BY <3>2, <3>3, <3>4
    <3> QED BY <3>1, <3>4 DEF Fraction, Shares
  <2>3. calls' = Append(calls, call)
    BY DEF Execute
  <2> HIDE DEF area, share
  <2>4. call \in Calls
    BY <2>1, <2>2, <1>3 DEF Calls
  <2> HIDE DEF call
  <2> QED BY <2>3, <2>4 DEF Shape, HistoryOK
<1>5. \A i \in 1..n : At(i) <= At(n)
  BY DEF Shape, HistoryOK
<1>6. ASSUME NEW i \in 1..(n + 1), NEW j \in 1..(n + 1), i <= j
      PROVE  calls'[i].at <= calls'[j].at
  <2>1. CASE j <= n
    BY <2>1, <1>1, <1>6 DEF Shape, HistoryOK, At
  <2>2. CASE j = n + 1 /\ i <= n
    BY <2>2, <1>1, <1>3, <1>5 DEF At
  <2>3. CASE j = n + 1 /\ i = n + 1
    BY <2>3, <1>1, <1>3
  <2> QED BY <2>1, <2>2, <2>3, <1>6
<1> QED BY <1>1, <1>4, <1>6 DEF Shape, ArgumentsOK, HistoryOK, At, site

-----------------------------------------------------------------------------
(* Which action a site takes.                                              *)

LEMMA ActionOfOperator ==
  ASSUME Next
  PROVE  /\ operator \in Delays => \E dt \in Periods, x \in Inputs : EdgeDelay(x, dt)
         /\ operator \in Stables => \E dt \in Periods, x \in Inputs : Stable(x, dt)
         /\ operator = "Debounce.Stable" =>
              \E dt \in Periods, x \in Inputs : DebounceStable(x, dt)
         /\ operator \in Ranges => \E dt \in Periods, x \in Inputs : TimedRange(x, dt)
         /\ operator \in Changes => \E dt \in Periods, x \in Inputs : ChangeInValue(x, dt)
         /\ operator \in Flanks => \E dt \in Periods, x \in Inputs : ChangeInCondition(x, dt)
         /\ operator = "Calculate.Hysteresis" =>
              \E dt \in Periods, x \in Inputs : Hysteresis(x, dt)
         /\ operator \in Slopes => \E dt \in Periods, x \in Inputs : Derive(x, dt)
         /\ operator = "Derivative.Adaptive" =>
              \E dt \in Periods, x \in Inputs : DeriveAdaptively(x, dt)
         /\ operator = "Debounce.Filter" =>
              \E dt \in Periods, x \in Inputs : DebounceFiltered(x, dt)
         /\ operator = "Integral.Normal" =>
              \E dt \in Periods, x \in Inputs, method \in {"call", "reset"} :
                Integrate(method, x, dt)
         /\ operator \in Filters =>
              \E dt \in Periods, x \in Inputs, y \in Inputs, method \in {"call", "reset"} :
                Smooth(method, x, dt, y)
         /\ operator = "Timer" =>
              \E dt \in Periods \cup {0}, method \in {"Start", "Stop", "Reset", "Remaining"} :
                TimerCall(method, dt)
<1> DEFINE Timers == \E dt \in Periods \cup {0}, method \in {"Start", "Stop", "Reset", "Remaining"} :
                       TimerCall(method, dt)
           Others(x, dt) ==
             \/ EdgeDelay(x, dt) \/ Stable(x, dt) \/ DebounceStable(x, dt) \/ TimedRange(x, dt)
             \/ ChangeInValue(x, dt) \/ ChangeInCondition(x, dt) \/ Hysteresis(x, dt)
             \/ Derive(x, dt) \/ DeriveAdaptively(x, dt) \/ DebounceFiltered(x, dt)
             \/ \E method \in {"call", "reset"} : 
                  Integrate(method, x, dt) \/ \E y \in Inputs : Smooth(method, x, dt, y)
<1>1. Timers \/ \E dt \in Periods, x \in Inputs : Others(x, dt)
  BY DEF Next
<1>2. Timers => operator = "Timer"
  BY DEF TimerCall
<1>3. CASE Timers
  BY <1>3, <1>2 DEF Delays, Stables, Ranges, Changes, Flanks, Slopes, Filters
<1>4. CASE \E dt \in Periods, x \in Inputs : Others(x, dt)
  <2> PICK dt \in Periods, x \in Inputs : Others(x, dt)
    BY <1>4
  <2> USE DEF Delays, Stables, Ranges, Changes, Flanks, Slopes, Filters
  <2>1. CASE EdgeDelay(x, dt)
    <3>1. operator \in {"Delay.Rising", "Delay.Falling"}
      BY <2>1 DEF EdgeDelay
    <3> QED BY <2>1, <3>1
  <2>2. CASE Stable(x, dt)
    <3>1. operator \in {"Delay.Stable", "Calculate.Stable"}
      BY <2>2 DEF Stable
    <3> QED BY <2>2, <3>1
  <2>3. CASE DebounceStable(x, dt)
    <3>1. operator = "Debounce.Stable"
      BY <2>3 DEF DebounceStable
    <3> QED BY <2>3, <3>1
  <2>4. CASE TimedRange(x, dt)
    <3>1. operator \in {"Calculate.Between", "Calculate.Beyond"}
      BY <2>4 DEF TimedRange
    <3> QED BY <2>4, <3>1
  <2>5. CASE ChangeInValue(x, dt)
    <3>1. operator \in {"Change.By", "Change.Up", "Change.Down"}
      BY <2>5 DEF ChangeInValue
    <3> QED BY <2>5, <3>1
  <2>6. CASE ChangeInCondition(x, dt)
    <3>1. operator \in {"Change.To", "Change.From", "Change.Either"}
      BY <2>6 DEF ChangeInCondition
    <3> QED BY <2>6, <3>1
  <2>7. CASE Hysteresis(x, dt)
    <3>1. operator = "Calculate.Hysteresis"
      BY <2>7 DEF Hysteresis
    <3> QED BY <2>7, <3>1
  <2>8. CASE Derive(x, dt)
    <3>1. operator \in {"Derivative.Normal", "Derivative.Filtered"}
      BY <2>8 DEF Derive
    <3> QED BY <2>8, <3>1
  <2>9. CASE DeriveAdaptively(x, dt)
    <3>1. operator = "Derivative.Adaptive"
      BY <2>9 DEF DeriveAdaptively
    <3> QED BY <2>9, <3>1
  <2>10. CASE DebounceFiltered(x, dt)
    <3>1. operator = "Debounce.Filter"
      BY <2>10 DEF DebounceFiltered
    <3> QED BY <2>10, <3>1
  <2>11. CASE \E method \in {"call", "reset"} : Integrate(method, x, dt)
    <3>1. operator = "Integral.Normal"
      BY <2>11 DEF Integrate
    <3> QED BY <2>11, <3>1
  <2>12. CASE \E method \in {"call", "reset"}, y \in Inputs : Smooth(method, x, dt, y)
    <3>1. operator \in {"Filter.FirstOrder", "Filter.Maximum", "Filter.Minimum"}
      BY <2>12 DEF Smooth
    <3> QED BY <2>12, <3>1
  <2> QED BY <2>1, <2>2, <2>3, <2>4, <2>5, <2>6, <2>7, <2>8, <2>9, <2>10, <2>11, <2>12
<1> QED BY <1>1, <1>3, <1>4

-----------------------------------------------------------------------------
(* The start of a history, and what an execution adds to it.               *)

LEMMA Beginning ==
  ASSUME Init
  PROVE  Shape /\ Last = 0 /\ Fresh
<1>1. calls = <<>> /\ Last = 0 /\ Fresh
  BY DEF Init, Last, Fresh
<1>2. HistoryOK
  BY <1>1 DEF HistoryOK
<1>3. /\ operator \in OnlyTimed => operator \notin Smooths /\ operator \notin Operators \ OnlyTimed
      /\ operator \in Changes \cup Flanks => operator \notin Smooths
  <2> USE DEF OnlyTimed, Smooths, Changes, Flanks, Delays, Stables, Ranges, Filters, Slopes
  <2>1. operator \in OnlyTimed => operator \notin Smooths
    OBVIOUS
  <2>2. operator \in Changes \cup Flanks => operator \notin Smooths
    OBVIOUS
  <2> HIDE DEF OnlyTimed, Smooths
  <2> QED BY <2>1, <2>2
<1>4. operator \in Operators /\ delta \in Deltas \cup {0}
  BY DEF Init
<1>5. ArgumentsOK
  BY <1>3, <1>4 DEF Init, ArgumentsOK
<1> QED BY <1>1, <1>2, <1>5 DEF Shape

LEMMA Numbers ==
  ASSUME Shape
  PROVE  /\ Last \in Nat
         /\ \A i \in 1..Last : X(i) \in Int /\ At(i) \in Nat /\ Area(i) \in Int
         /\ At(0) = 0
         /\ \A i, j \in 0..Last : /\ Elapsed(i, j) \in Int /\ Elapsed(i, i) = 0
                                  /\ i <= j => Elapsed(i, Last) >= Elapsed(j, Last)
         /\ \A i \in 0..Last : Elapsed(i, Last) \in Nat
<1>1. Last \in Nat /\ \A i \in 1..Last : calls[i] \in Calls
  BY DEF Shape, HistoryOK, Last
<1>2. \A c \in Calls : c.at \in Nat /\ c.x \in Int /\ c.area \in Int
  BY DEF Calls
<1>3. At(0) = 0
  BY DEF At
<1>4. \A i \in 0..Last : At(i) \in Nat
  BY <1>1, <1>2 DEF At
<1>5. \A i \in 1..Last : X(i) \in Int /\ Area(i) \in Int
  BY <1>1, <1>2 DEF X, Area
<1>6. \A i, j \in 0..Last : i <= j => At(i) <= At(j)
  BY <1>1, <1>3, <1>4 DEF Shape, HistoryOK
<1> QED BY <1>1, <1>3, <1>4, <1>5, <1>6 DEF Elapsed

LEMMA Extended ==
  ASSUME Shape, NEW method \in Methods, NEW x \in Int, NEW dt \in Nat, NEW answer \in Answers,
         Execute(method, x, dt, answer), NEW n, n = Last
  PROVE  /\ Shape'
         /\ n \in Nat /\ Last' = n + 1 /\ UNCHANGED site /\ Answer' = answer
         /\ \A i \in 1..n : /\ X(i)' = X(i)
                            /\ Cond(i)' = Cond(i)
                            /\ calls'[i] = calls[i]
         /\ X(n + 1)' = x /\ Cond(n + 1)' = Condition(x)
         /\ calls'[n + 1].method = method
         /\ \A i \in 0..n : At(i)' = At(i) /\ Elapsed(i, n + 1)' = Elapsed(i, n) + dt
         /\ \A i, j \in 0..n : Elapsed(i, j)' = Elapsed(i, j)
         /\ Elapsed(n + 1, n + 1)' = 0
<1>1. /\ Last' = n + 1
      /\ \A i \in 1..n : calls'[i] = calls[i]
      /\ calls'[n + 1].method = method
      /\ calls'[n + 1].x = x
      /\ calls'[n + 1].at = At(n) + dt
      /\ calls'[n + 1].answer = answer
      /\ UNCHANGED site
  BY Appended
<1>2. n \in Nat /\ \A i \in 0..n : At(i) \in Nat
  BY Numbers
<1>3. \A i \in 1..n : X(i)' = X(i) /\ Cond(i)' = Cond(i)
  BY <1>1 DEF X, Cond
<1>4. X(n + 1)' = x /\ Cond(n + 1)' = Condition(x) /\ Answer' = answer
  BY <1>1 DEF X, Cond, Answer
<1>5. (\A i \in 0..n : At(i)' = At(i)) /\ At(n + 1)' = At(n) + dt
  BY <1>1, <1>2 DEF At
<1>6. /\ \A i \in 0..n : Elapsed(i, n + 1)' = Elapsed(i, n) + dt
      /\ \A i, j \in 0..n : Elapsed(i, j)' = Elapsed(i, j)
      /\ Elapsed(n + 1, n + 1)' = 0
  BY <1>2, <1>5 DEF Elapsed
<1> QED BY <1>1, <1>2, <1>3, <1>4, <1>5, <1>6, HistoryStays

LEMMA Periodic ==
  /\ \A dt \in Periods : dt \in Nat \ {0}
  /\ \A x \in Inputs : x \in Int /\ Condition(x) \in BOOLEAN
  /\ \A x, y \in Int : Condition(x) \in BOOLEAN /\ AbsDiff(x, y) \in Nat
  /\ BOOLEAN \subseteq Answers /\ Int \subseteq Answers /\ "call" \in Methods
BY DEF Condition, AbsDiff, Answers, Methods

LEMMA SiteStays ==
  ASSUME Next
  PROVE  operator' = operator /\ limit' = limit /\ delta' = delta
<1>1. \A dt, x : EdgeDelay(x, dt) => UNCHANGED site
  BY DEF EdgeDelay, Execute
<1>2. \A dt, x : Stable(x, dt) => UNCHANGED site
  BY DEF Stable, Execute
<1>3. \A dt, x : DebounceStable(x, dt) => UNCHANGED site
  BY DEF DebounceStable, Execute
<1>4. \A dt, x : TimedRange(x, dt) => UNCHANGED site
  BY DEF TimedRange, Execute
<1>5. \A dt, x : ChangeInValue(x, dt) => UNCHANGED site
  BY DEF ChangeInValue, Execute
<1>6. \A dt, x : ChangeInCondition(x, dt) => UNCHANGED site
  BY DEF ChangeInCondition, Execute
<1>7. \A dt, x : Hysteresis(x, dt) => UNCHANGED site
  BY DEF Hysteresis, Execute
<1>8. \A dt, x : Derive(x, dt) => UNCHANGED site
  BY DEF Derive, Execute
<1>9. \A dt, x : DeriveAdaptively(x, dt) => UNCHANGED site
  BY DEF DeriveAdaptively, Execute
<1>10. \A dt, x : DebounceFiltered(x, dt) => UNCHANGED site
  BY DEF DebounceFiltered, Execute
<1>11. \A method, dt, x : Integrate(method, x, dt) => UNCHANGED site
  BY DEF Integrate, Execute
<1>12. \A method, dt, x, y : Smooth(method, x, dt, y) => UNCHANGED site
  BY DEF Smooth, Execute
<1>13. \A method, dt : TimerCall(method, dt) => UNCHANGED site
  BY DEF TimerCall, Execute
<1>14. UNCHANGED site
  BY <1>1, <1>2, <1>3, <1>4, <1>5, <1>6, <1>7, <1>8, <1>9, <1>10, <1>11, <1>12, <1>13 DEF Next
<1> QED BY <1>14 DEF site

LEMMA Stuttering ==
  ASSUME UNCHANGED vars
  PROVE  /\ Shape' = Shape /\ Last' = Last /\ Answer' = Answer
         /\ \A i : X(i)' = X(i) /\ Cond(i)' = Cond(i)
         /\ \A i, j : Elapsed(i, j)' = Elapsed(i, j)
BY DEF vars, Shape, ArgumentsOK, HistoryOK, At, Last, Answer, X, Cond, Elapsed

-----------------------------------------------------------------------------
(* Delay.Rising and Delay.Falling: the held time is the age of the latest  *)
(* call k after which the condition has had the delayed value, and the     *)
(* output has it when that is old enough.                                  *)

DelayRun(k, delayed) ==
  /\ \A i \in (k + 1)..Last : Cond(i) = delayed
  /\ k = 1 \/ Cond(k) # delayed
  /\ slot.held = Elapsed(k, Last)
  /\ slot.output = delayed <=> k < Last /\ slot.held >= limit

DelayInv ==
  /\ Fresh <=> Last = 0
  /\ Last > 0 =>
       /\ slot \in TimedSlots
       /\ Answer = slot.output
       /\ \E k \in 1..Last : DelayRun(k, operator = "Delay.Rising")

LEMMA DelayStep ==
  ASSUME Shape, DelayInv, operator \in Delays, NEW dt \in Periods, NEW x \in Inputs,
         EdgeDelay(x, dt)
  PROVE  Shape' /\ DelayInv'
<1> PICK n \in Nat : n = Last
  BY Numbers
<1> DEFINE rising == operator = "Delay.Rising"
           waits  == ~Fresh /\ Condition(x) = rising
           held   == Held(waits, dt)
           output == IF ~waits THEN ~rising ELSE IF held >= limit THEN rising ELSE slot.output
<1>1. /\ slot' = Timed(output, Condition(x), held)
      /\ Execute("call", x, dt, output)
  BY DEF EdgeDelay
<1>2. dt \in Nat \ {0} /\ x \in Int /\ Condition(x) \in BOOLEAN /\ limit \in Nat
  <2>1. limit \in Limits
    BY DEF Shape, ArgumentsOK, OnlyTimed
  <2> QED BY <2>1, Periodic
<1>3. waits => slot \in TimedSlots
  BY DEF DelayInv, Fresh
<1>4. held \in Nat /\ output \in BOOLEAN
  <2>1. slot \in TimedSlots => slot.held \in Nat /\ slot.output \in BOOLEAN
    BY DEF TimedSlots
  <2>2. held \in Nat
    BY <1>2, <1>3, <2>1 DEF Held
  <2> QED BY <2>1, <2>2, <1>3
<1> PICK h, o : h \in Nat /\ h = held /\ o = output
  BY <1>4
<1>5. slot' = Timed(o, Condition(x), h) /\ Execute("call", x, dt, o) /\ o \in BOOLEAN
  BY <1>1, <1>4
<1> HIDE DEF held, output
<1>a. "call" \in Methods /\ x \in Int /\ dt \in Nat /\ o \in Answers
  BY <1>2, <1>5, Periodic
<1>6. /\ Shape' /\ Last' = n + 1 /\ UNCHANGED site /\ Answer' = o
      /\ \A i \in 1..n : Cond(i)' = Cond(i)
      /\ Cond(n + 1)' = Condition(x)
      /\ \A i \in 0..n : Elapsed(i, n + 1)' = Elapsed(i, n) + dt
      /\ Elapsed(n + 1, n + 1)' = 0
  BY <1>5, <1>a, Extended
<1>7. slot'.held = h /\ slot'.output = o /\ slot' \in TimedSlots /\ ~Fresh'
  BY <1>2, <1>5 DEF Timed, TimedSlots, Fresh, Uninit
<1>8. \E k \in 1..(n + 1) : 
        /\ \A i \in (k + 1)..(n + 1) : Cond(i)' = rising
        /\ k = 1 \/ Cond(k)' # rising
        /\ h = Elapsed(k, n + 1)'
        /\ o = rising <=> k < n + 1 /\ h >= limit
  <2>1. CASE waits
    <3>1. n > 0
      BY <2>1 DEF DelayInv
    <3>2. PICK k \in 1..n : DelayRun(k, rising)
      BY <3>1 DEF DelayInv
    <3>3. h = slot.held + dt /\ o = IF h >= limit THEN rising ELSE slot.output
      BY <2>1 DEF held, output, Held
    <3>4. slot.held \in Nat /\ slot.held = Elapsed(k, n)
      BY <3>2, <1>3, <2>1 DEF DelayRun, TimedSlots
    <3>5. \A i \in (k + 1)..(n + 1) : Cond(i)' = rising
      BY <3>2, <1>6, <2>1 DEF DelayRun
    <3>6. k = 1 \/ Cond(k)' # rising
      BY <3>2, <1>6 DEF DelayRun
    <3>7. o = rising <=> h >= limit
      BY <3>2, <3>3, <3>4, <1>2 DEF DelayRun
    <3> QED BY <3>3, <3>4, <3>5, <3>6, <3>7, <1>6
  <2>2. CASE ~waits
    <3>1. h = 0 /\ o = ~rising
      BY <2>2 DEF held, output, Held
    <3>2. n + 1 = 1 \/ Cond(n + 1)' # rising
      BY <2>2, <1>6 DEF DelayInv
    <3> QED BY <3>1, <3>2, <1>6
  <2> QED BY <2>1, <2>2
<1> QED BY <1>6, <1>7, <1>8 DEF DelayInv, DelayRun, site

LEMMA DelayExact ==
  ASSUME Shape, DelayInv, operator \in Delays
  PROVE  DelaysAreExact
<1> PICK n \in Nat : n = Last
  BY Numbers
<1> DEFINE delayed == operator = "Delay.Rising"
<1> SUFFICES ASSUME n > 0
             PROVE  Answer = delayed <=>
                      \E k \in 1..(n - 1) : /\ \A i \in (k + 1)..n : Cond(i) = delayed
                                            /\ Elapsed(k, n) >= limit
  BY DEF DelaysAreExact
<1>1. PICK k \in 1..n : DelayRun(k, delayed)
  BY DEF DelayInv
<1>2. \A j \in 1..n : Elapsed(j, n) \in Nat /\ (k <= j => Elapsed(k, n) >= Elapsed(j, n))
  BY Numbers
<1>3. Answer = delayed <=> k < n /\ Elapsed(k, n) >= limit
  BY <1>1 DEF DelayInv, DelayRun
<1>4. limit \in Nat
  BY DEF Shape, ArgumentsOK, OnlyTimed
<1>5. ASSUME NEW j \in 1..(n - 1), \A i \in (j + 1)..n : Cond(i) = delayed
      PROVE  k <= j
  BY <1>1, <1>5 DEF DelayRun
<1> QED BY <1>1, <1>2, <1>3, <1>4, <1>5 DEF DelayRun

(* Delay.Rising and Delay.Falling delay exactly one edge, by exactly the   *)
(* time asked for.                                                         *)
THEOREM DelaysExactForEver == Spec => []DelaysAreExact
<1> DEFINE I == operator \in Delays => Shape /\ DelayInv
<1>1. Init => I
  BY Beginning DEF DelayInv
<1>2. I /\ [Next]_vars => I'
  <2> SUFFICES ASSUME I, [Next]_vars, (operator \in Delays)'
               PROVE  Shape' /\ DelayInv'
    OBVIOUS
  <2>1. CASE Next
    BY <2>1, SiteStays, ActionOfOperator, DelayStep
  <2>2. CASE UNCHANGED vars
    BY <2>2, Stuttering DEF vars, DelayInv, DelayRun, Fresh
  <2> QED BY <2>1, <2>2
<1>3. I => DelaysAreExact
  BY DelayExact DEF DelaysAreExact
<1> QED BY <1>1, <1>2, <1>3, PTL DEF Spec

-----------------------------------------------------------------------------
(* References: a history of n calls whose latest reference is k either     *)
(* keeps it with one more call or starts afresh there.                     *)

LEMMA ReferenceGrows ==
  ASSUME NEW n \in Nat \ {0}, NEW k \in 1..n, NEW kept, NEW more, Reference(k, n, kept),
         \A i, j \in 1..n : <<j, i>> \in more <=> <<j, i>> \in kept
  PROVE  /\ <<k, n + 1>> \in more => Reference(k, n + 1, more)
         /\ <<k, n + 1>> \notin more => Reference(n + 1, n + 1, more)
<1>1. PICK R \in SUBSET (1..k) :
        /\ {1, k} \subseteq R
        /\ \A i \in 2..n : \E j \in R : /\ j < i /\ \A m \in R : m <= j \/ i <= m
                                        /\ i \in R <=> <<j, i>> \notin kept
  BY Zenon DEF Reference
<1>2. \A i \in 2..n : \E j \in R : /\ j < i /\ \A m \in R : m <= j \/ i <= m
                                   /\ i \in R <=> <<j, i>> \notin more
  <2> TAKE i \in 2..n
  <2>1. PICK j \in R : /\ j < i /\ \A m \in R : m <= j \/ i <= m
                       /\ i \in R <=> <<j, i>> \notin kept
    BY <1>1
  <2> QED BY <2>1
<1>3. ASSUME <<k, n + 1>> \in more
      PROVE  Reference(k, n + 1, more)
  <2>1. \E j \in R : /\ j < n + 1 /\ \A m \in R : m <= j \/ n + 1 <= m
                     /\ n + 1 \in R <=> <<j, n + 1>> \notin more
    <3>1. k \in R /\ k < n + 1 /\ n + 1 \notin R /\ \A m \in R : m <= k
      BY <1>1
    <3> QED BY <3>1, <1>3
  <2>2. \A i \in 2..(n + 1) : i \in 2..n \/ i = n + 1
    OBVIOUS
  <2> QED BY <1>1, <1>2, <2>1, <2>2 DEF Reference
<1>4. ASSUME <<k, n + 1>> \notin more
      PROVE  Reference(n + 1, n + 1, more)
  <2> DEFINE S == R \cup {n + 1}
  <2>1. S \in SUBSET (1..(n + 1)) /\ {1, n + 1} \subseteq S
    BY <1>1
  <2>2. ASSUME NEW i \in 2..(n + 1)
        PROVE  \E j \in S : /\ j < i /\ \A m \in S : m <= j \/ i <= m
                            /\ i \in S <=> <<j, i>> \notin more
    <3>1. CASE i \in 2..n
      <4>1. PICK j \in R : /\ j < i /\ \A m \in R : m <= j \/ i <= m
                           /\ i \in R <=> <<j, i>> \notin more
        BY <1>2, <3>1
      <4>2. j \in S /\ (i \in S <=> i \in R)
        BY <3>1
      <4> QED BY <4>1, <4>2, <3>1
    <3>2. CASE i = n + 1
      <4>1. k \in S /\ i \in S /\ k < i /\ \A m \in S : m <= k \/ i <= m
        BY <1>1, <3>2
      <4> QED BY <4>1, <1>4, <3>2
    <3> QED BY <3>1, <3>2
  <2> HIDE DEF S
  <2> QED BY <2>1, <2>2, Zenon DEF Reference
<1> QED BY <1>3, <1>4

LEMMA FirstReference ==
  ASSUME NEW kept
  PROVE  Reference(1, 1, kept)
<1>1. {1} \in SUBSET (1..1) /\ \A i \in 2..1 : FALSE
  OBVIOUS
<1> QED BY <1>1 DEF Reference

-----------------------------------------------------------------------------
(* Delay.Stable and Calculate.Stable: the slot holds the reference input   *)
(* and its age.                                                            *)

Near == {p \in Pairs : AbsDiff(X(p[1]), X(p[2])) <= delta}

StableInv ==
  /\ Fresh <=> Last = 0
  /\ Last > 0 =>
       /\ slot \in ChangeSlots
       /\ \E k \in 1..Last :
            /\ Reference(k, Last, Near)
            /\ slot.x = X(k) /\ slot.held = Elapsed(k, Last)
            /\ Answer <=> k < Last /\ slot.held >= limit

LEMMA StableStep ==
  ASSUME Shape, StableInv, operator \in Stables, NEW dt \in Periods, NEW x \in Inputs,
         Stable(x, dt)
  PROVE  Shape' /\ StableInv'
<1> PICK n \in Nat : n = Last
  BY Numbers
<1> DEFINE moved  == Fresh \/ AbsDiff(slot.x, x) > delta
           held   == Held(~moved, dt)
           output == ~moved /\ held >= limit
<1>1. /\ slot' = ChangeBy(IF moved THEN x ELSE slot.x, held, output)
      /\ Execute("call", x, dt, output)
  BY DEF Stable
<1>2. dt \in Nat \ {0} /\ x \in Int /\ limit \in Nat /\ delta \in Nat
  BY Periodic DEF Shape, ArgumentsOK, OnlyTimed
<1>3. ~Fresh => slot \in ChangeSlots
  BY DEF StableInv
<1>4. held \in Nat /\ output \in BOOLEAN /\ (~Fresh => slot.x \in Int)
  <2>1. slot \in ChangeSlots => slot.held \in Nat /\ slot.x \in Int
    BY DEF ChangeSlots
  <2> QED BY <1>2, <1>3, <2>1 DEF Held
<1> PICK h, o, r : h \in Nat /\ h = held /\ o = output /\ r = IF moved THEN x ELSE slot.x
  BY <1>4
<1>5. /\ slot' = ChangeBy(r, h, o) /\ Execute("call", x, dt, o) /\ o \in BOOLEAN
      /\ r \in Int
  BY <1>1, <1>2, <1>4
<1>a. "call" \in Methods /\ x \in Int /\ dt \in Nat /\ o \in Answers
  BY <1>2, <1>5, Periodic
<1>b. o <=> ~moved /\ h >= limit
  OBVIOUS
<1> HIDE DEF held, output
<1>6. /\ Shape' /\ Last' = n + 1 /\ UNCHANGED site /\ Answer' = o
      /\ \A i \in 1..n : X(i)' = X(i)
      /\ X(n + 1)' = x
      /\ \A i \in 0..n : Elapsed(i, n + 1)' = Elapsed(i, n) + dt
      /\ Elapsed(n + 1, n + 1)' = 0
  BY <1>5, <1>a, Extended
<1>7. /\ slot'.held = h /\ slot'.x = r /\ slot' \in ChangeSlots /\ ~Fresh'
  BY <1>2, <1>5 DEF ChangeBy, ChangeSlots, Fresh, Uninit
<1>8. \A i, j \in 1..(n + 1) : <<j, i>> \in Near' <=> AbsDiff(X(j)', X(i)') <= delta
  BY <1>6 DEF Near, Pairs, site
<1>9. \A i, j \in 1..n : <<j, i>> \in Near <=> AbsDiff(X(j), X(i)) <= delta
  BY DEF Near, Pairs
<1>10. \A i, j \in 1..n : <<j, i>> \in Near' <=> <<j, i>> \in Near
  <2> TAKE i \in 1..n, j \in 1..n
  <2>1. X(i)' = X(i) /\ X(j)' = X(j)
    BY <1>6
  <2>2. i \in 1..(n + 1) /\ j \in 1..(n + 1)
    OBVIOUS
  <2> QED BY <2>1, <2>2, <1>8, <1>9
<1>11. PICK near, nears : near = Near /\ nears = Near'
  OBVIOUS
<1>12. \E k \in 1..(n + 1) :
         /\ Reference(k, n + 1, nears)
         /\ r = X(k)' /\ h = Elapsed(k, n + 1)'
         /\ o <=> k < n + 1 /\ h >= limit
  <2>1. CASE n = 0
    <3>1. Fresh
      BY <2>1 DEF StableInv
    <3>2. h = 0 /\ r = x /\ ~o
      BY <3>1, <1>b DEF held, Held
    <3>3. Reference(1, 1, nears)
      BY FirstReference
    <3> QED BY <2>1, <3>2, <3>3, <1>6
  <2>2. CASE n > 0
    <3>1. PICK k \in 1..n : /\ Reference(k, n, near)
                            /\ slot.x = X(k) /\ slot.held = Elapsed(k, n)
      BY <2>2, <1>11 DEF StableInv
    <3>2. n \in Nat \ {0} /\ \A i, j \in 1..n : <<j, i>> \in nears <=> <<j, i>> \in near
      BY <2>2, <1>10, <1>11
    <3>3. /\ <<k, n + 1>> \in nears => Reference(k, n + 1, nears)
          /\ <<k, n + 1>> \notin nears => Reference(n + 1, n + 1, nears)
      BY <3>1, <3>2, ReferenceGrows
    <3>4. ~Fresh /\ (<<k, n + 1>> \in nears <=> ~moved)
      <4>1. ~Fresh
        BY <2>2 DEF StableInv
      <4>2. X(k)' = slot.x /\ X(n + 1)' = x /\ slot.x \in Int
        BY <3>1, <1>6, <1>4, <4>1
      <4>3. <<k, n + 1>> \in nears <=> AbsDiff(slot.x, x) <= delta
        BY <4>2, <1>8, <1>11
      <4>4. AbsDiff(slot.x, x) \in Nat
        BY <4>2, Periodic
      <4> QED BY <4>1, <4>3, <4>4, <1>2
    <3>5. CASE moved
      <4>1. h = 0 /\ r = x /\ ~o
        BY <3>5, <1>b DEF held, Held
      <4> QED BY <4>1, <3>3, <3>4, <3>5, <1>6
    <3>6. CASE ~moved
      <4>1. h = slot.held + dt /\ r = slot.x /\ (o <=> h >= limit)
        BY <3>6, <1>b DEF held, Held
      <4> QED BY <4>1, <3>1, <3>3, <3>4, <3>6, <1>6
    <3> QED BY <3>5, <3>6
  <2> QED BY <2>1, <2>2
<1> HIDE DEF moved
<1>13. \E k \in 1..(n + 1) :
         /\ Reference(k, n + 1, Near')
         /\ slot'.x = X(k)' /\ slot'.held = Elapsed(k, n + 1)'
         /\ Answer' <=> k < n + 1 /\ slot'.held >= limit
  BY <1>12, <1>11, <1>6, <1>7
<1> QED BY <1>6, <1>7, <1>13 DEF StableInv, site

LEMMA StableExact ==
  ASSUME StableInv, operator \in Stables, Last > 0
  PROVE  \E k \in 1..Last :
           /\ Reference(k, Last, {p \in Pairs : AbsDiff(X(p[1]), X(p[2])) <= delta})
           /\ Answer <=> k < Last /\ Elapsed(k, Last) >= limit
BY DEF StableInv, Near

-----------------------------------------------------------------------------
(* Calculate.Between and Beyond: in range, the held time is that since the *)
(* call k with which the range was entered.                                *)

RangeRun(k) ==
  /\ \A i \in k..Last : Within(i)
  /\ k = 1 \/ ~Within(k - 1)
  /\ slot.held = Elapsed(k, Last)

RangeInv ==
  /\ Fresh <=> Last = 0
  /\ Last > 0 =>
       /\ slot \in TimedSlots
       /\ slot.candidate <=> Within(Last)
       /\ ~Within(Last) => ~Answer
       /\ Within(Last) => \E k \in 1..Last :
            RangeRun(k) /\ (Answer <=> k < Last /\ slot.held >= limit)

LEMMA RangeStep ==
  ASSUME Shape, RangeInv, operator \in Ranges, NEW dt \in Periods, NEW x \in Inputs,
         TimedRange(x, dt)
  PROVE  Shape' /\ RangeInv'
<1> PICK n \in Nat : n = Last
  BY Numbers
<1> DEFINE inRange   == Least <= x /\ x <= Most
           cond      == inRange <=> operator = "Calculate.Between"
           candidate == ~Fresh /\ slot.candidate
           held      == IF cond # candidate THEN 0 ELSE (IF Fresh THEN 0 ELSE slot.held) + dt
           output    == cond /\ candidate /\ held >= limit
<1>1. slot' = Timed(output, cond, held) /\ Execute("call", x, dt, output)
  BY DEF TimedRange
<1>2. dt \in Nat \ {0} /\ x \in Int /\ limit \in Nat
  BY Periodic DEF Shape, ArgumentsOK, OnlyTimed
<1>3. ~Fresh => n > 0 /\ slot \in TimedSlots /\ (slot.candidate <=> Within(n))
  BY DEF RangeInv
<1>4. /\ held \in Nat /\ output \in BOOLEAN /\ cond \in BOOLEAN /\ candidate \in BOOLEAN
      /\ ~Fresh => slot.held \in Nat
  <2>1. slot \in TimedSlots => slot.held \in Nat
    BY DEF TimedSlots
  <2> QED BY <1>2, <1>3, <2>1
<1> PICK h, o, c, was : h \in Nat /\ h = held /\ o = output /\ c = cond /\ was = candidate
  BY <1>4
<1>5. /\ slot' = Timed(o, c, h) /\ Execute("call", x, dt, o)
      /\ o \in BOOLEAN /\ c \in BOOLEAN /\ was \in BOOLEAN
  BY <1>1, <1>2, <1>4
<1>a. "call" \in Methods /\ x \in Int /\ dt \in Nat /\ o \in Answers
  BY <1>2, <1>5, Periodic
<1>b. /\ o <=> c /\ was /\ h >= limit
      /\ h = IF c # was THEN 0 ELSE (IF Fresh THEN 0 ELSE slot.held) + dt
      /\ was <=> ~Fresh /\ Within(n)
  <2>1. (~Fresh /\ slot.candidate) <=> ~Fresh /\ Within(n)
    BY <1>3
  <2> QED BY <2>1
<1>6. /\ Shape' /\ Last' = n + 1 /\ UNCHANGED site /\ Answer' = o
      /\ \A i \in 1..n : X(i)' = X(i)
      /\ X(n + 1)' = x
      /\ \A i \in 0..n : Elapsed(i, n + 1)' = Elapsed(i, n) + dt
      /\ Elapsed(n + 1, n + 1)' = 0
  BY <1>5, <1>a, Extended
<1>7. /\ slot'.held = h /\ slot'.candidate = c /\ slot' \in TimedSlots /\ ~Fresh'
  BY <1>2, <1>5 DEF Timed, TimedSlots, Fresh, Uninit
<1>8. /\ \A i \in 1..n : Within(i)' <=> Within(i)
      /\ Within(n + 1)' <=> c
  BY <1>6 DEF Within, site
<1> HIDE DEF held, output, cond, candidate, inRange
<1>9. ASSUME c
      PROVE  \E k \in 1..(n + 1) : /\ \A i \in k..(n + 1) : Within(i)'
                                   /\ k = 1 \/ ~Within(k - 1)'
                                   /\ h = Elapsed(k, n + 1)'
                                   /\ o <=> k < n + 1 /\ h >= limit
  <2>1. CASE was
    <3>1. n > 0 /\ Within(n) /\ ~Fresh
      BY <2>1, <1>b, <1>3
    <3>2. PICK k \in 1..n : RangeRun(k)
      BY <3>1 DEF RangeInv
    <3>3. h = slot.held + dt /\ (o <=> h >= limit)
      BY <2>1, <1>9, <1>b, <1>5, <3>1
    <3>4. h = Elapsed(k, n + 1)'
      BY <3>2, <3>3, <1>6 DEF RangeRun
    <3>5. \A i \in k..(n + 1) : Within(i)'
      BY <3>2, <1>8, <1>9 DEF RangeRun
    <3>6. k = 1 \/ ~Within(k - 1)'
      BY <3>2, <1>8 DEF RangeRun
    <3> QED BY <3>3, <3>4, <3>5, <3>6
  <2>2. CASE ~was
    <3>1. h = 0 /\ ~o
      BY <2>2, <1>9, <1>b, <1>5
    <3>2. n + 1 = 1 \/ ~Within(n)'
      <4>1. n > 0 => ~Fresh
        BY DEF RangeInv
      <4> QED BY <4>1, <2>2, <1>b, <1>8
    <3> QED BY <3>1, <3>2, <1>6, <1>8, <1>9
  <2> QED BY <2>1, <2>2, <1>5
<1>10. ~c => ~o
  BY <1>b
<1> QED BY <1>6, <1>7, <1>8, <1>9, <1>10 DEF RangeInv, RangeRun, site

LEMMA RangeExact ==
  ASSUME Shape, RangeInv, operator \in Ranges, Last > 0
  PROVE  Answer <=> \E k \in 1..(Last - 1) :
                      (\A i \in k..Last : Within(i)) /\ Elapsed(k, Last) >= limit
<1> PICK n \in Nat : n = Last
  BY Numbers
<1>1. CASE ~Within(n)
  BY <1>1 DEF RangeInv
<1>2. CASE Within(n)
  <2>1. PICK k \in 1..n : RangeRun(k) /\ (Answer <=> k < n /\ slot.held >= limit)
    BY <1>2 DEF RangeInv
  <2>2. \A j \in 1..n : Elapsed(j, n) \in Nat /\ (k <= j => Elapsed(k, n) >= Elapsed(j, n))
    BY Numbers
  <2>3. ASSUME NEW j \in 1..(n - 1), \A i \in j..n : Within(i)
        PROVE  k <= j
    BY <2>1, <2>3 DEF RangeRun
  <2>4. limit \in Nat
    BY DEF Shape, ArgumentsOK, OnlyTimed
  <2> QED BY <2>1, <2>2, <2>3, <2>4 DEF RangeRun
<1> QED BY <1>1, <1>2

-----------------------------------------------------------------------------
(* Debounce.Stable: the held time is that since the call k with which the  *)
(* condition last turned, and the output the latest condition confirmed.   *)

ConditionRun(k) ==
  /\ \A i \in k..Last : Cond(i) = Cond(Last)
  /\ k = 1 \/ Cond(k - 1) # Cond(Last)
  /\ slot.held = Elapsed(k, Last)

LatestConfirmed(n, v) ==
  /\ n = 1 \/ Confirmed(n)
  /\ \A m \in (n + 1)..Last : ~Confirmed(m)
  /\ v = Cond(n)

DebounceInv ==
  /\ Fresh <=> Last = 0
  /\ Last > 0 =>
       /\ slot \in TimedSlots
       /\ slot.candidate = Cond(Last)
       /\ slot.output = Answer
       /\ \E k \in 1..Last : ConditionRun(k)
       /\ \E n \in 1..Last : LatestConfirmed(n, Answer)

LEMMA DebounceStep ==
  ASSUME Shape, DebounceInv, operator = "Debounce.Stable", NEW dt \in Periods, NEW x \in Inputs,
         DebounceStable(x, dt)
  PROVE  Shape' /\ DebounceInv'
<1> PICK n \in Nat : n = Last
  BY Numbers
<1> DEFINE cond   == Condition(x)
           same   == ~Fresh /\ cond = slot.candidate
           held   == Held(same, dt)
           output == IF Fresh \/ (same /\ held >= limit) THEN cond ELSE slot.output
<1>1. slot' = Timed(output, cond, held) /\ Execute("call", x, dt, output)
  BY DEF DebounceStable
<1>2. dt \in Nat \ {0} /\ x \in Int /\ limit \in Nat /\ cond \in BOOLEAN
  BY Periodic DEF Shape, ArgumentsOK, OnlyTimed
<1>3. ~Fresh => /\ n > 0 /\ slot \in TimedSlots
                /\ slot.candidate = Cond(n) /\ slot.output = Answer
  BY DEF DebounceInv
<1>4. /\ held \in Nat /\ output \in BOOLEAN
      /\ ~Fresh => slot.held \in Nat
  <2>1. slot \in TimedSlots => slot.held \in Nat /\ slot.output \in BOOLEAN
    BY DEF TimedSlots
  <2>2. held \in Nat
    BY <1>2, <1>3, <2>1 DEF Held
  <2> QED BY <2>1, <2>2, <1>2, <1>3
<1> PICK h, o, c : h \in Nat /\ h = held /\ o = output /\ c = cond
  BY <1>4
<1>5. /\ slot' = Timed(o, c, h) /\ Execute("call", x, dt, o)
      /\ o \in BOOLEAN /\ c \in BOOLEAN
  BY <1>1, <1>2, <1>4
<1>a. "call" \in Methods /\ x \in Int /\ dt \in Nat /\ o \in Answers
  BY <1>2, <1>5, Periodic
<1>b. /\ Fresh => h = 0 /\ o = c
      /\ ~Fresh /\ c # Cond(n) => h = 0 /\ o = Answer
      /\ ~Fresh /\ c = Cond(n) =>
           h = slot.held + dt /\ o = IF h >= limit THEN c ELSE Answer
  BY <1>3 DEF Held
<1>6. /\ Shape' /\ Last' = n + 1 /\ UNCHANGED site /\ Answer' = o
      /\ \A i \in 1..n : Cond(i)' = Cond(i)
      /\ Cond(n + 1)' = c
      /\ \A i \in 0..n : Elapsed(i, n + 1)' = Elapsed(i, n) + dt
      /\ \A i, j \in 0..n : Elapsed(i, j)' = Elapsed(i, j)
      /\ Elapsed(n + 1, n + 1)' = 0
  BY <1>5, <1>a, Extended
<1>7. /\ slot'.held = h /\ slot'.candidate = c /\ slot'.output = o
      /\ slot' \in TimedSlots /\ ~Fresh'
  BY <1>2, <1>5 DEF Timed, TimedSlots, Fresh, Uninit
<1> HIDE DEF held, output, cond
<1>8. ASSUME n > 0, c = Cond(n)
      PROVE  \E k \in 1..n : /\ \A i \in k..(n + 1) : Cond(i)' = c
                             /\ k = 1 \/ Cond(k - 1)' # c
                             /\ h = Elapsed(k, n + 1)'
  <2>1. PICK k \in 1..n : ConditionRun(k)
    BY <1>8 DEF DebounceInv
  <2>2. h = slot.held + dt
    BY <1>8, <1>b DEF DebounceInv
  <2> QED BY <2>1, <2>2, <1>6, <1>8 DEF ConditionRun
<1>9. ASSUME n = 0 \/ c # Cond(n)
      PROVE  h = 0
  BY <1>9, <1>b DEF DebounceInv
<1>10. \E k \in 1..(n + 1) : ConditionRun(k)'
  <2>1. \E k \in 1..(n + 1) : /\ \A i \in k..(n + 1) : Cond(i)' = c
                              /\ k = 1 \/ Cond(k - 1)' # c
                              /\ h = Elapsed(k, n + 1)'
    BY <1>8, <1>9, <1>6
  <2> QED BY <2>1, <1>6, <1>7 DEF ConditionRun
<1>11. \A m \in 1..n : Confirmed(m)' <=> Confirmed(m)
  <2> TAKE m \in 1..n
  <2>1. /\ \A k \in 1..(m - 1) : Elapsed(k, m)' = Elapsed(k, m)
        /\ \A i \in 1..m : Cond(i)' = Cond(i)
        /\ limit' = limit
    BY <1>6 DEF site
  <2> QED BY <2>1 DEF Confirmed
<1>12. Confirmed(n + 1)' <=> n > 0 /\ c = Cond(n) /\ h >= limit
  <2>1. Confirmed(n + 1)' <=> \E k \in 1..n : /\ \A i \in k..(n + 1) : Cond(i)' = c
                                              /\ Elapsed(k, n + 1)' >= limit
    BY <1>6 DEF Confirmed, site
  <2>2. CASE n > 0 /\ c = Cond(n)
    <3>1. PICK k \in 1..n : /\ \A i \in k..(n + 1) : Cond(i)' = c
                            /\ k = 1 \/ Cond(k - 1)' # c
                            /\ h = Elapsed(k, n + 1)'
      BY <2>2, <1>8
    <3>2. \A j \in 1..n : /\ Elapsed(j, n + 1)' \in Nat
                          /\ k <= j => Elapsed(k, n + 1)' >= Elapsed(j, n + 1)'
      <4>1. \A j \in 1..n : /\ Elapsed(j, n) \in Nat
                            /\ k <= j => Elapsed(k, n) >= Elapsed(j, n)
        BY Numbers
      <4>2. \A j \in 1..n : Elapsed(j, n + 1)' = Elapsed(j, n) + dt
        BY <1>6
      <4> QED BY <4>1, <4>2, <1>2
    <3>3. \A j \in 1..n : (\A i \in j..(n + 1) : Cond(i)' = c) => k <= j
      BY <3>1
    <3> QED BY <2>1, <2>2, <3>1, <3>2, <3>3, <1>2
  <2>3. CASE ~(n > 0 /\ c = Cond(n))
    <3>1. \A k \in 1..n : n \in k..(n + 1) /\ Cond(n)' # c
      BY <2>3, <1>6
    <3> QED BY <2>1, <2>3, <3>1
  <2> QED BY <2>2, <2>3
<1>13. \E k \in 1..(n + 1) : /\ k = 1 \/ Confirmed(k)'
                             /\ \A m \in (k + 1)..(n + 1) : ~Confirmed(m)'
                             /\ o = Cond(k)'
  <2>1. CASE n = 0
    BY <2>1, <1>b, <1>6 DEF DebounceInv
  <2>2. CASE n > 0 /\ c = Cond(n) /\ h >= limit
    <3>1. o = c /\ Confirmed(n + 1)'
      BY <2>2, <1>b, <1>12 DEF DebounceInv
    <3> QED BY <3>1, <1>6
  <2>3. CASE n > 0 /\ ~(c = Cond(n) /\ h >= limit)
    <3>1. o = Answer /\ ~Confirmed(n + 1)'
      BY <2>3, <1>b, <1>12 DEF DebounceInv
    <3>2. PICK k \in 1..n : LatestConfirmed(k, Answer)
      BY <2>3 DEF DebounceInv
    <3> QED BY <3>1, <3>2, <1>6, <1>11 DEF LatestConfirmed
  <2> QED BY <2>1, <2>2, <2>3
<1> HIDE DEF same
<1> QED BY <1>6, <1>7, <1>10, <1>13 DEF DebounceInv, LatestConfirmed

(* What Delay.Stable, Calculate.Stable, Between and Beyond and             *)
(* Debounce.Stable accept has been so for the time asked for, and they     *)
(* accept it on the first call on which it has.                            *)
THEOREM AcceptedForEver == Spec => []AcceptedWhenStable
<1> DEFINE Inv == /\ operator \in Stables => StableInv
                  /\ operator \in Ranges => RangeInv
                  /\ operator = "Debounce.Stable" => DebounceInv
           Ours == operator \in Stables \cup Ranges \cup {"Debounce.Stable"}
           I == Ours => Shape /\ Inv
<1>1. Init => I
  BY Beginning DEF StableInv, RangeInv, DebounceInv
<1>2. I /\ [Next]_vars => I'
  <2> SUFFICES ASSUME I, [Next]_vars, Ours'
               PROVE  Shape' /\ Inv'
    OBVIOUS
  <2>1. CASE Next
    <3>1. operator' = operator /\ Ours
      BY <2>1, SiteStays
    <3>2. CASE operator \in Stables
      <4>1. Shape' /\ StableInv'
        BY <2>1, <3>1, <3>2, ActionOfOperator, StableStep
      <4>2. operator \notin Ranges /\ operator # "Debounce.Stable"
        BY <3>2 DEF Stables, Ranges
      <4> QED BY <3>1, <4>1, <4>2
    <3>3. CASE operator \in Ranges
      <4>1. Shape' /\ RangeInv'
        BY <2>1, <3>1, <3>3, ActionOfOperator, RangeStep
      <4>2. operator \notin Stables /\ operator # "Debounce.Stable"
        BY <3>3 DEF Stables, Ranges
      <4> QED BY <3>1, <4>1, <4>2
    <3>4. CASE operator = "Debounce.Stable"
      <4>1. Shape' /\ DebounceInv'
        BY <2>1, <3>1, <3>4, ActionOfOperator, DebounceStep
      <4>2. operator \notin Stables /\ operator \notin Ranges
        BY <3>4 DEF Stables, Ranges
      <4> QED BY <3>1, <4>1, <4>2
    <3> QED BY <3>1, <3>2, <3>3, <3>4
  <2>2. CASE UNCHANGED vars
    <3>1. Ours /\ Shape' /\ Inv
      BY <2>2, Stuttering DEF vars
    <3>2. operator \in Stables => StableInv'
      BY <2>2, <3>1, Stuttering DEF vars, StableInv, Fresh, Near, Pairs
    <3>3. operator \in Ranges => RangeInv'
      BY <2>2, <3>1, Stuttering DEF vars, RangeInv, RangeRun, Fresh, Within
    <3>4. operator = "Debounce.Stable" => DebounceInv'
      BY <2>2, <3>1, Stuttering
         DEF vars, DebounceInv, ConditionRun, LatestConfirmed, Confirmed, Fresh
    <3> QED BY <2>2, <3>1, <3>2, <3>3, <3>4 DEF vars
  <2> QED BY <2>1, <2>2
<1>3. I => AcceptedWhenStable
  <2> SUFFICES ASSUME I, Last > 0
               PROVE  /\ operator \in Stables => 
                           \E k \in 1..Last :
                             /\ Reference(k, Last, {p \in Pairs : AbsDiff(X(p[1]), X(p[2])) <= delta})
                             /\ Answer <=> k < Last /\ Elapsed(k, Last) >= limit
                      /\ operator \in Ranges =>
                           (Answer <=> \E k \in 1..(Last - 1) :
                              (\A i \in k..Last : Within(i)) /\ Elapsed(k, Last) >= limit)
                      /\ operator = "Debounce.Stable" =>
                           \E n \in 1..Last : LatestConfirmed(n, Answer)
    BY DEF AcceptedWhenStable, LatestConfirmed
  <2> QED BY StableExact, RangeExact DEF DebounceInv
<1> QED BY <1>1, <1>2, <1>3, PTL DEF Spec

-----------------------------------------------------------------------------
(* Change.By, Up and Down: without a filter the slot holds the previous    *)
(* input; with one, the reference input, its age, and whether its change   *)
(* has had its pulse.                                                      *)

Qualified == {p \in Pairs : Qualifies(X(p[1]), X(p[2]))}

ChangeInv ==
  /\ Fresh <=> Last = 0
  /\ Last > 0 =>
       /\ slot \in ChangeSlots
       /\ limit = NoFilter =>
            slot.x = X(Last) /\ (Answer <=> Last > 1 /\ <<Last - 1, Last>> \in Qualified)
       /\ limit # NoFilter =>
            \E k \in 1..Last :
              /\ Reference(k, Last, Qualified)
              /\ slot.x = X(k) /\ slot.held = Elapsed(k, Last)
              /\ slot.pending <=> k < Last /\ slot.held >= limit
              /\ Answer <=> k < Last /\ Ripens(k)

LEMMA ChangeStep ==
  ASSUME Shape, ChangeInv, operator \in Changes, NEW dt \in Periods, NEW x \in Inputs,
         ChangeInValue(x, dt)
  PROVE  Shape' /\ ChangeInv'
<1> PICK n \in Nat : n = Last
  BY Numbers
<1> DEFINE lasts == ~Fresh /\ limit # NoFilter /\ Qualifies(slot.x, x)
           held  == Held(lasts, dt)
           ripe  == lasts /\ ~slot.pending /\ held >= limit
           pulse == ripe \/ (~Fresh /\ limit = NoFilter /\ Qualifies(slot.x, x))
           after == IF lasts THEN ChangeBy(slot.x, held, slot.pending \/ ripe)
                             ELSE ChangeBy(x, 0, FALSE)
<1>1. slot' = after /\ Execute("call", x, dt, pulse)
  BY DEF ChangeInValue
<1>2. /\ dt \in Nat \ {0} /\ x \in Int
      /\ limit # NoFilter => limit \in Nat
      /\ Qualifies(slot.x, x) \in BOOLEAN
  BY Periodic DEF Shape, ArgumentsOK, Qualifies
<1>3. ~Fresh => n > 0 /\ slot \in ChangeSlots
  BY DEF ChangeInv
<1>4. /\ held \in Nat
      /\ ~Fresh => slot.held \in Nat /\ slot.x \in Int /\ slot.pending \in BOOLEAN
  <2>1. slot \in ChangeSlots => slot.held \in Nat /\ slot.x \in Int /\ slot.pending \in BOOLEAN
    BY DEF ChangeSlots
  <2> QED BY <1>2, <1>3, <2>1 DEF Held
<1>5. pulse \in BOOLEAN
  BY <1>2
<1> PICK h, o : h \in Nat /\ h = held /\ o = pulse
  BY <1>4
<1>6. Execute("call", x, dt, o) /\ o \in BOOLEAN
  BY <1>1, <1>5
<1>a. "call" \in Methods /\ x \in Int /\ dt \in Nat /\ o \in Answers
  BY <1>2, <1>6, Periodic
<1>7. /\ Shape' /\ Last' = n + 1 /\ UNCHANGED site /\ Answer' = o
      /\ \A i \in 1..n : X(i)' = X(i)
      /\ X(n + 1)' = x
      /\ \A i \in 0..n : Elapsed(i, n + 1)' = Elapsed(i, n) + dt
      /\ \A i, j \in 0..n : Elapsed(i, j)' = Elapsed(i, j)
      /\ Elapsed(n + 1, n + 1)' = 0
  BY <1>6, <1>a, Extended
<1>8. \A i, j \in 1..(n + 1) : <<i, j>> \in Qualified' <=> Qualifies(X(i)', X(j)')
  <2> TAKE i \in 1..(n + 1), j \in 1..(n + 1)
  <2>1. <<i, j>> \in Pairs'
    BY <1>7 DEF Pairs
  <2> QED BY <2>1, <1>7 DEF Qualified, Qualifies, site
<1>9. \A i, j \in 1..n : <<i, j>> \in Qualified <=> Qualifies(X(i), X(j))
  BY DEF Qualified, Pairs
<1>10. \A i, j \in 1..n : <<i, j>> \in Qualified' <=> <<i, j>> \in Qualified
  <2> TAKE i \in 1..n, j \in 1..n
  <2>1. X(i)' = X(i) /\ X(j)' = X(j)
    BY <1>7
  <2>2. i \in 1..(n + 1) /\ j \in 1..(n + 1)
    OBVIOUS
  <2> QED BY <2>1, <2>2, <1>8, <1>9
<1>11. PICK now, next : now = Qualified /\ next = Qualified'
  OBVIOUS
<1>12. CASE limit = NoFilter
  <2>1. slot' = ChangeBy(x, 0, FALSE)
    BY <1>1, <1>12
  <2>2. slot'.x = x /\ slot' \in ChangeSlots /\ ~Fresh'
    BY <2>1, <1>2 DEF ChangeBy, ChangeSlots, Fresh, Uninit
  <2>3. o <=> n > 0 /\ Qualifies(slot.x, x)
    <3>1. ~Fresh <=> n > 0
      BY DEF ChangeInv
    <3>2. ~lasts /\ o = ((lasts /\ ~slot.pending /\ held >= limit) \/ (~Fresh /\ Qualifies(slot.x, x)))
      BY <1>12
    <3> HIDE DEF lasts, held
    <3> QED BY <3>1, <3>2
  <2>4. n > 0 => (<<n, n + 1>> \in Qualified' <=> Qualifies(slot.x, x))
    <3>1. n > 0 => X(n)' = slot.x /\ X(n + 1)' = x
      BY <1>7, <1>12 DEF ChangeInv
    <3> QED BY <3>1, <1>8
  <2>5. Answer' <=> n + 1 > 1 /\ <<n + 1 - 1, n + 1>> \in Qualified'
    BY <2>3, <2>4, <1>7
  <2> QED BY <2>2, <2>5, <1>7, <1>12 DEF ChangeInv, site
<1>13. CASE limit # NoFilter
  <2>1. /\ slot'.held = h /\ slot' \in ChangeSlots /\ ~Fresh'
        /\ slot'.x = IF lasts THEN slot.x ELSE x
        /\ slot'.pending <=> lasts /\ (slot.pending \/ ripe)
    <3>1. CASE lasts
      <4>1. slot.pending \in BOOLEAN /\ slot.x \in Int
        BY <3>1, <1>4
      <4>2. PICK q \in BOOLEAN, r \in Int : q = (slot.pending \/ ripe) /\ r = slot.x
        BY <4>1
      <4>3. slot' = ChangeBy(r, h, q)
        BY <1>1, <3>1, <4>2
      <4> HIDE DEF lasts, ripe, held
      <4>4. /\ slot'.x = r /\ slot'.held = h /\ (slot'.pending <=> q)
            /\ slot' \in ChangeSlots /\ ~Fresh'
        BY <4>3 DEF ChangeBy, ChangeSlots, Fresh, Uninit
      <4> QED BY <4>2, <4>4, <3>1
    <3>2. CASE ~lasts
      <4>1. slot' = ChangeBy(x, 0, FALSE) /\ h = 0
        BY <1>1, <3>2 DEF Held
      <4> HIDE DEF lasts, ripe, held
      <4>2. /\ slot'.x = x /\ slot'.held = 0 /\ ~slot'.pending
            /\ slot' \in ChangeSlots /\ ~Fresh'
        BY <4>1, <1>2 DEF ChangeBy, ChangeSlots, Fresh, Uninit
      <4> QED BY <4>1, <4>2, <3>2
    <3> QED BY <3>1, <3>2
  <2>2. /\ o <=> lasts /\ ~slot.pending /\ h >= limit
        /\ ripe <=> o
        /\ h = IF lasts THEN slot.held + dt ELSE 0
    BY <1>13 DEF Held
  <2> DEFINE Begun(k) == /\ Reference(k, n + 1, next)
                         /\ slot'.x = X(k)' /\ h = Elapsed(k, n + 1)'
                         /\ slot'.pending <=> k < n + 1 /\ h >= limit
                         /\ o <=> k < n + 1 /\ h >= limit
                                 /\ (k < n => Elapsed(k, n) < limit)
  <2>3. \E k \in 1..(n + 1) : Begun(k)
    <3>1. CASE n = 0
      <4>1. Fresh /\ ~lasts
        BY <3>1 DEF ChangeInv
      <4>2. Reference(1, 1, next)
        BY FirstReference
      <4> HIDE DEF lasts, ripe, held
      <4> QED BY <3>1, <4>1, <4>2, <2>1, <2>2, <1>7
    <3>2. CASE n > 0
      <4>1. PICK k \in 1..n : /\ Reference(k, n, now)
                              /\ slot.x = X(k) /\ slot.held = Elapsed(k, n)
                              /\ slot.pending <=> k < n /\ slot.held >= limit
        BY <3>2, <1>11, <1>13 DEF ChangeInv
      <4>2. n \in Nat \ {0} /\ \A i, j \in 1..n : <<j, i>> \in next <=> <<j, i>> \in now
        BY <3>2, <1>10, <1>11
      <4>3. /\ <<k, n + 1>> \in next => Reference(k, n + 1, next)
            /\ <<k, n + 1>> \notin next => Reference(n + 1, n + 1, next)
        BY <4>1, <4>2, ReferenceGrows
      <4>4. <<k, n + 1>> \in next <=> lasts
        <5>1. ~Fresh
          BY <3>2 DEF ChangeInv
        <5>2. X(k)' = slot.x /\ X(n + 1)' = x
          BY <4>1, <1>7
        <5>3. <<k, n + 1>> \in next <=> Qualifies(slot.x, x)
          BY <5>2, <1>8, <1>11
        <5> QED BY <5>1, <5>3, <1>13
      <4>5. slot.held \in Nat /\ limit \in Nat
        BY <3>2, <1>2, <1>4, <1>13 DEF ChangeInv
      <4> HIDE DEF lasts, ripe, held
      <4>6. CASE lasts
        <5>1. h = Elapsed(k, n + 1)' /\ slot'.x = X(k)'
          BY <4>6, <4>1, <2>1, <2>2, <1>7
        <5>2. o <=> ~(k < n /\ slot.held >= limit) /\ h >= limit
          BY <4>6, <4>1, <2>2
        <5>3. slot'.pending <=> h >= limit
          BY <4>6, <4>1, <4>5, <2>1, <2>2, <1>2
        <5>4. Begun(k)
          BY <5>1, <5>2, <5>3, <4>1, <4>3, <4>4, <4>5, <4>6
        <5> QED BY <5>4
      <4>7. CASE ~lasts
        <5>1. Begun(n + 1)
          BY <4>7, <4>3, <4>4, <2>1, <2>2, <1>7
        <5> QED BY <5>1
      <4> QED BY <4>6, <4>7
    <3> QED BY <3>1, <3>2
  <2>4. PICK k \in 1..(n + 1) : Begun(k)
    BY <2>3
  <2>5. Ripens(k)' <=> h >= limit /\ (k < n => Elapsed(k, n) < limit)
    <3>1. k < n => Elapsed(k, n)' = Elapsed(k, n)
      BY <1>7
    <3>2. Last' = n + 1 /\ n + 1 - 1 = n /\ limit' = limit /\ Elapsed(k, n + 1)' = h
      BY <2>4, <1>7 DEF site
    <3> QED BY <3>1, <3>2 DEF Ripens
  <2> HIDE DEF lasts, ripe, held
  <2>6. /\ Reference(k, n + 1, Qualified')
        /\ slot'.x = X(k)' /\ slot'.held = Elapsed(k, n + 1)'
        /\ slot'.pending <=> k < n + 1 /\ slot'.held >= limit
        /\ Answer' <=> k < n + 1 /\ Ripens(k)'
    BY <2>4, <2>5, <2>1, <1>7, <1>11
  <2> HIDE DEF Begun
  <2> QED BY <2>1, <2>6, <1>7, <1>13 DEF ChangeInv, site
<1> QED BY <1>12, <1>13

-----------------------------------------------------------------------------
(* Change.To, From and Either: the held time is that since the call before *)
(* the latest edge, as long as its pulse is to come.                       *)

Starts(e) == Flank(Cond(e - 1), Cond(e)) /\ \A i \in e..Last : Cond(i) = Cond(e)

EdgeInv ==
  /\ Fresh <=> Last = 0
  /\ Last > 0 =>
       /\ slot \in EdgeSlots
       /\ slot.prev = Cond(Last)
       /\ limit # NoFilter =>
            /\ slot.held > 0 =>
                 \E e \in 2..Last : /\ Starts(e) /\ slot.held = Elapsed(e - 1, Last)
                                    /\ e < Last => slot.held < limit
            /\ slot.held = 0 =>
                 \A e \in 2..Last :
                   Starts(e) => e < Last /\ Elapsed(e - 1, Last) >= limit
       /\ Answer <=>
            \E e \in 2..Last :
              /\ Starts(e)
              /\ IF limit = NoFilter THEN e = Last
                 ELSE /\ e < Last /\ Elapsed(e - 1, Last) >= limit
                      /\ e < Last - 1 => Elapsed(e - 1, Last - 1) < limit

LEMMA EdgeStep ==
  ASSUME Shape, EdgeInv, operator \in Flanks, NEW dt \in Periods, NEW x \in Inputs,
         ChangeInCondition(x, dt)
  PROVE  Shape' /\ EdgeInv'
<1> PICK n \in Nat : n = Last
  BY Numbers
<1> DEFINE cond  == Condition(x)
           edge  == ~Fresh /\ Flank(slot.prev, cond)
           waits == ~Fresh /\ ~edge /\ limit # NoFilter /\ slot.held > 0 /\ cond = slot.prev
           ripe  == waits /\ slot.held + dt >= limit
           pulse == ripe \/ (edge /\ limit = NoFilter)
           held  == IF edge /\ limit # NoFilter THEN dt
                    ELSE IF waits /\ ~ripe THEN slot.held + dt ELSE 0
<1>1. slot' = ChangeEdge(cond, held) /\ Execute("call", x, dt, pulse)
  BY DEF ChangeInCondition
<1>2. /\ dt \in Nat \ {0} /\ x \in Int /\ cond \in BOOLEAN
      /\ limit # NoFilter => limit \in Nat
  BY Periodic DEF Shape, ArgumentsOK
<1>3. ~Fresh => /\ n > 0 /\ slot \in EdgeSlots
                /\ slot.prev = Cond(n)
  BY DEF EdgeInv
<1>4. ~Fresh => slot.held \in Nat /\ slot.prev \in BOOLEAN
  <2>1. slot \in EdgeSlots => slot.held \in Nat /\ slot.prev \in BOOLEAN
    BY DEF EdgeSlots
  <2> QED BY <1>3, <2>1
<1>5. /\ Flank(slot.prev, cond) \in BOOLEAN /\ edge \in BOOLEAN
      /\ waits \in BOOLEAN /\ ripe \in BOOLEAN /\ pulse \in BOOLEAN
      /\ held \in Nat
  <2>1. Flank(slot.prev, cond) \in BOOLEAN
    BY DEF Flank
  <2>2. edge \in BOOLEAN /\ waits \in BOOLEAN /\ ripe \in BOOLEAN /\ pulse \in BOOLEAN
    OBVIOUS
  <2>3. waits => slot.held + dt \in Nat
    BY <1>2, <1>4
  <2> QED BY <2>1, <2>2, <2>3, <1>2
<1> PICK h, o, c : h \in Nat /\ h = held /\ o = pulse /\ c = cond
  BY <1>5
<1>6. /\ slot' = ChangeEdge(c, h) /\ Execute("call", x, dt, o)
      /\ o \in BOOLEAN /\ c \in BOOLEAN
  BY <1>1, <1>2, <1>5
<1>a. "call" \in Methods /\ x \in Int /\ dt \in Nat /\ o \in Answers
  BY <1>2, <1>6, Periodic
<1>7. /\ Shape' /\ Last' = n + 1 /\ UNCHANGED site /\ Answer' = o
      /\ \A i \in 1..n : Cond(i)' = Cond(i)
      /\ Cond(n + 1)' = c
      /\ \A i \in 0..n : Elapsed(i, n + 1)' = Elapsed(i, n) + dt
      /\ \A i, j \in 0..n : Elapsed(i, j)' = Elapsed(i, j)
      /\ Elapsed(n + 1, n + 1)' = 0
  BY <1>6, <1>a, Extended
<1>8. slot'.held = h /\ slot'.prev = c /\ slot' \in EdgeSlots /\ ~Fresh'
  BY <1>6 DEF ChangeEdge, EdgeSlots, Fresh, Uninit
<1>9. /\ edge <=> n > 0 /\ Flank(Cond(n), c)
      /\ waits <=> n > 0 /\ ~edge /\ limit # NoFilter /\ slot.held > 0 /\ c = Cond(n)
      /\ ripe <=> waits /\ slot.held + dt >= limit
      /\ o <=> ripe \/ (edge /\ limit = NoFilter)
      /\ h = IF edge /\ limit # NoFilter THEN dt
             ELSE IF waits /\ ~ripe THEN slot.held + dt ELSE 0
  <2>1. (~Fresh <=> n > 0) /\ (~Fresh => slot.prev = Cond(n))
    BY DEF EdgeInv
  <2>2. edge <=> n > 0 /\ Flank(Cond(n), c)
    BY <2>1
  <2>3. waits <=> n > 0 /\ ~edge /\ limit # NoFilter /\ slot.held > 0 /\ c = Cond(n)
    <3> HIDE DEF edge
    <3> QED BY <2>1
  <2> HIDE DEF edge, waits, cond
  <2> QED BY <2>2, <2>3
<1> HIDE DEF pulse, held, ripe, waits, edge, cond
<1>10. \A e \in 2..n : Starts(e)' <=> Starts(e) /\ c = Cond(n)
  <2> TAKE e \in 2..n
  <2>1. /\ Cond(e - 1)' = Cond(e - 1) /\ Cond(e)' = Cond(e)
        /\ \A i \in e..n : Cond(i)' = Cond(i)
    BY <1>7
  <2>2. (\A i \in e..(n + 1) : Cond(i)' = Cond(e)')
          <=> (\A i \in e..n : Cond(i) = Cond(e)) /\ c = Cond(n)
    BY <2>1, <1>7
  <2>3. Flank(Cond(e - 1), Cond(e))' <=> Flank(Cond(e - 1), Cond(e))
    BY <2>1, <1>7 DEF Flank, site
  <2> QED BY <2>2, <2>3, <1>7 DEF Starts
<1>11. n > 0 => (Starts(n + 1)' <=> Flank(Cond(n), c))
  <2> SUFFICES ASSUME n > 0 PROVE Starts(n + 1)' <=> Flank(Cond(n), c)
    OBVIOUS
  <2>1. Cond(n)' = Cond(n) /\ Cond(n + 1)' = c
    BY <1>7
  <2>2. Flank(Cond(n + 1 - 1), Cond(n + 1))' <=> Flank(Cond(n), c)
    BY <2>1, <1>7 DEF Flank, site
  <2> QED BY <2>2, <1>7 DEF Starts
<1>12. \A e \in 2..n : Starts(e) => Cond(e) = Cond(n)
  BY DEF Starts
<1>13. edge => c # Cond(n)
  BY <1>9, <1>6 DEF Flank
<1> DEFINE Ripe(e) == IF limit = NoFilter THEN e = n + 1
                      ELSE /\ e < n + 1 /\ Elapsed(e - 1, n + 1)' >= limit
                           /\ e < n => Elapsed(e - 1, n) < limit
<1>14. \A e \in 2..n : Elapsed(e - 1, n + 1)' = Elapsed(e - 1, n) + dt
  BY <1>7
<1>15. \A e \in 2..n : Elapsed(e - 1, n) \in Nat
  BY Numbers
<1>16. o <=> \E e \in 2..(n + 1) : Starts(e)' /\ Ripe(e)
  <2>1. CASE n = 0
    BY <2>1, <1>9
  <2>2. CASE n > 0 /\ limit = NoFilter
    <3>1. o <=> Starts(n + 1)'
      BY <2>2, <1>9, <1>11
    <3> QED BY <2>2, <3>1
  <2>3. CASE n > 0 /\ limit # NoFilter /\ c # Cond(n)
    BY <2>3, <1>9, <1>10
  <2>4. CASE n > 0 /\ limit # NoFilter /\ c = Cond(n)
    <3>1. ~edge /\ ~Starts(n + 1)' /\ limit \in Nat /\ slot.held \in Nat
      BY <2>4, <1>2, <1>4, <1>9, <1>11, <1>13 DEF EdgeInv
    <3>2. \A e \in 2..n : Starts(e)' <=> Starts(e)
      BY <2>4, <1>10
    <3>3. CASE slot.held > 0
      <4>1. PICK e \in 2..n : /\ Starts(e) /\ slot.held = Elapsed(e - 1, n)
                              /\ e < n => slot.held < limit
        BY <2>4, <3>3 DEF EdgeInv
      <4>2. \A f \in 2..n : Starts(f) => f = e
        BY <4>1, <1>6 DEF Starts, Flank
      <4>3. o <=> slot.held + dt >= limit
        BY <2>4, <3>1, <3>3, <1>9
      <4>4. o <=> Ripe(e)
        BY <2>4, <4>1, <4>3, <1>14
      <4> QED BY <4>1, <4>2, <4>4, <3>1, <3>2
    <3>4. CASE slot.held = 0
      <4>1. ~o
        BY <2>4, <3>4, <1>9
      <4>2. \A e \in 2..n : Starts(e) => e < n /\ Elapsed(e - 1, n) >= limit
        BY <2>4, <3>4 DEF EdgeInv
      <4>3. \A e \in 2..n : Starts(e) => ~Ripe(e)
        BY <2>4, <4>2, <3>1, <1>15
      <4> QED BY <4>1, <4>3, <3>1, <3>2
    <3> QED BY <3>1, <3>3, <3>4
  <2> QED BY <2>1, <2>2, <2>3, <2>4
<1>17. ASSUME limit # NoFilter
       PROVE  /\ h > 0 => \E e \in 2..(n + 1) : /\ Starts(e)' /\ h = Elapsed(e - 1, n + 1)'
                                                /\ e < n + 1 => h < limit
              /\ h = 0 => \A e \in 2..(n + 1) :
                            Starts(e)' => e < n + 1 /\ Elapsed(e - 1, n + 1)' >= limit
  <2>1. CASE n = 0
    BY <2>1, <1>9
  <2>2. CASE n > 0 /\ edge
    <3>1. h = dt /\ Starts(n + 1)' /\ Elapsed(n, n + 1)' = dt
      <4>1. Elapsed(n, n) = 0
        BY Numbers
      <4> QED BY <4>1, <2>2, <1>2, <1>7, <1>9, <1>11, <1>17
    <3> QED BY <3>1, <2>2, <1>2
  <2>3. CASE n > 0 /\ ~edge /\ c # Cond(n)
    <3>1. h = 0 /\ \A e \in 2..(n + 1) : ~Starts(e)'
      BY <2>3, <1>9, <1>10, <1>11
    <3> QED BY <3>1
  <2>4. CASE n > 0 /\ ~edge /\ c = Cond(n)
    <3>1. ~Starts(n + 1)' /\ limit \in Nat /\ slot.held \in Nat
      BY <2>4, <1>2, <1>4, <1>9, <1>11, <1>17 DEF EdgeInv
    <3>2. \A e \in 2..n : Starts(e)' <=> Starts(e)
      BY <2>4, <1>10
    <3>3. CASE slot.held > 0
      <4>1. PICK e \in 2..n : /\ Starts(e) /\ slot.held = Elapsed(e - 1, n)
                              /\ e < n => slot.held < limit
        BY <2>4, <3>3, <1>17 DEF EdgeInv
      <4>2. \A f \in 2..n : Starts(f) => f = e
        BY <4>1, <1>6 DEF Starts, Flank
      <4>3. Elapsed(e - 1, n + 1)' = slot.held + dt
        BY <4>1, <1>14
      <4>4. CASE ripe
        <5>1. h = 0 /\ slot.held + dt >= limit
          BY <4>4, <2>4, <3>3, <1>9, <1>17
        <5> QED BY <5>1, <4>2, <4>3, <3>1, <3>2
      <4>5. CASE ~ripe
        <5>1. h = slot.held + dt /\ h < limit
          BY <4>5, <2>4, <3>1, <3>3, <1>2, <1>9, <1>17
        <5> QED BY <5>1, <4>1, <4>3, <3>1, <3>2, <1>2
      <4> QED BY <4>4, <4>5
    <3>4. CASE slot.held = 0
      <4>1. h = 0
        BY <2>4, <3>4, <1>9
      <4>2. \A e \in 2..n : Starts(e) => e < n /\ Elapsed(e - 1, n) >= limit
        BY <2>4, <3>4, <1>17 DEF EdgeInv
      <4>3. \A e \in 2..n : Starts(e)' => e < n + 1 /\ Elapsed(e - 1, n + 1)' >= limit
        BY <4>2, <3>1, <3>2, <1>2, <1>14, <1>15
      <4> QED BY <4>1, <4>3, <3>1
    <3> QED BY <3>1, <3>3, <3>4
  <2> QED BY <2>1, <2>2, <2>3, <2>4
<1>18. \A e \in 2..(n + 1) :
         Ripe(e) <=> IF limit = NoFilter THEN e = n + 1
                     ELSE /\ e < n + 1 /\ Elapsed(e - 1, n + 1)' >= limit
                          /\ e < n + 1 - 1 => Elapsed(e - 1, n + 1 - 1)' < limit
  <2>1. \A e \in 2..n : Elapsed(e - 1, n)' = Elapsed(e - 1, n)
    BY <1>7
  <2> QED BY <2>1
<1> HIDE DEF Ripe
<1>19. o <=> \E e \in 2..(n + 1) :
              /\ Starts(e)'
              /\ IF limit = NoFilter THEN e = n + 1
                 ELSE /\ e < n + 1 /\ Elapsed(e - 1, n + 1)' >= limit
                      /\ e < n + 1 - 1 => Elapsed(e - 1, n + 1 - 1)' < limit
  BY <1>16, <1>18
<1> QED BY <1>7, <1>8, <1>17, <1>19 DEF EdgeInv, site

(* A change gives one pulse: at once without a filter, and otherwise on    *)
(* the first call on which it has lasted for the filter time.              *)
THEOREM OnePulseForEver == Spec => []OnePulsePerChange
<1> DEFINE Inv == /\ operator \in Changes => ChangeInv
                  /\ operator \in Flanks => EdgeInv
           Ours == operator \in Changes \cup Flanks
           I == Ours => Shape /\ Inv
<1>1. Init => I
  BY Beginning DEF ChangeInv, EdgeInv
<1>2. I /\ [Next]_vars => I'
  <2> SUFFICES ASSUME I, [Next]_vars, Ours'
               PROVE  Shape' /\ Inv'
    OBVIOUS
  <2>1. CASE Next
    <3>1. operator' = operator /\ Ours
      BY <2>1, SiteStays
    <3>2. CASE operator \in Changes
      <4>1. Shape' /\ ChangeInv'
        BY <2>1, <3>1, <3>2, ActionOfOperator, ChangeStep
      <4>2. operator \notin Flanks
        BY <3>2 DEF Changes, Flanks
      <4> QED BY <3>1, <4>1, <4>2
    <3>3. CASE operator \in Flanks
      <4>1. Shape' /\ EdgeInv'
        BY <2>1, <3>1, <3>3, ActionOfOperator, EdgeStep
      <4>2. operator \notin Changes
        BY <3>3 DEF Changes, Flanks
      <4> QED BY <3>1, <4>1, <4>2
    <3> QED BY <3>1, <3>2, <3>3
  <2>2. CASE UNCHANGED vars
    <3>1. Ours /\ Shape' /\ Inv
      BY <2>2, Stuttering DEF vars
    <3>2. operator \in Changes => ChangeInv'
      BY <2>2, <3>1, Stuttering DEF vars, ChangeInv, Fresh, Qualified, Pairs, Qualifies, Ripens
    <3>3. operator \in Flanks => EdgeInv'
      BY <2>2, <3>1, Stuttering DEF vars, EdgeInv, Starts, Flank, Fresh
    <3> QED BY <2>2, <3>1, <3>2, <3>3 DEF vars
  <2> QED BY <2>1, <2>2
<1>3. I => OnePulsePerChange
  <2> SUFFICES ASSUME I, Last > 0
               PROVE  /\ operator \in Changes =>
                           IF limit = NoFilter
                           THEN Answer <=> Last > 1 /\ Qualifies(X(Last - 1), X(Last))
                           ELSE \E k \in 1..Last :
                                  /\ Reference(k, Last, {p \in Pairs : Qualifies(X(p[1]), X(p[2]))})
                                  /\ Answer <=> k < Last /\ Ripens(k)
                      /\ operator \in Flanks =>
                           (Answer <=> \E e \in 2..Last :
                              /\ Starts(e)
                              /\ IF limit = NoFilter THEN e = Last
                                 ELSE /\ e < Last /\ Elapsed(e - 1, Last) >= limit
                                      /\ e < Last - 1 => Elapsed(e - 1, Last - 1) < limit)
    BY Zenon DEF OnePulsePerChange, Starts
  <2>1. ASSUME operator \in Changes, limit = NoFilter
        PROVE  Answer <=> Last > 1 /\ Qualifies(X(Last - 1), X(Last))
    <3>1. Last \in Nat
      BY <2>1, Numbers
    <3>2. Last > 1 => (<<Last - 1, Last>> \in Qualified <=> Qualifies(X(Last - 1), X(Last)))
      BY <3>1 DEF Qualified, Pairs
    <3> QED BY <2>1, <3>2 DEF ChangeInv
  <2>2. ASSUME operator \in Changes, limit # NoFilter
        PROVE  \E k \in 1..Last :
                 /\ Reference(k, Last, {p \in Pairs : Qualifies(X(p[1]), X(p[2]))})
                 /\ Answer <=> k < Last /\ Ripens(k)
    BY <2>2 DEF ChangeInv, Qualified
  <2>3. operator \in Flanks =>
          (Answer <=> \E e \in 2..Last :
             /\ Starts(e)
             /\ IF limit = NoFilter THEN e = Last
                ELSE /\ e < Last /\ Elapsed(e - 1, Last) >= limit
                     /\ e < Last - 1 => Elapsed(e - 1, Last - 1) < limit)
    BY DEF EdgeInv
  <2> QED BY <2>1, <2>2, <2>3
<1> QED BY <1>1, <1>2, <1>3, PTL DEF Spec

-----------------------------------------------------------------------------
(* Calculate.Hysteresis, whose output is not t: the candidate of a push    *)
(* toward t is t, and the held time is at least the age of the push, and   *)
(* exactly the age of one while it counts; from the push's second call on  *)
(* it is below the limit.                                                  *)

PushCounted(t) ==
  /\ Pushes(X(Last), t) => slot.candidate = t
  /\ \A k \in 1..Last : Pushing(t, k, Last) => slot.held >= Elapsed(k - 1, Last)
  /\ slot.candidate = t /\ slot.held > 0 =>
       \E k \in 1..Last : Pushing(t, k, Last) /\ slot.held = Elapsed(k - 1, Last)
  /\ Last > 1 /\ Pushing(t, Last - 1, Last) => slot.held < limit

TurnedInTime ==
  Answer # (IF Last = 1 THEN FALSE ELSE calls[Last - 1].answer) =>
    \E k \in 1..Last : Pushing(Answer, k, Last) /\ Elapsed(k - 1, Last) >= limit

HysteresisInv ==
  /\ Fresh <=> Last = 0
  /\ Last > 0 =>
       /\ slot \in TimedSlots
       /\ slot.output = Answer
       /\ \A t \in BOOLEAN : t # slot.output => PushCounted(t)
       /\ TurnedInTime

LEMMA OpposedPushes ==
  ASSUME NEW x \in Int, NEW t \in BOOLEAN, NEW w \in BOOLEAN, t # w
  PROVE  ~(Pushes(x, t) /\ Pushes(x, w))
<1>1. CASE t = TRUE /\ w = FALSE
  BY <1>1 DEF Pushes
<1>2. CASE t = FALSE /\ w = TRUE
  BY <1>2 DEF Pushes
<1>3. (t = TRUE /\ w = FALSE) \/ (t = FALSE /\ w = TRUE)
  BY Zenon
<1> QED BY <1>1, <1>2, <1>3

LEMMA HysteresisStep ==
  ASSUME Shape, HysteresisInv, operator = "Calculate.Hysteresis",
         NEW dt \in Periods, NEW x \in Inputs, Hysteresis(x, dt)
  PROVE  Shape' /\ HysteresisInv'
<1> PICK n \in Nat : n = Last
  BY Numbers
<1> DEFINE was       == ~Fresh /\ slot.output
           candidate == ~Fresh /\ slot.candidate
           against   == Pushes(x, ~was)
           again     == against /\ candidate = ~was
           held      == PushHeld(against, again, dt)
           output    == IF again /\ held >= limit THEN ~was ELSE was
           next      == IF against THEN ~was ELSE IF Pushes(x, was) THEN was ELSE candidate
<1>1. slot' = Timed(output, next, held) /\ Execute("call", x, dt, output)
  BY DEF Hysteresis
<1>2. dt \in Nat \ {0} /\ x \in Int /\ limit \in Nat
  BY Periodic DEF Shape, ArgumentsOK, OnlyTimed
<1>3. ~Fresh => n > 0 /\ slot \in TimedSlots /\ slot.output = Answer
  BY DEF HysteresisInv
<1>4. ~Fresh => slot.held \in Nat /\ slot.output \in BOOLEAN /\ slot.candidate \in BOOLEAN
  <2>1. slot \in TimedSlots =>
          slot.held \in Nat /\ slot.output \in BOOLEAN /\ slot.candidate \in BOOLEAN
    BY DEF TimedSlots
  <2> QED BY <1>3, <2>1
<1> PICK w \in BOOLEAN, t \in BOOLEAN, d \in BOOLEAN : w = was /\ t = ~was /\ d = candidate
  OBVIOUS
<1> DEFINE a == Pushes(x, t) /\ d = t
<1>5. /\ Fresh => ~w /\ ~d
      /\ ~Fresh => w = slot.output /\ d = slot.candidate
      /\ t = ~w
  BY <1>4
<1>6. /\ against <=> Pushes(x, t)
      /\ again <=> a
      /\ Pushes(x, was) <=> Pushes(x, w)
  OBVIOUS
<1>7. held = IF ~Pushes(x, t) THEN 0 ELSE (IF a THEN slot.held ELSE 0) + dt
  <2> HIDE DEF against, again, was, candidate, a
  <2> QED BY <1>6 DEF PushHeld
<1>8. a => ~Fresh
  BY <1>5
<1>9. held \in Nat
  BY <1>2, <1>4, <1>7, <1>8
<1> PICK h \in Nat : h = held
  BY <1>9
<1>10. output = (IF a /\ h >= limit THEN t ELSE w) /\ output \in BOOLEAN
  <2> HIDE DEF candidate, against, again, held, a
  <2> QED BY <1>6
<1>11. next = (IF Pushes(x, t) THEN t ELSE IF Pushes(x, w) THEN w ELSE d) /\ next \in BOOLEAN
  <2> HIDE DEF candidate, again, held, a
  <2> QED BY <1>6
<1> PICK o, c : o = output /\ c = next
  OBVIOUS
<1>12. /\ slot' = Timed(o, c, h) /\ Execute("call", x, dt, o)
       /\ o \in BOOLEAN /\ c \in BOOLEAN
  BY <1>1, <1>10, <1>11
<1>a. "call" \in Methods /\ x \in Int /\ dt \in Nat /\ o \in Answers
  BY <1>2, <1>12, Periodic
<1>13. /\ h = IF ~Pushes(x, t) THEN 0 ELSE (IF a THEN slot.held ELSE 0) + dt
       /\ o = IF a /\ h >= limit THEN t ELSE w
       /\ c = IF Pushes(x, t) THEN t ELSE IF Pushes(x, w) THEN w ELSE d
  BY <1>7, <1>10, <1>11
<1> HIDE DEF was, candidate, against, again, held, output, next, a
<1>14. /\ Shape' /\ Last' = n + 1 /\ UNCHANGED site /\ Answer' = o
       /\ \A i \in 1..n : X(i)' = X(i) /\ calls'[i] = calls[i]
       /\ X(n + 1)' = x
       /\ \A i \in 0..n : Elapsed(i, n + 1)' = Elapsed(i, n) + dt
  BY <1>12, <1>a, Extended
<1>15. /\ slot'.held = h /\ slot'.candidate = c /\ slot'.output = o
       /\ slot' \in TimedSlots /\ ~Fresh'
  BY <1>12 DEF Timed, TimedSlots, Fresh, Uninit
<1>16. \A v : \A k \in 1..n : Pushing(v, k, n + 1)' <=> Pushing(v, k, n) /\ Pushes(x, v)
  <2> TAKE v
  <2> TAKE k \in 1..n
  <2>1. \A i \in k..n : Pushes(X(i), v)' <=> Pushes(X(i), v)
    BY <1>14 DEF Pushes
  <2>2. Pushes(X(n + 1), v)' <=> Pushes(x, v)
    BY <1>14 DEF Pushes
  <2> QED BY <2>1, <2>2 DEF Pushing
<1>17. \A v : /\ Pushing(v, n + 1, n + 1)' <=> Pushes(x, v)
              /\ Pushes(X(n + 1), v)' <=> Pushes(x, v)
  BY <1>14 DEF Pushing, Pushes
<1>18. Elapsed(n, n + 1)' = dt
  <2>1. Elapsed(n, n) = 0
    BY Numbers
  <2> QED BY <2>1, <1>14, <1>2
<1>19. \A v : \A k \in 1..n : Pushing(v, k, n) => Pushes(X(n), v)
  BY DEF Pushing
<1>20. n > 0 => ~Fresh /\ w = slot.output /\ d = slot.candidate /\ slot.held \in Nat
  BY <1>4, <1>5 DEF HysteresisInv
<1>21. n > 0 => PushCounted(t)
  <2>1. t # w
    BY <1>5
  <2> QED BY <2>1, <1>20 DEF HysteresisInv
<1>22. a <=> Pushes(x, t) /\ d = t
  BY DEF a
<1>23. a => n > 0
  BY <1>8 DEF HysteresisInv
<1>24. /\ n > 0 /\ Pushes(X(n), t) => d = t
       /\ \A k \in 1..n : Pushing(t, k, n) => slot.held >= Elapsed(k - 1, n)
       /\ n > 0 /\ d = t /\ slot.held > 0 =>
            \E k \in 1..n : Pushing(t, k, n) /\ slot.held = Elapsed(k - 1, n)
  BY <1>20, <1>21 DEF PushCounted
<1>25. ASSUME Pushes(x, t)
       PROVE  \E k \in 1..(n + 1) : Pushing(t, k, n + 1)' /\ h = Elapsed(k - 1, n + 1)'
  <2>1. CASE a /\ slot.held > 0
    <3>1. PICK k \in 1..n : Pushing(t, k, n) /\ slot.held = Elapsed(k - 1, n)
      BY <2>1, <1>22, <1>23, <1>24
    <3>2. Pushing(t, k, n + 1)' /\ Elapsed(k - 1, n + 1)' = slot.held + dt
      BY <3>1, <1>14, <1>16, <1>25
    <3> QED BY <3>2, <2>1, <1>13, <1>25
  <2>2. CASE ~(a /\ slot.held > 0)
    <3>1. h = dt
      BY <2>2, <1>2, <1>13, <1>20, <1>23, <1>25
    <3> QED BY <3>1, <1>17, <1>18, <1>25
  <2> QED BY <2>1, <2>2
<1>26. CASE ~(a /\ h >= limit)
  <2>1. Pushes(x, t) => c = t
    BY <1>13
  <2>2. \A k \in 1..(n + 1) : Pushing(t, k, n + 1)' => h >= Elapsed(k - 1, n + 1)'
    <3>1. ASSUME NEW k \in 1..n, Pushing(t, k, n + 1)'
          PROVE  h >= Elapsed(k - 1, n + 1)'
      <4>1. Pushing(t, k, n) /\ Pushes(x, t)
        BY <3>1, <1>16
      <4>2. a /\ slot.held >= Elapsed(k - 1, n)
        BY <4>1, <1>19, <1>22, <1>24
      <4>3. h = slot.held + dt /\ Elapsed(k - 1, n + 1)' = Elapsed(k - 1, n) + dt
        BY <4>1, <4>2, <1>13, <1>14
      <4>4. Elapsed(k - 1, n) \in Nat
        BY Numbers
      <4> QED BY <4>2, <4>3, <4>4, <1>2, <1>20
    <3>2. Pushing(t, n + 1, n + 1)' => h >= dt
      BY <1>2, <1>13, <1>17, <1>20, <1>23
    <3> QED BY <3>1, <3>2, <1>18
  <2>3. c = t /\ h > 0 =>
          \E k \in 1..(n + 1) : Pushing(t, k, n + 1)' /\ h = Elapsed(k - 1, n + 1)'
    <3>1. h > 0 => Pushes(x, t)
      BY <1>13
    <3> QED BY <3>1, <1>25
  <2>4. n > 0 /\ Pushing(t, n, n + 1)' => h < limit
    <3>1. n > 0 /\ Pushing(t, n, n + 1)' => Pushes(x, t) /\ Pushes(X(n), t)
      BY <1>16, <1>19
    <3>2. n > 0 /\ Pushing(t, n, n + 1)' => a
      BY <3>1, <1>22, <1>24
    <3> QED BY <3>2, <1>2, <1>26
  <2>5. PushCounted(t)'
    <3>1. Pushes(X(n + 1), t)' => slot'.candidate = t
      BY <2>1, <1>15, <1>17
    <3>2. n + 1 > 1 /\ Pushing(t, n + 1 - 1, n + 1)' => slot'.held < limit'
      BY <2>4, <1>14, <1>15 DEF site
    <3> QED BY <3>1, <3>2, <2>2, <2>3, <1>14, <1>15 DEF PushCounted
  <2>6. o = w /\ \A v \in BOOLEAN : v # o => v = t
    BY <1>5, <1>13, <1>26
  <2>7. CASE n = 0
    <3>1. ~o
      BY <2>6, <2>7, <1>5 DEF HysteresisInv
    <3>2. o = FALSE
      BY <3>1, <1>12, Zenon
    <3>3. TurnedInTime'
      <4>1. Answer' = FALSE /\ Last' = 1
        BY <2>7, <3>2, <1>14
      <4> QED BY <4>1, Zenon DEF TurnedInTime
    <3> QED BY <2>5, <2>6, <3>3, <1>14, <1>15 DEF HysteresisInv
  <2>8. CASE n > 0
    <3>1. w = calls[n].answer /\ calls'[n] = calls[n]
      BY <2>8, <1>3, <1>14, <1>20 DEF Answer
    <3>2. o = calls'[n].answer
      BY <3>1, <2>6, Zenon
    <3>3. TurnedInTime'
      <4>1. Last' # 1 /\ Last' - 1 = n
        BY <2>8, <1>14
      <4>2. Answer' = calls'[Last' - 1].answer
        BY <4>1, <3>2, <1>14, Zenon
      <4> QED BY <4>1, <4>2, Zenon DEF TurnedInTime
    <3> QED BY <2>5, <2>6, <3>3, <1>14, <1>15 DEF HysteresisInv
  <2> QED BY <2>7, <2>8
<1>27. CASE a /\ h >= limit
  <2>1. o = t /\ c = t /\ ~Pushes(x, w) /\ \A v \in BOOLEAN : v # o => v = w
    <3>1. t # w
      BY <1>5
    <3> QED BY <3>1, <1>2, <1>13, <1>22, <1>27, OpposedPushes
  <2>2. PushCounted(w)'
    <3>1. c # w
      BY <2>1, <1>5
    <3>2. ~Pushes(X(n + 1), w)'
      BY <2>1, <1>17
    <3>3. \A k \in 1..(n + 1) : ~Pushing(w, k, n + 1)'
      BY <2>1, <1>16, <1>17
    <3> QED BY <3>1, <3>2, <3>3, <1>14, <1>15, <1>23, <1>27 DEF PushCounted
  <2>3. PICK k \in 1..(n + 1) : Pushing(t, k, n + 1)' /\ h = Elapsed(k - 1, n + 1)'
    BY <1>22, <1>25, <1>27
  <2>4. TurnedInTime'
    <3>1. Answer' = t /\ limit' = limit /\ Last' = n + 1
      BY <2>1, <1>14 DEF site
    <3> QED BY <3>1, <2>3, <1>27 DEF TurnedInTime
  <2>5. \A v \in BOOLEAN : v # slot'.output => PushCounted(v)'
    <3> SUFFICES ASSUME NEW v \in BOOLEAN, v # slot'.output PROVE PushCounted(v)'
      OBVIOUS
    <3>1. v = w
      BY <2>1, <1>15
    <3> QED BY <3>1, <2>2
  <2>6. slot'.output = Answer'
    BY <1>14, <1>15, Zenon
  <2>7. Last' # 0 /\ slot' \in TimedSlots /\ ~Fresh' /\ Shape'
    BY <1>14, <1>15
  <2> QED BY <2>4, <2>5, <2>6, <2>7, Zenon DEF HysteresisInv
<1> QED BY <1>26, <1>27

LEMMA HysteresisTimely ==
  ASSUME Shape, HysteresisInv, operator = "Calculate.Hysteresis"
  PROVE  HysteresisIsTimely
<1> SUFFICES ASSUME Last > 0
             PROVE  /\ TurnedInTime
                    /\ \A v \in BOOLEAN, k \in 1..(Last - 1) :
                         Pushing(v, k, Last) /\ Elapsed(k - 1, Last) >= limit => Answer = v
  BY DEF HysteresisIsTimely, TurnedInTime
<1>1. TurnedInTime
  BY DEF HysteresisInv
<1>2. ASSUME NEW v \in BOOLEAN, NEW k \in 1..(Last - 1),
             Pushing(v, k, Last), Elapsed(k - 1, Last) >= limit, Answer # v
      PROVE  FALSE
  <2>1. Last \in Nat /\ Elapsed(k - 1, Last) \in Nat
    BY Numbers
  <2>2. PushCounted(v) /\ slot \in TimedSlots
    BY <1>2 DEF HysteresisInv
  <2>3. slot.held \in Nat /\ limit \in Nat
    BY <2>2 DEF TimedSlots, Shape, ArgumentsOK, OnlyTimed
  <2>4. slot.held >= Elapsed(k - 1, Last)
    BY <2>1, <2>2, <1>2 DEF PushCounted
  <2>5. Pushing(v, Last - 1, Last)
    BY <2>1, <1>2 DEF Pushing
  <2>6. slot.held < limit
    BY <2>1, <2>2, <2>5 DEF PushCounted
  <2> QED BY <2>1, <2>3, <2>4, <2>6, <1>2
<1> QED BY <1>1, <1>2

(* Calculate.Hysteresis turns for an unbroken push of the time asked for,  *)
(* on the first call after the push's own on which it has lasted, and for  *)
(* nothing else.                                                           *)
THEOREM HysteresisTimelyForEver == Spec => []HysteresisIsTimely
<1> DEFINE Ours == operator = "Calculate.Hysteresis"
           I == Ours => Shape /\ HysteresisInv
<1>1. Init => I
  BY Beginning DEF HysteresisInv
<1>2. I /\ [Next]_vars => I'
  <2> SUFFICES ASSUME I, [Next]_vars, Ours'
               PROVE  Shape' /\ HysteresisInv'
    OBVIOUS
  <2>1. CASE Next
    BY <2>1, SiteStays, ActionOfOperator, HysteresisStep
  <2>2. CASE UNCHANGED vars
    <3>1. Shape' /\ HysteresisInv
      BY <2>2, Stuttering DEF vars
    <3>2. \A v : PushCounted(v)' <=> PushCounted(v)
      BY <2>2, Stuttering DEF vars, PushCounted, Pushing, Pushes
    <3>3. TurnedInTime' <=> TurnedInTime
      BY <2>2 DEF vars, TurnedInTime, Pushing, Pushes, Answer, Last, X, Elapsed, At
    <3>4. slot' = slot /\ Last' = Last /\ Answer' = Answer
      BY <2>2, Stuttering DEF vars
    <3> QED BY <3>1, <3>2, <3>3, <3>4, Zenon DEF HysteresisInv, Fresh
  <2> QED BY <2>1, <2>2
<1>3. I => HysteresisIsTimely
  BY HysteresisTimely DEF HysteresisIsTimely
<1> QED BY <1>1, <1>2, <1>3, PTL DEF Spec

-----------------------------------------------------------------------------
(* Timer: a running one holds the deadline of the latest Start, a stopped  *)
(* one what was left at the first Stop after it.                           *)

TimerSlots == [kind : {"Timer"}, remaining : Nat, running : BOOLEAN]

Called(i, method) == calls[i].method = method

BegunBy(s) ==
  Called(s, "Start") /\ \A i \in 1..Last : Called(i, "Start") \/ Called(i, "Reset") => i <= s

Undisturbed(s, t) == \A i \in (s + 1)..t : ~Called(i, "Stop")

TimerInv ==
  /\ Fresh => \A i \in 1..Last : Called(i, "Remaining")
  /\ ~Fresh =>
       /\ slot \in TimerSlots
       /\ slot.running =>
            \E s \in 1..Last :
              BegunBy(s) /\ Undisturbed(s, Last) /\ slot.remaining = At(s) + limit
       /\ ~slot.running =>
            \/ slot.remaining = 0 /\ \A s \in 1..Last : ~BegunBy(s)
            \/ \E s \in 1..Last : \E t \in (s + 1)..Last :
                 /\ BegunBy(s) /\ Called(t, "Stop") /\ Undisturbed(s, t - 1)
                 /\ slot.remaining = Positive(limit - Elapsed(s, t))

(* What Remaining answers.                                                 *)
TimerAnswers ==
  Last > 0 /\ Called(Last, "Remaining") =>
    /\ (\A s \in 1..Last : ~BegunBy(s)) => Answer = 0
    /\ \A s \in 1..Last : \A t \in (s + 1)..Last :
         BegunBy(s) /\ (Called(t, "Stop") \/ t = Last) /\ Undisturbed(s, t - 1) =>
           Answer = Positive(limit - Elapsed(s, t))

LEMMA TimerStep ==
  ASSUME Shape, TimerInv, operator = "Timer", NEW dt \in Periods \cup {0},
         NEW method \in {"Start", "Stop", "Reset", "Remaining"}, TimerCall(method, dt)
  PROVE  Shape' /\ TimerInv' /\ TimerAnswers'
<1> PICK n \in Nat : n = Last
  BY Numbers
<1> DEFINE now  == At(Last) + dt
           was  == IF Fresh THEN Timer(0, FALSE) ELSE slot
           left == Left(was, now)
           next == IF method = "Remaining" THEN slot
                   ELSE Timer(IF method = "Start" THEN now + limit
                              ELSE IF method = "Stop" THEN left ELSE 0,
                              method = "Start")
           said == IF method = "Remaining" THEN left ELSE TRUE
<1>1. slot' = next /\ Execute(method, 0, dt, said)
  BY DEF TimerCall
<1>2. dt \in Nat /\ limit \in Nat /\ At(n) \in Nat
  <2>1. At(n) \in Nat
    BY Numbers
  <2>2. dt \in Nat
    BY Periodic
  <2>3. limit \in Nat
    BY DEF Shape, ArgumentsOK, OnlyTimed
  <2> QED BY <2>1, <2>2, <2>3
<1>3. was \in TimerSlots
  BY DEF TimerInv, Timer, TimerSlots
<1>4. was.remaining \in Nat /\ was.running \in BOOLEAN /\ now \in Nat
  <2>1. now \in Nat
    BY <1>2
  <2> HIDE DEF was, now
  <2> QED BY <1>3, <2>1 DEF TimerSlots
<1> PICK e \in Nat : e = now
  BY <1>4
<1>5. /\ left = IF Fresh THEN 0
                ELSE IF slot.running THEN Positive(slot.remaining - e) ELSE slot.remaining
      /\ left \in Nat
  <2>1. \A v \in Int : Positive(v) \in Nat
    BY DEF Positive
  <2>2. CASE Fresh
    <3>1. was = Timer(0, FALSE)
      BY <2>2
    <3> HIDE DEF was, now
    <3> QED BY <2>2, <3>1 DEF Left, Timer
  <2>3. CASE ~Fresh
    <3>1. was = slot
      BY <2>3
    <3> HIDE DEF was, now
    <3> QED BY <2>1, <2>3, <3>1, <1>4 DEF Left
  <2> QED BY <2>2, <2>3
<1> PICK l, a : l \in Nat /\ l = left /\ a = said
  BY <1>5
<1> HIDE DEF left, now, was
<1>6. Execute(method, 0, dt, a) /\ a \in Answers /\ method \in Methods /\ 0 \in Int
  <2>1. l \in Answers /\ TRUE \in Answers
    BY DEF Answers
  <2>2. method \in Methods
    BY DEF Methods
  <2>3. Execute(method, 0, dt, a)
    BY <1>1, Zenon
  <2>4. a = l \/ a = TRUE
    BY Zenon
  <2>5. a \in Answers
    BY <2>1, <2>4, Zenon
  <2>6. 0 \in Int
    OBVIOUS
  <2> QED BY <2>2, <2>3, <2>5, <2>6, Zenon
<1>7. /\ slot' = IF method = "Remaining" THEN slot
                 ELSE Timer(IF method = "Start" THEN e + limit
                            ELSE IF method = "Stop" THEN l ELSE 0, method = "Start")
      /\ l = IF Fresh THEN 0
             ELSE IF slot.running THEN Positive(slot.remaining - e) ELSE slot.remaining
      /\ method = "Remaining" => a = l
  BY <1>1, <1>5
<1> HIDE DEF left, next, said, now
<1>8. /\ Shape' /\ Last' = n + 1 /\ UNCHANGED site /\ Answer' = a
      /\ \A i \in 1..n : calls'[i] = calls[i]
      /\ calls'[n + 1].method = method
      /\ \A i \in 0..n : At(i)' = At(i) /\ Elapsed(i, n + 1)' = Elapsed(i, n) + dt
      /\ \A i, j \in 0..n : Elapsed(i, j)' = Elapsed(i, j)
  BY <1>6, <1>2, Extended
<1>9. At(n + 1)' = e
  BY <1>6, <1>8, Appended DEF At, now
<1>10. /\ \A m : \A i \in 1..n : Called(i, m)' <=> Called(i, m)
       /\ \A m : Called(n + 1, m)' <=> method = m
  BY <1>8 DEF Called
<1>11. \A s \in 1..n : BegunBy(s)' <=> BegunBy(s) /\ method \notin {"Start", "Reset"}
  BY <1>8, <1>10 DEF BegunBy
<1>12. BegunBy(n + 1)' <=> method = "Start"
  BY <1>8, <1>10 DEF BegunBy
<1>13. \A s \in 1..n : /\ \A t \in s..n : Undisturbed(s, t)' <=> Undisturbed(s, t)
                       /\ Undisturbed(s, n + 1)' <=> Undisturbed(s, n) /\ method # "Stop"
  BY <1>8, <1>10 DEF Undisturbed
<1>14. Undisturbed(n + 1, n + 1)'
  BY DEF Undisturbed
<1>15. \A s, t \in 1..n : At(s) \in Nat /\ At(t) \in Nat /\ Elapsed(s, t) = At(t) - At(s)
  BY Numbers DEF Elapsed
<1>16. \A s \in 1..n : At(s) \in Nat /\ Elapsed(s, n + 1)' = e - At(s)
  BY <1>8, <1>9, <1>15 DEF Elapsed
<1>17. CASE method = "Start"
  <2>1. slot' = Timer(e + limit, TRUE) /\ e + limit \in Nat
    <3>1. (method = "Start") = TRUE
      BY <1>17
    <3>2. method # "Remaining"
      BY <1>17
    <3>3. slot' = Timer(e + limit, TRUE)
      BY <3>1, <3>2, <1>7, <1>17, Zenon
    <3> QED BY <3>3, <1>2
  <2>2. slot' \in TimerSlots /\ ~Fresh' /\ slot'.running /\ slot'.remaining = e + limit
    BY <2>1 DEF Timer, TimerSlots, Fresh, Uninit
  <2>3. \E s \in 1..(n + 1) : BegunBy(s)' /\ Undisturbed(s, n + 1)' /\ slot'.remaining = At(s)' + limit
    BY <2>2, <1>9, <1>12, <1>14, <1>17
  <2>4. TimerInv'
    BY <2>2, <2>3, <1>8 DEF TimerInv, site
  <2>5. ~Called(n + 1, "Remaining")'
    BY <1>10, <1>17
  <2> QED BY <2>4, <2>5, <1>8 DEF TimerAnswers
<1>18. CASE method = "Reset"
  <2>1. slot' = Timer(0, FALSE)
    <3>1. (method = "Start") = FALSE
      BY <1>18
    <3> QED BY <3>1, <1>7, <1>18
  <2>2. slot' \in TimerSlots /\ ~Fresh' /\ ~slot'.running /\ slot'.remaining = 0
    BY <2>1 DEF Timer, TimerSlots, Fresh, Uninit
  <2>3. \A s \in 1..(n + 1) : ~BegunBy(s)'
    BY <1>11, <1>12, <1>18
  <2>4. TimerInv'
    BY <2>2, <2>3, <1>8 DEF TimerInv
  <2>5. ~Called(n + 1, "Remaining")'
    BY <1>10, <1>18
  <2> QED BY <2>4, <2>5, <1>8 DEF TimerAnswers
<1>19. CASE method = "Stop"
  <2>1. slot' = Timer(l, FALSE)
    <3>1. (method = "Start") = FALSE
      BY <1>19
    <3> QED BY <3>1, <1>7, <1>19
  <2>2. slot' \in TimerSlots /\ ~Fresh' /\ ~slot'.running /\ slot'.remaining = l
    BY <2>1 DEF Timer, TimerSlots, Fresh, Uninit
  <2>3. \/ l = 0 /\ \A s \in 1..(n + 1) : ~BegunBy(s)'
        \/ \E s \in 1..(n + 1) : \E t \in (s + 1)..(n + 1) :
             /\ BegunBy(s)' /\ Called(t, "Stop")' /\ Undisturbed(s, t - 1)'
             /\ l = Positive(limit - Elapsed(s, t)')
    <3>1. CASE Fresh
      <4>1. l = 0
        BY <3>1, <1>7 DEF Timer
      <4>2. \A s \in 1..(n + 1) : ~BegunBy(s)'
        BY <3>1, <1>11, <1>12, <1>19 DEF TimerInv, BegunBy, Called
      <4> QED BY <4>1, <4>2
    <3>2. CASE ~Fresh /\ slot.running
      <4>1. PICK s \in 1..n : BegunBy(s) /\ Undisturbed(s, n) /\ slot.remaining = At(s) + limit
        BY <3>2 DEF TimerInv
      <4>2. l = Positive(limit - Elapsed(s, n + 1)')
        <5>1. l = Positive(At(s) + limit - e)
          <6>1. l = Positive(slot.remaining - e)
            BY <3>2, <1>7, Zenon
          <6>2. slot.remaining - e = At(s) + limit - e
            BY <4>1, <1>2, <1>16
          <6> QED BY <6>1, <6>2, Zenon
        <5>2. At(s) + limit - e = limit - Elapsed(s, n + 1)'
          BY <1>2, <1>16
        <5> QED BY <5>1, <5>2
      <4>3. BegunBy(s)' /\ Called(n + 1, "Stop")' /\ Undisturbed(s, n + 1 - 1)'
        BY <4>1, <1>10, <1>11, <1>13, <1>19
      <4> QED BY <4>2, <4>3
    <3>3. CASE ~Fresh /\ ~slot.running
      <4>1. l = slot.remaining
        BY <3>3, <1>7
      <4>2. CASE slot.remaining = 0 /\ \A s \in 1..n : ~BegunBy(s)
        BY <4>1, <4>2, <1>11, <1>12, <1>19
      <4>3. CASE \E s \in 1..n : \E t \in (s + 1)..n :
                   /\ BegunBy(s) /\ Called(t, "Stop") /\ Undisturbed(s, t - 1)
                   /\ slot.remaining = Positive(limit - Elapsed(s, t))
        <5>1. PICK s \in 1..n : \E t \in (s + 1)..n :
                   /\ BegunBy(s) /\ Called(t, "Stop") /\ Undisturbed(s, t - 1)
                   /\ slot.remaining = Positive(limit - Elapsed(s, t))
          BY <4>3
        <5>2. PICK t \in (s + 1)..n :
                   /\ BegunBy(s) /\ Called(t, "Stop") /\ Undisturbed(s, t - 1)
                   /\ slot.remaining = Positive(limit - Elapsed(s, t))
          BY <5>1
        <5>3. BegunBy(s)' /\ Called(t, "Stop")' /\ Undisturbed(s, t - 1)' /\ Elapsed(s, t)' = Elapsed(s, t)
          BY <5>2, <1>8, <1>10, <1>11, <1>13, <1>19
        <5> QED BY <5>2, <5>3, <4>1
      <4> QED BY <4>2, <4>3, <3>3 DEF TimerInv
    <3> QED BY <3>1, <3>2, <3>3
  <2>4. TimerInv'
    BY <2>2, <2>3, <1>8 DEF TimerInv, site
  <2>5. ~Called(n + 1, "Remaining")'
    BY <1>10, <1>19
  <2> QED BY <2>4, <2>5, <1>8 DEF TimerAnswers
<1>20. CASE method = "Remaining"
  <2>1. slot' = slot /\ a = l
    BY <1>7, <1>20
  <2>2. TimerInv'
    <3>1. Fresh => \A i \in 1..(n + 1) : Called(i, "Remaining")'
      BY <1>10, <1>20 DEF TimerInv
    <3>2. \A s \in 1..n : BegunBy(s)' <=> BegunBy(s)
      BY <1>11, <1>20
    <3>3. ~BegunBy(n + 1)' /\ \A s \in 1..n : Undisturbed(s, n + 1)' <=> Undisturbed(s, n)
      BY <1>12, <1>13, <1>20
    <3>4. ASSUME ~Fresh, slot.running
          PROVE  \E s \in 1..(n + 1) :
                   BegunBy(s)' /\ Undisturbed(s, n + 1)' /\ slot.remaining = At(s)' + limit
      BY <3>2, <3>3, <3>4, <1>8 DEF TimerInv
    <3>5. ASSUME ~Fresh, ~slot.running
          PROVE  \/ slot.remaining = 0 /\ \A s \in 1..(n + 1) : ~BegunBy(s)'
                 \/ \E s \in 1..(n + 1) : \E t \in (s + 1)..(n + 1) :
                      /\ BegunBy(s)' /\ Called(t, "Stop")' /\ Undisturbed(s, t - 1)'
                      /\ slot.remaining = Positive(limit - Elapsed(s, t)')
      <4>1. CASE slot.remaining = 0 /\ \A s \in 1..n : ~BegunBy(s)
        BY <4>1, <3>2, <3>3
      <4>2. CASE \E s \in 1..n : \E t \in (s + 1)..n :
                   /\ BegunBy(s) /\ Called(t, "Stop") /\ Undisturbed(s, t - 1)
                   /\ slot.remaining = Positive(limit - Elapsed(s, t))
        <5>1. PICK s \in 1..n : \E t \in (s + 1)..n :
                   /\ BegunBy(s) /\ Called(t, "Stop") /\ Undisturbed(s, t - 1)
                   /\ slot.remaining = Positive(limit - Elapsed(s, t))
          BY <4>2
        <5>2. PICK t \in (s + 1)..n :
                   /\ BegunBy(s) /\ Called(t, "Stop") /\ Undisturbed(s, t - 1)
                   /\ slot.remaining = Positive(limit - Elapsed(s, t))
          BY <5>1
        <5>3. t \in 1..n /\ t - 1 \in s..n
          OBVIOUS
        <5>4. BegunBy(s)' /\ Called(t, "Stop")' /\ Undisturbed(s, t - 1)' /\ Elapsed(s, t)' = Elapsed(s, t)
          BY <5>2, <5>3, <3>2, <1>8, <1>10, <1>13
        <5> QED BY <5>2, <5>4
      <4> QED BY <4>1, <4>2, <3>5 DEF TimerInv
    <3>6. slot \in TimerSlots \/ Fresh
      BY DEF TimerInv
    <3> QED BY <3>1, <3>4, <3>5, <3>6, <2>1, <1>8 DEF TimerInv, Fresh, site
  <2>3. ASSUME \A s \in 1..(n + 1) : ~BegunBy(s)'
        PROVE  l = 0
    <3>1. \A s \in 1..n : ~BegunBy(s)
      BY <2>3, <1>11, <1>20
    <3> QED BY <3>1, <1>7 DEF TimerInv, Timer
  <2>4. ASSUME NEW s \in 1..(n + 1), NEW t \in (s + 1)..(n + 1),
               BegunBy(s)', Called(t, "Stop")' \/ t = n + 1, Undisturbed(s, t - 1)'
        PROVE  l = Positive(limit - Elapsed(s, t)')
    <3>1. s \in 1..n /\ BegunBy(s)
      BY <2>4, <1>11, <1>12, <1>20
    <3>2. \A r \in 1..n : BegunBy(r) => r = s
      BY <3>1 DEF BegunBy
    <3>3. Undisturbed(s, t - 1)
      BY <3>1, <2>4, <1>13
    <3>4. ~Fresh
      BY <3>1 DEF TimerInv, BegunBy, Called
    <3>5. CASE slot.running
      <4>1. Undisturbed(s, n) /\ slot.remaining = At(s) + limit
        BY <3>1, <3>2, <3>4, <3>5 DEF TimerInv
      <4>2. t = n + 1
        BY <4>1, <3>1, <2>4, <1>10 DEF Undisturbed
      <4>3. l = Positive(At(s) + limit - e)
        <5>1. l = Positive(slot.remaining - e)
          BY <3>4, <3>5, <1>7, Zenon
        <5>2. slot.remaining - e = At(s) + limit - e
          BY <4>1, <3>1, <1>2, <1>16
        <5> QED BY <5>1, <5>2, Zenon
      <4>4. At(s) + limit - e = limit - Elapsed(s, n + 1)'
        BY <3>1, <1>2, <1>16
      <4> QED BY <4>2, <4>3, <4>4
    <3>6. CASE ~slot.running
      <4>1. PICK u \in (s + 1)..n : /\ Called(u, "Stop") /\ Undisturbed(s, u - 1)
                                    /\ slot.remaining = Positive(limit - Elapsed(s, u))
        BY <3>1, <3>2, <3>4, <3>6 DEF TimerInv
      <4>2. t = u
        <5>1. t <= u
          BY <4>1, <3>1, <3>3 DEF Undisturbed
        <5>2. Called(t, "Stop")
          BY <5>1, <2>4, <3>1, <1>10
        <5>3. u <= t
          BY <5>2, <4>1, <3>1 DEF Undisturbed
        <5> QED BY <5>1, <5>3, <3>1
      <4>3. l = slot.remaining
        BY <3>4, <3>6, <1>7
      <4>4. Elapsed(s, u)' = Elapsed(s, u)
        BY <3>1, <1>8
      <4> QED BY <4>1, <4>2, <4>3, <4>4
    <3> QED BY <3>5, <3>6
  <2>5. TimerAnswers'
    BY <2>1, <2>3, <2>4, <1>8 DEF TimerAnswers, site
  <2> QED BY <2>2, <2>5, <1>8
<1> QED BY <1>17, <1>18, <1>19, <1>20

LEMMA TimerExact ==
  ASSUME Shape, TimerAnswers
  PROVE  TimersAreExact
<1> DEFINE Of(method) == {i \in 1..Last : calls[i].method = method}
           Begun == {s \in Of("Start") : \A i \in Of("Start") \cup Of("Reset") : i <= s}
           Until(s) == {t \in (s + 1)..Last :
                          /\ t \in Of("Stop") \cup {Last}
                          /\ \A i \in (s + 1)..(t - 1) : i \notin Of("Stop")}
<1> SUFFICES ASSUME Last > 0, Called(Last, "Remaining")
             PROVE  /\ Begun = {} => Answer = 0
                    /\ \A s \in Begun : \A t \in Until(s) :
                         Answer = Positive(limit - Elapsed(s, t))
  BY Zenon DEF TimersAreExact, Called
<1>1. \A s : s \in Begun <=> s \in 1..Last /\ BegunBy(s)
  BY DEF BegunBy, Called
<1>2. ASSUME NEW s \in Begun, NEW t \in Until(s)
      PROVE  /\ t \in (s + 1)..Last /\ (Called(t, "Stop") \/ t = Last)
             /\ Undisturbed(s, t - 1)
  <2>1. Last \in Nat /\ s \in 1..Last
    BY <1>1, Numbers
  <2>2. t \in (s + 1)..Last /\ (t \in Of("Stop") \/ t = Last)
    OBVIOUS
  <2>3. \A i \in (s + 1)..(t - 1) : i \in 1..Last /\ i \notin Of("Stop")
    BY <2>1
  <2> QED BY <2>2, <2>3 DEF Called, Undisturbed
<1> HIDE DEF Begun, Until
<1> QED BY <1>1, <1>2 DEF TimerAnswers

(* Remaining answers exactly what is left of the latest Start.             *)
THEOREM TimersExactForEver == Spec => []TimersAreExact
<1> DEFINE Ours == operator = "Timer"
           I == Ours => Shape /\ TimerInv /\ TimerAnswers
<1>1. Init => I
  BY Beginning DEF TimerInv, TimerAnswers
<1>2. I /\ [Next]_vars => I'
  <2> SUFFICES ASSUME I, [Next]_vars, Ours'
               PROVE  Shape' /\ TimerInv' /\ TimerAnswers'
    OBVIOUS
  <2>1. CASE Next
    BY <2>1, SiteStays, ActionOfOperator, TimerStep
  <2>2. CASE UNCHANGED vars
    <3>1. Shape' /\ TimerInv /\ TimerAnswers
      BY <2>2, Stuttering DEF vars
    <3> QED BY <2>2, <3>1
            DEF vars, TimerInv, TimerAnswers, BegunBy, Undisturbed, Called, Fresh, Last, Answer,
                Elapsed, At
  <2> QED BY <2>1, <2>2
<1>3. I => TimersAreExact
  BY TimerExact DEF TimersAreExact
<1> QED BY <1>1, <1>2, <1>3, PTL DEF Spec

-----------------------------------------------------------------------------
(* Filters: the answer lies between two of the inputs since the last       *)
(* reset.                                                                  *)

ResetAt(r) == /\ r = 1 \/ calls[r].method = "reset"
              /\ \A i \in (r + 1)..Last : calls[i].method # "reset"

LEMMA LatestReset ==
  ASSUME NEW r \in 1..Last, ResetAt(r), Last \in Nat
  PROVE  LastReset = r
<1>1. \A s \in 1..Last : ResetAt(s) => s = r
  BY DEF ResetAt
<1>2. LastReset = CHOOSE s \in 1..Last : ResetAt(s)
  BY Zenon DEF LastReset, ResetAt
<1> QED BY <1>1, <1>2

LEMMA ResetGrows ==
  ASSUME Shape, NEW method \in Methods, NEW n \in Nat, n = Last, Last' = n + 1,
         \A i \in 1..n : calls'[i] = calls[i], calls'[n + 1].method = method
  PROVE  /\ n = 0 \/ method = "reset" => ResetAt(n + 1)'
         /\ \A r \in 1..n : ResetAt(r) /\ method # "reset" => ResetAt(r)'
BY DEF ResetAt

FilterSlots == [kind : {"Filter"}, y : Int]

FilterInv ==
  /\ Fresh <=> Last = 0
  /\ Last > 0 =>
       /\ slot \in FilterSlots
       /\ Answer = slot.y
       /\ \E r \in 1..Last :
            /\ ResetAt(r)
            /\ \E i, j \in r..Last : X(i) <= slot.y /\ slot.y <= X(j)
       /\ operator = "Filter.Maximum" => slot.y >= X(Last)
       /\ operator = "Filter.Minimum" => slot.y <= X(Last)

LEMMA FilterStep ==
  ASSUME Shape, FilterInv, NEW dt \in Periods, NEW x \in Inputs, NEW y \in Inputs,
         NEW method \in {"call", "reset"}, Smooth(method, x, dt, y)
  PROVE  Shape' /\ FilterInv'
<1> PICK n \in Nat : n = Last
  BY Numbers
<1>1. /\ slot' = Filter(y)
      /\ Execute(method, x, dt, y)
  BY DEF Smooth
<1>2. dt \in Nat /\ x \in Int /\ y \in Int /\ y \in Answers /\ method \in Methods
  BY Periodic DEF Methods, Answers
<1>3. /\ Shape' /\ Last' = n + 1 /\ UNCHANGED site /\ Answer' = y
      /\ \A i \in 1..n : X(i)' = X(i) /\ calls'[i] = calls[i]
      /\ X(n + 1)' = x /\ calls'[n + 1].method = method
  BY <1>1, <1>2, Extended
<1>4. slot' \in FilterSlots /\ slot'.y = y /\ ~Fresh'
  BY <1>1, <1>2 DEF Filter, FilterSlots, Fresh, Uninit
<1> DEFINE follows == \/ Fresh \/ method = "reset"
                      \/ operator = "Filter.Maximum" /\ x >= slot.y
                      \/ operator = "Filter.Minimum" /\ x <= slot.y
<1>5. IF follows THEN y = x
      ELSE \/ x <= y /\ y <= slot.y
           \/ slot.y <= y /\ y <= x
  BY DEF Smooth
<1>6. \A i \in 1..n : X(i) \in Int
  BY Numbers
<1>7. ~Fresh => n > 0 /\ slot.y \in Int
  BY DEF FilterInv, FilterSlots
<1>8. /\ operator = "Filter.Maximum" => y >= x
      /\ operator = "Filter.Minimum" => y <= x
  BY <1>2, <1>5, <1>7
<1>9. \E r \in 1..(n + 1) : 
        /\ ResetAt(r)'
        /\ \E i, j \in r..(n + 1) : X(i)' <= y /\ y <= X(j)'
  <2>1. CASE Fresh \/ method = "reset"
    <3>1. n = 0 \/ method = "reset"
      BY <2>1 DEF FilterInv
    <3>2. ResetAt(n + 1)'
      BY <3>1, <1>2, <1>3, ResetGrows
    <3>3. X(n + 1)' <= y /\ y <= X(n + 1)'
      BY <2>1, <1>2, <1>3, <1>5
    <3> QED BY <3>2, <3>3
  <2>2. CASE ~Fresh /\ method # "reset"
    <3>1. PICK r \in 1..n : ResetAt(r) /\ \E i, j \in r..n : X(i) <= slot.y /\ slot.y <= X(j)
      BY <2>2, <1>7 DEF FilterInv
    <3>2. PICK i \in r..n, j \in r..n : X(i) <= slot.y /\ slot.y <= X(j)
      BY <3>1
    <3>3. ResetAt(r)'
      BY <3>1, <2>2, <1>2, <1>3, ResetGrows
    <3>4. X(i)' \in Int /\ X(j)' \in Int /\ X(i)' <= slot.y /\ slot.y <= X(j)'
      BY <3>2, <1>3, <1>6
    <3>5. CASE y = x
      BY <3>3, <3>5, <1>2, <1>3
    <3>6. CASE x <= y /\ y <= slot.y
      <4>1. X(n + 1)' <= y /\ y <= X(j)'
        BY <3>4, <3>6, <2>2, <1>2, <1>3, <1>7
      <4> QED BY <4>1, <3>3
    <3>7. CASE slot.y <= y /\ y <= x
      <4>1. X(i)' <= y /\ y <= X(n + 1)'
        BY <3>4, <3>7, <2>2, <1>2, <1>3, <1>7
      <4> QED BY <4>1, <3>3
    <3> QED BY <3>5, <3>6, <3>7, <1>5
  <2> QED BY <2>1, <2>2
<1> QED BY <1>3, <1>4, <1>8, <1>9 DEF FilterInv, site

LEMMA FilterExact ==
  ASSUME Shape, FilterInv, Last > 0
  PROVE  FiltersStayInside
<1>1. PICK r \in 1..Last : /\ ResetAt(r)
                           /\ \E i, j \in r..Last : X(i) <= slot.y /\ slot.y <= X(j)
  BY DEF FilterInv
<1>2. LastReset = r
  BY <1>1, LatestReset, Numbers
<1> QED BY <1>1, <1>2 DEF FilterInv, FiltersStayInside

-----------------------------------------------------------------------------
(* Integrals: the answer is the state, which never leaves its range.       *)

IntegralSlots == [kind : {"Integral"}, acc : Int, x : Int]

(* What the site took in since k shows, unless it met the other bound.     *)
NoWindup(k) ==
  /\ (\A i \in (k + 1)..Last : calls[i].answer > 2 * Least) =>
        Answer <= 2 * Most + Area(Last) - Area(k)
  /\ (\A i \in (k + 1)..Last : calls[i].answer < 2 * Most) =>
        Answer >= 2 * Least + Area(Last) - Area(k)

IntegralInv ==
  /\ Fresh <=> Last = 0
  /\ Last > 0 =>
       /\ slot \in IntegralSlots
       /\ Answer = slot.acc /\ X(Last) = slot.x
       /\ 2 * Least <= slot.acc /\ slot.acc <= 2 * Most
       /\ \E r \in 1..Last : ResetAt(r) /\ \A k \in r..Last : NoWindup(k)

LEMMA Clamped ==
  ASSUME Least <= Most, NEW v \in Int
  PROVE  /\ Clamp(v) \in Int /\ 2 * Least <= Clamp(v) /\ Clamp(v) <= 2 * Most
         /\ Clamp(v) > 2 * Least => Clamp(v) <= v
         /\ Clamp(v) < 2 * Most => Clamp(v) >= v
BY DEF Clamp

LEMMA IntegralStep ==
  ASSUME Least <= Most, Shape, IntegralInv, NEW dt \in Periods, NEW x \in Inputs,
         NEW method \in {"call", "reset"}, Integrate(method, x, dt)
  PROVE  Shape' /\ IntegralInv'
<1> PICK n \in Nat : n = Last
  BY Numbers
<1> DEFINE acc == IF method = "reset" THEN Clamp(2 * Low)
                  ELSE IF Fresh THEN Clamp(0) ELSE Clamp(slot.acc + (x + slot.x) * dt)
<1>1. slot' = Integral(acc, x) /\ Execute(method, x, dt, acc)
  BY DEF Integrate
<1>2. dt \in Nat /\ x \in Int /\ method \in Methods
  BY Periodic DEF Methods
<1>3. ~Fresh => n > 0 /\ slot.acc \in Int /\ slot.x \in Int /\ slot.x = X(n) /\ slot.acc = Answer
  BY DEF IntegralInv, IntegralSlots
<1>4. PICK took : took = IF Fresh THEN 0 ELSE (slot.x + x) * dt
  OBVIOUS
<1>5. took \in Int
  BY <1>2, <1>3, <1>4
<1>6. PICK a : a = acc
  OBVIOUS
<1>7. /\ method = "reset" => a = Clamp(2 * Low)
      /\ method # "reset" /\ Fresh => a = Clamp(0)
      /\ method # "reset" /\ ~Fresh => a = Clamp(slot.acc + took)
  <2>1. ~Fresh => (x + slot.x) * dt = took
    BY <1>2, <1>3, <1>4
  <2> QED BY <2>1, <1>6
<1>8. slot' = Integral(a, x) /\ Execute(method, x, dt, a)
  BY <1>1, <1>6
<1> HIDE DEF acc
<1>9. a \in Int /\ 2 * Least <= a /\ a <= 2 * Most
  BY <1>3, <1>5, <1>7, Clamped
<1>10. a \in Answers
  BY <1>9, Periodic
<1>11. /\ Shape' /\ Last' = n + 1 /\ UNCHANGED site /\ Answer' = a
       /\ \A i \in 1..n : X(i)' = X(i) /\ calls'[i] = calls[i]
       /\ X(n + 1)' = x /\ calls'[n + 1].method = method
  BY <1>8, <1>10, <1>2, Extended
<1>12. calls'[n + 1].answer = a
  BY <1>11 DEF Answer
<1>13. (\A i \in 1..n : Area(i)' = Area(i)) /\ Area(n + 1)' = Area(n) + took
  <2>1. calls'[n + 1].area = IF n = 0 THEN 0 ELSE Area(n) + (X(n) + x) * dt
    BY <1>8, Appended
  <2>2. Area(n + 1)' = calls'[n + 1].area
    BY DEF Area
  <2>3. \A i \in 1..n : Area(i)' = Area(i)
    BY <1>11 DEF Area
  <2>4. CASE Fresh
    <3>1. n = 0
      BY <2>4 DEF IntegralInv
    <3>2. took = 0 /\ Area(n) = 0
      BY <3>1, <2>4, <1>4 DEF Area
    <3> QED BY <2>1, <2>2, <2>3, <3>1, <3>2
  <2>5. CASE ~Fresh
    BY <2>1, <2>2, <2>3, <2>5, <1>3, <1>4
  <2> QED BY <2>4, <2>5
<1>14. \A i \in 1..n : Area(i) \in Int
  BY Numbers
<1>15. Area(n + 1)' \in Int
  <2>1. Area(n) \in Int
    BY <1>14 DEF Area
  <2> QED BY <2>1, <1>5, <1>13
<1>16. NoWindup(n + 1)'
  BY <1>9, <1>11, <1>15 DEF NoWindup
<1>17. slot' \in IntegralSlots /\ slot'.acc = a /\ slot'.x = x /\ ~Fresh'
  BY <1>2, <1>8, <1>9 DEF Integral, IntegralSlots, Fresh, Uninit
<1>18. \E r \in 1..(n + 1) : ResetAt(r)' /\ \A k \in r..(n + 1) : NoWindup(k)'
  <2>1. CASE Fresh \/ method = "reset"
    <3>1. n = 0 \/ method = "reset"
      BY <2>1 DEF IntegralInv
    <3>2. ResetAt(n + 1)'
      BY <3>1, <1>2, <1>11, ResetGrows
    <3> QED BY <3>2, <1>16
  <2>2. CASE ~Fresh /\ method # "reset"
    <3>1. PICK r \in 1..n : ResetAt(r) /\ \A k \in r..n : NoWindup(k)
      BY <2>2, <1>3 DEF IntegralInv
    <3>2. ResetAt(r)'
      BY <3>1, <2>2, <1>2, <1>11, ResetGrows
    <3>3. PICK b \in Int : b = Answer /\ b = slot.acc
      BY <2>2, <1>3
    <3>4. /\ a > 2 * Least => a <= b + took
          /\ a < 2 * Most => a >= b + took
      BY <3>3, <2>2, <1>5, <1>7, Clamped
    <3>5. ASSUME NEW k \in r..n
          PROVE  NoWindup(k)'
      <4>1. NoWindup(k) /\ Area(k) \in Int /\ Area(n) \in Int
        BY <3>1, <1>14
      <4>2. Area(n + 1)' = Area(n) + took /\ Area(k)' = Area(k)
        BY <1>13
      <4>3. ASSUME \A i \in (k + 1)..(n + 1) : calls'[i].answer > 2 * Least
            PROVE  a <= 2 * Most + Area(n + 1)' - Area(k)'
        <5>1. (\A i \in (k + 1)..n : calls[i].answer > 2 * Least) /\ a > 2 * Least
          BY <4>3, <1>11, <1>12
        <5>2. b <= 2 * Most + Area(n) - Area(k)
          BY <5>1, <4>1, <3>3 DEF NoWindup
        <5> QED BY <5>1, <5>2, <4>1, <4>2, <3>4, <1>5, <1>9
      <4>4. ASSUME \A i \in (k + 1)..(n + 1) : calls'[i].answer < 2 * Most
            PROVE  a >= 2 * Least + Area(n + 1)' - Area(k)'
        <5>1. (\A i \in (k + 1)..n : calls[i].answer < 2 * Most) /\ a < 2 * Most
          BY <4>4, <1>11, <1>12
        <5>2. b >= 2 * Least + Area(n) - Area(k)
          BY <5>1, <4>1, <3>3 DEF NoWindup
        <5> QED BY <5>1, <5>2, <4>1, <4>2, <3>4, <1>5, <1>9
      <4> QED BY <4>3, <4>4, <1>11 DEF NoWindup
    <3> QED BY <3>2, <3>5, <1>16
  <2> QED BY <2>1, <2>2
<1> QED BY <1>9, <1>11, <1>17, <1>18 DEF IntegralInv

LEMMA IntegralExact ==
  ASSUME Shape, IntegralInv, Last > 0
  PROVE  IntegralsStayInside
<1>1. PICK r \in 1..Last : ResetAt(r) /\ \A k \in r..Last : NoWindup(k)
  BY DEF IntegralInv
<1>2. LastReset = r
  BY <1>1, LatestReset, Numbers
<1> QED BY <1>1, <1>2 DEF IntegralInv, IntegralsStayInside, NoWindup

-----------------------------------------------------------------------------
(* Fractions with positive denominators are ordered, and a mean of two of  *)
(* them lies between them.                                                 *)

Fractions == [num : Int, den : Nat \ {0}]

LEMMA Products ==
  /\ \A a, b \in Int : a * b \in Int /\ a * b = b * a
  /\ \A a, b, c \in Int : (a * b) * c = a * (b * c) /\ a * (b + c) = a * b + a * c
  /\ \A a, b \in Nat \ {0} : a * b \in Nat \ {0}
  /\ \A a, b \in Int, c \in Nat : a <= b => a * c <= b * c
  /\ \A a, b \in Int, c \in Nat \ {0} : a * c <= b * c => a <= b
OBVIOUS

LEMMA Ordered ==
  /\ \A p \in Fractions : AtMost(p, p)
  /\ \A p, q \in Fractions : AtMost(p, q) \/ AtMost(q, p)
  /\ \A p, q, r \in Fractions : AtMost(p, q) /\ AtMost(q, r) => AtMost(p, r)
<1>1. \A p \in Fractions : p.num \in Int /\ p.den \in Nat \ {0}
  BY DEF Fractions
<1>2. \A p \in Fractions : AtMost(p, p)
  BY <1>1 DEF AtMost
<1>3. \A p, q \in Fractions : AtMost(p, q) \/ AtMost(q, p)
  <2> TAKE p, q \in Fractions
  <2>1. p.num * q.den \in Int /\ q.num * p.den \in Int
    BY <1>1, Products
  <2> QED BY <2>1 DEF AtMost
<1>4. ASSUME NEW p \in Fractions, NEW q \in Fractions, NEW r \in Fractions,
             AtMost(p, q), AtMost(q, r)
      PROVE  AtMost(p, r)
  <2> PICK a \in Int, b \in Nat \ {0}, c \in Int, d \in Nat \ {0}, e \in Int, f \in Nat \ {0} :
           /\ a = p.num /\ b = p.den /\ c = q.num /\ d = q.den /\ e = r.num /\ f = r.den
    BY <1>1
  <2>1. a * d <= c * b /\ c * f <= e * d
    BY <1>4 DEF AtMost
  <2>2. (a * d) * f <= (c * b) * f /\ (c * f) * b <= (e * d) * b
    BY <2>1, Products
  <2>3. (a * d) * f = (a * f) * d /\ (c * b) * f = (c * f) * b /\ (e * d) * b = (e * b) * d
    OBVIOUS
  <2>4. (a * f) * d <= (e * b) * d /\ a * f \in Int /\ e * b \in Int
    BY <2>2, <2>3, Products
  <2>5. a * f <= e * b
    BY <2>4, Products
  <2> QED BY <2>5 DEF AtMost
<1> QED BY <1>2, <1>3, <1>4

(* m lies between p and q.                                                 *)
Amid(p, m, q) == (AtMost(p, m) /\ AtMost(m, q)) \/ (AtMost(q, m) /\ AtMost(m, p))

LEMMA Mean ==
  ASSUME NEW a \in Int, NEW b \in Nat \ {0}, NEW c \in Int, NEW d \in Nat \ {0}
  PROVE  /\ Fraction(a + c, b + d) \in Fractions
         /\ Amid(Fraction(a, b), Fraction(a + c, b + d), Fraction(c, d))
<1>1. Fraction(a + c, b + d) \in Fractions
  BY DEF Fraction, Fractions
<1>2. a * d \in Int /\ c * b \in Int /\ a * b \in Int /\ c * d \in Int
  BY Products
<1>3. /\ a * (b + d) = a * b + a * d /\ (a + c) * b = a * b + c * b
      /\ (a + c) * d = a * d + c * d /\ c * (b + d) = c * b + c * d
  OBVIOUS
<1>4. CASE a * d <= c * b
  <2>1. a * (b + d) <= (a + c) * b /\ (a + c) * d <= c * (b + d)
    BY <1>2, <1>3, <1>4
  <2> QED BY <2>1, <1>1 DEF Amid, AtMost, Fraction
<1>5. CASE c * b <= a * d
  <2>1. (a + c) * b <= a * (b + d) /\ c * (b + d) <= (a + c) * d
    BY <1>2, <1>3, <1>5
  <2> QED BY <2>1, <1>1 DEF Amid, AtMost, Fraction
<1> QED BY <1>2, <1>4, <1>5

(* The mean of p and q by the weights s and the denominator of q.          *)
LEMMA Smoothed ==
  ASSUME NEW a \in Int, NEW b \in Nat \ {0}, NEW c \in Int, NEW d \in Nat \ {0}, NEW s \in Nat
  PROVE  /\ Fraction(a * s + c * b, b * (s + d)) \in Fractions
         /\ Amid(Fraction(a, b), Fraction(a * s + c * b, b * (s + d)), Fraction(c, d))
<1> DEFINE m == a * s + c * b
           e == b * (s + d)
<1>1. m \in Int /\ e \in Nat \ {0}
  BY Products
<1>2. Fraction(m, e) \in Fractions
  BY <1>1 DEF Fraction, Fractions
<1>3. PICK u \in Int, v \in Int : u = a * d /\ v = c * b
  BY Products
<1>4. /\ a * e = (a * b) * s + u * b /\ m * b = (a * b) * s + v * b
      /\ m * d = u * s + v * d /\ c * e = v * s + v * d
  BY <1>3
<1>5. /\ (a * b) * s \in Int /\ u * b \in Int /\ v * b \in Int
      /\ u * s \in Int /\ v * s \in Int /\ v * d \in Int
  BY Products
<1> HIDE DEF m, e
<1>6. Amid(Fraction(a, b), Fraction(m, e), Fraction(c, d))
  <2>1. CASE u <= v
    <3>1. u * b <= v * b /\ u * s <= v * s
      BY <2>1, Products
    <3>2. a * e <= m * b /\ m * d <= c * e
      BY <3>1, <1>4, <1>5
    <3> QED BY <3>2 DEF Amid, AtMost, Fraction
  <2>2. CASE v <= u
    <3>1. v * b <= u * b /\ v * s <= u * s
      BY <2>2, Products
    <3>2. m * b <= a * e /\ c * e <= m * d
      BY <3>1, <1>4, <1>5
    <3> QED BY <3>2 DEF Amid, AtMost, Fraction
  <2> QED BY <2>1, <2>2
<1> QED BY <1>2, <1>6 DEF m, e

-----------------------------------------------------------------------------
(* Slopes: every slope an operator forms lies between two of the slopes    *)
(* from one call to the next.                                              *)

Steps == {Step(IF i = 1 THEN 1 ELSE i - 1, i) : i \in 1..Last}

Bounded(S, v) == \E least, most \in S : AtMost(least, v) /\ AtMost(v, most)

LEMMA Bounds ==
  ASSUME NEW S, S \subseteq Fractions
  PROVE  /\ \A v \in S : Bounded(S, v)
         /\ \A T, v : T \subseteq S /\ Bounded(T, v) => Bounded(S, v)
         /\ \A p, m, q \in Fractions :
              Bounded(S, p) /\ Bounded(S, q) /\ Amid(p, m, q) => Bounded(S, m)
<1>1. \A v \in S : Bounded(S, v)
  BY Ordered DEF Bounded
<1>2. \A T, v : T \subseteq S /\ Bounded(T, v) => Bounded(S, v)
  BY DEF Bounded
<1>3. ASSUME NEW p \in Fractions, NEW m \in Fractions, NEW q \in Fractions,
             Bounded(S, p), Bounded(S, q), AtMost(p, m), AtMost(m, q)
      PROVE  Bounded(S, m)
  <2>1. PICK least \in S, most \in S : AtMost(least, p) /\ AtMost(q, most)
    BY <1>3 DEF Bounded
  <2>2. AtMost(least, m) /\ AtMost(m, most)
    BY <2>1, <1>3, Ordered
  <2> QED BY <2>2 DEF Bounded
<1> QED BY <1>1, <1>2, <1>3 DEF Amid

(* One more execution adds the slope from the call before.                 *)
LEMMA StepsGrow ==
  ASSUME Shape, Steps \subseteq Fractions,
         NEW method \in Methods, NEW x \in Int, NEW dt \in Nat \ {0}, NEW answer \in Answers,
         Execute(method, x, dt, answer), NEW n, n = Last,
         NEW q, q = IF n = 0 THEN Fraction(0, 1) ELSE Fraction(x - X(n), dt)
  PROVE  /\ Steps' = Steps \cup {q} /\ Steps' \subseteq Fractions
         /\ q \in Fractions
         /\ n > 0 => Fraction(0, 1) \in Steps
<1>1. /\ n \in Nat /\ Last' = n + 1
      /\ \A i \in 1..n : X(i)' = X(i)
      /\ X(n + 1)' = x
      /\ \A i \in 0..n : Elapsed(i, n + 1)' = Elapsed(i, n) + dt
      /\ \A i, j \in 0..n : Elapsed(i, j)' = Elapsed(i, j)
  BY Extended
<1>2. \A i \in 1..n : Step(IF i = 1 THEN 1 ELSE i - 1, i)' = Step(IF i = 1 THEN 1 ELSE i - 1, i)
  BY <1>1 DEF Step
<1>3. Step(IF n + 1 = 1 THEN 1 ELSE n + 1 - 1, n + 1)' = q
  <2>1. CASE n = 0
    <3>1. Step(1, 1)' = Fraction(0, 1)
      BY DEF Step
    <3> QED BY <2>1, <3>1
  <2>2. CASE n > 0
    <3>1. Step(n, n + 1)' = Fraction(x - X(n), Elapsed(n, n + 1)')
      BY <2>2, <1>1 DEF Step
    <3>2. Elapsed(n, n + 1)' = dt
      BY <1>1, Numbers
    <3>3. (IF n + 1 = 1 THEN 1 ELSE n + 1 - 1) = n
      BY <2>2, <1>1
    <3> QED BY <3>1, <3>2, <3>3, <2>2
  <2> QED BY <2>1, <2>2, <1>1
<1>4. q \in Fractions
  <2>1. Fraction(0, 1) \in Fractions
    BY DEF Fraction, Fractions
  <2>2. n > 0 => Fraction(x - X(n), dt) \in Fractions
    <3>1. n > 0 => X(n) \in Int
      BY <1>1, Numbers
    <3> QED BY <3>1 DEF Fraction, Fractions
  <2> QED BY <2>1, <2>2, <1>1
<1>5. Steps' = Steps \cup {q}
  <2>1. 1..(n + 1) = (1..n) \cup {n + 1}
    BY <1>1
  <2> QED BY <2>1, <1>1, <1>2, <1>3 DEF Steps
<1>6. n > 0 => Fraction(0, 1) \in Steps
  <2>1. n > 0 => Step(1, 1) \in Steps
    BY <1>1 DEF Steps
  <2> QED BY <2>1 DEF Step
<1> QED BY <1>4, <1>5, <1>6

SlopeSlots == [kind : {"Derivative"}, x : Int, d : Fractions]

SlopeInv ==
  /\ Fresh <=> Last = 0
  /\ Steps \subseteq Fractions
  /\ Last > 0 => /\ slot \in SlopeSlots
                 /\ slot.x = X(Last) /\ slot.d = Answer
                 /\ Bounded(Steps, slot.d)

LEMMA SlopeStep ==
  ASSUME Shape, SlopeInv, operator \in Slopes, NEW dt \in Periods, NEW x \in Inputs,
         Derive(x, dt)
  PROVE  Shape' /\ SlopeInv'
<1> PICK n \in Nat : n = Last
  BY Numbers
<1> PICK q : q = IF n = 0 THEN Fraction(0, 1) ELSE Fraction(x - X(n), dt)
  OBVIOUS
<1>1. PICK d : /\ d = IF Fresh THEN Fraction(0, 1) ELSE Slope(x, dt)
               /\ slot' = Derivative(x, d) /\ Execute("call", x, dt, d)
  BY DEF Derive
<1>2. dt \in Nat \ {0} /\ x \in Int /\ "call" \in Methods
  BY Periodic
<1>3. n > 0 => slot.d \in Fractions /\ slot.x = X(n) /\ X(n) \in Int
  <2>1. n > 0 => X(n) \in Int
    BY Numbers
  <2> QED BY <2>1 DEF SlopeInv, SlopeSlots
<1>4. q \in Fractions
  <2>1. Fraction(0, 1) \in Fractions
    BY DEF Fraction, Fractions
  <2>2. n > 0 => Fraction(x - X(n), dt) \in Fractions
    BY <1>2, <1>3 DEF Fraction, Fractions
  <2> QED BY <2>1, <2>2
<1>5. d \in Fractions /\ (d = q \/ (n > 0 /\ Amid(slot.d, d, q)))
  <2>1. CASE Fresh
    BY <2>1, <1>1, <1>4 DEF SlopeInv
  <2>2. CASE ~Fresh /\ operator = "Derivative.Normal"
    BY <2>2, <1>1, <1>3, <1>4 DEF SlopeInv, Slope
  <2>3. CASE ~Fresh /\ operator # "Derivative.Normal"
    <3>1. n > 0 /\ d = Slope(x, dt)
      BY <2>3, <1>1 DEF SlopeInv
    <3>2. PICK a \in Int, b \in Nat \ {0} : slot.d = Fraction(a, b)
      BY <3>1, <1>3 DEF Fractions, Fraction
    <3>3. PICK c \in Int : c = x - X(n)
      BY <3>1, <1>2, <1>3
    <3>4. d = Fraction(a * Smoothing + c * b, b * (Smoothing + dt))
      BY <3>1, <3>2, <3>3, <2>3, <1>3 DEF Slope, Fraction
    <3>5. q = Fraction(c, dt)
      BY <3>1, <3>3
    <3>6. /\ Fraction(a * Smoothing + c * b, b * (Smoothing + dt)) \in Fractions
          /\ Amid(Fraction(a, b), Fraction(a * Smoothing + c * b, b * (Smoothing + dt)), Fraction(c, dt))
      BY <1>2, Smoothed
    <3> QED BY <3>1, <3>2, <3>4, <3>5, <3>6
  <2> QED BY <2>1, <2>2, <2>3
<1>6. d \in Answers
  BY <1>5 DEF Fractions, Answers
<1>7. /\ Shape' /\ Last' = n + 1 /\ UNCHANGED site /\ Answer' = d /\ X(n + 1)' = x
  BY <1>1, <1>2, <1>6, Extended
<1>8. Steps' = Steps \cup {q} /\ Steps' \subseteq Fractions
  BY <1>1, <1>2, <1>6, StepsGrow DEF SlopeInv
<1>9. PICK S : S = Steps'
  OBVIOUS
<1>10. Bounded(S, d)
  <2>1. Bounded(S, q)
    BY <1>8, <1>9, Bounds
  <2>2. n > 0 => Bounded(S, slot.d)
    BY <1>8, <1>9, Bounds DEF SlopeInv
  <2> QED BY <2>1, <2>2, <1>3, <1>4, <1>5, <1>8, <1>9, Bounds
<1>11. slot' \in SlopeSlots /\ slot'.x = x /\ slot'.d = d /\ ~Fresh'
  BY <1>1, <1>2, <1>5 DEF Derivative, SlopeSlots, Fresh, Uninit
<1>12. Bounded(Steps', d)
  BY <1>9, <1>10
<1> QED BY <1>7, <1>8, <1>11, <1>12 DEF SlopeInv

-----------------------------------------------------------------------------
(* Derivative.Adaptive: the slot holds the input at the latest update k    *)
(* and its age, and the slope of the interval that ended there.            *)

LEMMA ReferenceSame ==
  ASSUME NEW n \in Nat, NEW k \in 1..n, NEW kept, NEW more, Reference(k, n, kept),
         \A i, j \in 1..n : <<j, i>> \in more <=> <<j, i>> \in kept
  PROVE  Reference(k, n, more)
<1>1. PICK R \in SUBSET (1..k) :
        /\ {1, k} \subseteq R
        /\ \A i \in 2..n : \E j \in R : /\ j < i /\ \A m \in R : m <= j \/ i <= m
                                        /\ i \in R <=> <<j, i>> \notin kept
  BY Zenon DEF Reference
<1>2. \A i \in 2..n : \E j \in R : /\ j < i /\ \A m \in R : m <= j \/ i <= m
                                   /\ i \in R <=> <<j, i>> \notin more
  <2> TAKE i \in 2..n
  <2>1. PICK j \in R : /\ j < i /\ \A m \in R : m <= j \/ i <= m
                       /\ i \in R <=> <<j, i>> \notin kept
    BY <1>1
  <2> QED BY <2>1
<1> QED BY <1>1, <1>2, Zenon DEF Reference

AdaptiveSlots == [kind : {"DerivativeAdaptive"}, x : Int, d : Fractions, elapsed : Nat]

(* v is the slope of the interval that an update at n ended.               *)
MeanSince(n, v) ==
  n > 1 => \E k \in 1..(n - 1) : Reference(k, n - 1, NotTaken) /\ v = Step(k, n)

AdaptiveInv ==
  /\ Fresh <=> Last = 0
  /\ Steps \subseteq Fractions
  /\ Last > 0 =>
       /\ slot \in AdaptiveSlots
       /\ slot.d = Answer /\ Bounded(Steps, slot.d)
       /\ \A i \in 1..(Last - 1) : Elapsed(i, Last) > 0
       /\ \A i \in 1..Last : Bounded(Steps, Step(i, Last))
       /\ \E n \in 1..Last :
            /\ slot.x = X(n) /\ slot.elapsed = Elapsed(n, Last)
            /\ Reference(n, Last, NotTaken) /\ MeanSince(n, slot.d)

LEMMA AdaptiveStep ==
  ASSUME Shape, AdaptiveInv, operator = "Derivative.Adaptive",
         NEW dt \in Periods, NEW x \in Inputs, DeriveAdaptively(x, dt)
  PROVE  Shape' /\ AdaptiveInv'
<1> PICK n \in Nat : n = Last
  BY Numbers
<1> PICK q : q = IF n = 0 THEN Fraction(0, 1) ELSE Fraction(x - X(n), dt)
  OBVIOUS
<1>1. PICK e, u, d :
        /\ e = IF Fresh THEN 0 ELSE slot.elapsed + dt
        /\ u \in BOOLEAN
        /\ u <=> ~Fresh /\ (AbsDiff(x, slot.x) >= delta \/ (limit > 0 /\ e >= limit))
        /\ d = IF u THEN Fraction(x - slot.x, e)
               ELSE IF Fresh THEN Fraction(0, 1) ELSE slot.d
        /\ slot' = DerivativeAdaptive(IF Fresh \/ u THEN x ELSE slot.x, d, IF u THEN 0 ELSE e)
        /\ Execute("call", x, dt, d)
  BY DEF DeriveAdaptively
<1>2. dt \in Nat \ {0} /\ x \in Int /\ limit \in Nat /\ delta \in Nat /\ "call" \in Methods
  BY Periodic DEF Shape, ArgumentsOK, OnlyTimed
<1>3. ~Fresh => /\ n > 0 /\ slot.d \in Fractions /\ slot.x \in Int
                /\ slot.elapsed \in Nat /\ e \in Nat \ {0} /\ e = slot.elapsed + dt
  <2>1. \A s \in AdaptiveSlots : s.x \in Int /\ s.d \in Fractions /\ s.elapsed \in Nat
    BY DEF AdaptiveSlots
  <2>2. ~Fresh => n > 0 /\ slot \in AdaptiveSlots
    BY DEF AdaptiveInv
  <2> QED BY <2>1, <2>2, <1>1, <1>2
<1>4. Fraction(0, 1) \in Fractions
  BY DEF Fraction, Fractions
<1>5. d \in Fractions /\ e \in Nat
  <2>1. u => ~Fresh
    BY <1>1
  <2>2. u => Fraction(x - slot.x, e) \in Fractions
    BY <2>1, <1>2, <1>3 DEF Fraction, Fractions
  <2> QED BY <2>1, <2>2, <1>1, <1>3, <1>4
<1>6. d \in Answers
  BY <1>5 DEF Fractions, Answers
<1>7. /\ Shape' /\ Last' = n + 1 /\ UNCHANGED site /\ Answer' = d
      /\ \A i \in 1..n : X(i)' = X(i)
      /\ X(n + 1)' = x
      /\ \A i \in 0..n : Elapsed(i, n + 1)' = Elapsed(i, n) + dt
      /\ \A i, j \in 0..n : Elapsed(i, j)' = Elapsed(i, j)
      /\ Elapsed(n + 1, n + 1)' = 0
  BY <1>1, <1>2, <1>6, Extended
<1>8. Steps' = Steps \cup {q} /\ Steps' \subseteq Fractions /\ q \in Fractions
      /\ (n > 0 => Fraction(0, 1) \in Steps)
  BY <1>1, <1>2, <1>6, StepsGrow DEF AdaptiveInv
<1>9. PICK S : S = Steps'
  OBVIOUS
<1>10. \A i \in 1..n : X(i) \in Int /\ Elapsed(i, n) \in Nat /\ Elapsed(n, n) = 0
  BY Numbers
<1>11. \A i \in 1..n : Step(i, n + 1)' = Fraction(x - X(i), Elapsed(i, n) + dt)
  BY <1>7 DEF Step
<1>12. Step(n + 1, n + 1)' = Fraction(0, 1)
  BY DEF Step
<1>13. Bounded(S, Fraction(0, 1)) /\ Bounded(S, q)
  <2>1. n = 0 => q = Fraction(0, 1)
    OBVIOUS
  <2>2. Fraction(0, 1) \in S /\ q \in S
    BY <2>1, <1>8, <1>9
  <2> QED BY <2>2, <1>8, <1>9, Bounds
<1>14. ASSUME NEW i \in 1..n
       PROVE  Bounded(S, Fraction(x - X(i), Elapsed(i, n) + dt))
  <2>1. n > 0 /\ q = Fraction(x - X(n), dt)
    OBVIOUS
  <2>2. CASE i = n
    BY <2>1, <2>2, <1>2, <1>10, <1>13
  <2>3. CASE i < n
    <3>1. Elapsed(i, n) \in Nat \ {0} /\ X(i) \in Int /\ X(n) \in Int
      <4>1. i \in 1..(n - 1)
        BY <2>3
      <4> QED BY <4>1, <1>10 DEF AdaptiveInv
    <3>2. PICK a \in Int, b \in Nat \ {0}, c \in Int :
            a = X(n) - X(i) /\ b = Elapsed(i, n) /\ c = x - X(n)
      BY <3>1, <1>2
    <3>3. Step(i, n) = Fraction(a, b)
      BY <2>3, <3>2 DEF Step
    <3>4. Bounded(S, Fraction(a, b))
      <4>1. Bounded(Steps, Fraction(a, b))
        BY <3>3 DEF AdaptiveInv
      <4> QED BY <4>1, <1>8, <1>9, Bounds
    <3>5. Fraction(a, b) \in Fractions
      BY DEF Fraction, Fractions
    <3>6. Fraction(a + c, b + dt) \in Fractions /\ Amid(Fraction(a, b), Fraction(a + c, b + dt), q)
      <4>1. /\ Fraction(a + c, b + dt) \in Fractions
            /\ Amid(Fraction(a, b), Fraction(a + c, b + dt), Fraction(c, dt))
        BY <1>2, Mean
      <4>2. q = Fraction(c, dt)
        BY <3>2, <2>1
      <4> QED BY <4>1, <4>2
    <3>7. Bounded(S, Fraction(a + c, b + dt))
      BY <3>4, <3>5, <3>6, <1>8, <1>9, <1>13, Bounds
    <3>8. a + c = x - X(i) /\ b + dt = Elapsed(i, n) + dt
      BY <3>1, <3>2, <1>2
    <3> QED BY <3>7, <3>8
  <2> QED BY <2>2, <2>3
<1>15. \A i \in 1..(n + 1) : Bounded(Steps', Step(i, n + 1)')
  BY <1>9, <1>11, <1>12, <1>13, <1>14
<1>16. \A i \in 1..n : Elapsed(i, n + 1)' > 0
  BY <1>2, <1>7, <1>10
<1>17. PICK kept, more : kept = NotTaken /\ more = NotTaken'
  OBVIOUS
<1>18. \A i, j \in 1..n : <<j, i>> \in more <=> <<j, i>> \in kept
  <2>1. \A i, j \in 1..n : <<j, i>> \in NotTaken <=>
          AbsDiff(X(j), X(i)) < delta /\ (limit > 0 => Elapsed(j, i) < limit)
    BY DEF NotTaken, Pairs
  <2>2. \A i, j \in 1..n : <<j, i>> \in NotTaken' <=>
          AbsDiff(X(j)', X(i)') < delta /\ (limit > 0 => Elapsed(j, i)' < limit)
    BY <1>7 DEF NotTaken, Pairs, site
  <2> TAKE i \in 1..n, j \in 1..n
  <2>3. X(i)' = X(i) /\ X(j)' = X(j) /\ Elapsed(j, i)' = Elapsed(j, i)
    <3>1. i \in 0..n /\ j \in 0..n
      OBVIOUS
    <3> QED BY <3>1, <1>7
  <2> QED BY <2>1, <2>2, <2>3, <1>17
<1>19. \E k \in 1..(n + 1) :
         /\ slot'.x = X(k)' /\ slot'.elapsed = Elapsed(k, n + 1)'
         /\ Reference(k, n + 1, more)
         /\ k > 1 => \E j \in 1..(k - 1) : Reference(j, k - 1, more) /\ d = Step(j, k)'
  <2>a. slot'.x = (IF Fresh \/ u THEN x ELSE slot.x) /\ slot'.elapsed = IF u THEN 0 ELSE e
    BY <1>1 DEF DerivativeAdaptive
  <2>1. CASE n = 0
    <3>1. Fresh /\ ~u /\ e = 0
      BY <2>1, <1>1 DEF AdaptiveInv
    <3>2. Reference(1, 1, more)
      BY FirstReference
    <3> QED BY <2>1, <2>a, <3>1, <3>2, <1>7
  <2>2. CASE n > 0
    <3>1. PICK k \in 1..n : /\ slot.x = X(k) /\ slot.elapsed = Elapsed(k, n)
                            /\ Reference(k, n, kept) /\ MeanSince(k, slot.d)
      BY <2>2, <1>17 DEF AdaptiveInv
    <3>2. /\ <<k, n + 1>> \in more => Reference(k, n + 1, more)
          /\ <<k, n + 1>> \notin more => Reference(n + 1, n + 1, more)
      BY <3>1, <2>2, <1>18, ReferenceGrows
    <3>3. ~Fresh /\ (<<k, n + 1>> \in more <=> ~u)
      <4>1. ~Fresh
        BY <2>2 DEF AdaptiveInv
      <4>2. X(k)' = slot.x /\ X(n + 1)' = x /\ Elapsed(k, n + 1)' = e
        BY <4>1, <3>1, <1>3, <1>7
      <4>3. <<k, n + 1>> \in NotTaken' <=>
              AbsDiff(X(k)', X(n + 1)') < delta /\ (limit > 0 => Elapsed(k, n + 1)' < limit)
        BY <1>7 DEF NotTaken, Pairs, site
      <4>4. AbsDiff(slot.x, x) = AbsDiff(x, slot.x) /\ AbsDiff(x, slot.x) \in Nat
        BY <4>1, <1>2, <1>3 DEF AbsDiff
      <4> QED BY <4>1, <4>2, <4>3, <4>4, <1>1, <1>2, <1>5, <1>17
    <3>4. CASE u
      <4>1. slot'.x = X(n + 1)' /\ slot'.elapsed = Elapsed(n + 1, n + 1)'
        BY <2>a, <3>4, <1>7
      <4>2. Reference(n + 1, n + 1, more)
        BY <3>2, <3>3, <3>4
      <4>3. Reference(k, n, more)
        BY <3>1, <1>18, ReferenceSame
      <4>4. d = Step(k, n + 1)'
        <5>1. d = Fraction(x - slot.x, e)
          BY <3>4, <1>1
        <5>2. e = Elapsed(k, n) + dt
          BY <3>1, <3>3, <1>3
        <5> QED BY <5>1, <5>2, <3>1, <1>11
      <4>5. k \in 1..((n + 1) - 1) /\ (n + 1) - 1 = n /\ n + 1 \in 1..(n + 1)
        OBVIOUS
      <4> QED BY <4>1, <4>2, <4>3, <4>4, <4>5
    <3>5. CASE ~u
      <4>1. slot'.x = X(k)' /\ slot'.elapsed = Elapsed(k, n + 1)' /\ d = slot.d
        BY <2>a, <3>1, <3>3, <3>5, <1>1, <1>3, <1>7
      <4>2. Reference(k, n + 1, more)
        BY <3>2, <3>3, <3>5
      <4>3. ASSUME k > 1
            PROVE  \E j \in 1..(k - 1) : Reference(j, k - 1, more) /\ d = Step(j, k)'
        <5>1. PICK j \in 1..(k - 1) : Reference(j, k - 1, kept) /\ slot.d = Step(j, k)
          BY <3>1, <4>3, <1>17 DEF MeanSince
        <5>2. k - 1 \in Nat /\ \A a, b \in 1..(k - 1) : <<b, a>> \in more <=> <<b, a>> \in kept
          <6>1. \A a \in 1..(k - 1) : a \in 1..n
            OBVIOUS
          <6> QED BY <6>1, <1>18, <4>3
        <5>3. Reference(j, k - 1, more)
          BY <5>1, <5>2, ReferenceSame
        <5>4. Step(j, k)' = Step(j, k)
          <6>1. j \in 1..n /\ k \in 1..n /\ j \in 0..n /\ k \in 0..n
            OBVIOUS
          <6> QED BY <6>1, <1>7 DEF Step
        <5> QED BY <5>1, <5>3, <5>4, <4>1
      <4>4. k \in 1..(n + 1)
        OBVIOUS
      <4> QED BY <4>1, <4>2, <4>3, <4>4
    <3> QED BY <3>4, <3>5, <1>1
  <2> QED BY <2>1, <2>2
<1>20. Bounded(Steps', d)
  <2>1. ~u /\ ~Fresh => Bounded(S, slot.d)
    BY <1>3, <1>8, <1>9, Bounds DEF AdaptiveInv
  <2>2. ASSUME u
        PROVE  Bounded(S, d)
    <3>1. ~Fresh /\ n > 0 /\ d = Fraction(x - slot.x, e)
      BY <2>2, <1>1, <1>3
    <3>2. PICK k \in 1..n : slot.x = X(k) /\ slot.elapsed = Elapsed(k, n)
      BY <3>1 DEF AdaptiveInv
    <3> QED BY <3>1, <3>2, <1>3, <1>14
  <2> QED BY <2>1, <2>2, <1>1, <1>9, <1>13
<1>21. slot' \in AdaptiveSlots /\ slot'.d = d /\ ~Fresh'
  <2>1. (IF Fresh \/ u THEN x ELSE slot.x) \in Int /\ (IF u THEN 0 ELSE e) \in Nat
    BY <1>2, <1>3, <1>5
  <2> QED BY <2>1, <1>1, <1>5 DEF DerivativeAdaptive, AdaptiveSlots, Fresh, Uninit
<1>22. \E k \in 1..(n + 1) :
         /\ slot'.x = X(k)' /\ slot'.elapsed = Elapsed(k, n + 1)'
         /\ Reference(k, n + 1, NotTaken') /\ MeanSince(k, d)'
  BY <1>17, <1>19 DEF MeanSince
<1>23. /\ (\A i \in 1..(Last - 1) : Elapsed(i, Last) > 0)'
       /\ (\A i \in 1..Last : Bounded(Steps, Step(i, Last)))'
  BY <1>7, <1>15, <1>16
<1>24. (\E k \in 1..Last : /\ slot.x = X(k) /\ slot.elapsed = Elapsed(k, Last)
                          /\ Reference(k, Last, NotTaken) /\ MeanSince(k, slot.d))'
  BY <1>7, <1>21, <1>22
<1>25. (Bounded(Steps, slot.d))'
  BY <1>20, <1>21
<1> QED BY <1>7, <1>8, <1>21, <1>23, <1>24, <1>25 DEF AdaptiveInv

LEMMA SlopesExact ==
  ASSUME Shape, Last > 0, operator \in Slopes => SlopeInv,
         operator = "Derivative.Adaptive" => AdaptiveInv
  PROVE  SlopesStayInside
<1>1. ASSUME operator \in Slopes \cup {"Derivative.Adaptive"}
      PROVE  \E least, most \in Steps : AtMost(least, Answer) /\ AtMost(Answer, most)
  BY <1>1 DEF SlopeInv, AdaptiveInv, Bounded
<1>2. ASSUME operator = "Derivative.Adaptive"
      PROVE  \E n \in 1..Last :
               /\ Reference(n, Last, NotTaken)
               /\ n > 1 => \E k \in 1..(n - 1) :
                    /\ Reference(k, n - 1, NotTaken)
                    /\ AtMost(Step(k, n), Answer) /\ AtMost(Answer, Step(k, n))
  <2>1. PICK n \in 1..Last : Reference(n, Last, NotTaken) /\ MeanSince(n, Answer)
    BY <1>2 DEF AdaptiveInv
  <2>2. AtMost(Answer, Answer)
    BY <1>2, Ordered DEF AdaptiveInv, AdaptiveSlots
  <2> QED BY <2>1, <2>2 DEF MeanSince
<1> QED BY <1>1, <1>2 DEF SlopesStayInside, Steps

-----------------------------------------------------------------------------
(* Debounce.Filter: how far the level is off a condition shrinks on every  *)
(* call that has the condition, by the factor by which the share does.     *)

Levels == [num : Nat, den : Nat \ {0}]

LevelSlots == [kind : {"DebounceFilter"}, output : BOOLEAN, level : Levels]

Off(level, cond) == IF cond THEN level.den - level.num ELSE level.num

(* An output under its thresholds, and at most all of the way off.         *)
Settled(level, output) ==
  /\ level.num <= level.den
  /\ output => 5 * level.num > level.den
  /\ ~output => 5 * level.num < 4 * level.den

(* After the calls from k on, which all had the present condition.         *)
Shrunk(k, level) ==
  Off(level, Cond(Last)) * (Share(Last).den * Share(k - 1).num)
    <= (Share(Last).num * Share(k - 1).den) * level.den

LevelInv ==
  /\ Fresh <=> Last = 0
  /\ \A i \in 0..Last : limit > 0 => Share(i).num \in Nat \ {0} /\ Share(i).den \in Nat \ {0}
  /\ Last > 0 =>
       /\ slot \in LevelSlots
       /\ slot.output = Answer /\ Settled(slot.level, slot.output)
       /\ Last > 1 /\ Answer # calls[Last - 1].answer => Answer = Cond(Last)
       /\ limit = 0 => Off(slot.level, Cond(Last)) = 0
       /\ \A k \in 1..Last :
            limit > 0 /\ (\A i \in k..Last : Cond(i) = Cond(Last)) => Shrunk(k, slot.level)

(* One blend toward a target leaves no threshold but toward the target.    *)
LEMMA Blending ==
  ASSUME NEW level \in Levels, level.num <= level.den, NEW target \in {0, 1},
         NEW tc \in Nat, NEW dt \in Nat \ {0}, NEW new, new = Blended(level, target, tc, dt)
  PROVE  /\ new \in Levels /\ new.num <= new.den
         /\ target = 1 /\ 5 * level.num > level.den => 5 * new.num > new.den
         /\ target = 0 /\ 5 * level.num < 4 * level.den => 5 * new.num < 4 * new.den
<1> PICK a \in Nat, b \in Nat \ {0} : a = level.num /\ b = level.den
  BY DEF Levels
<1> PICK at \in Nat, bt \in Nat, bd \in Nat \ {0} : at = a * tc /\ bt = b * tc /\ bd = b * dt
  <2>1. a * tc \in Nat /\ b * tc \in Nat /\ b * dt \in Nat \ {0}
    BY Products
  <2> QED BY <2>1
<1>1. at <= bt
  BY Products
<1>2. ASSUME 5 * a > b
      PROVE  5 * at >= bt
  <2>1. b * tc <= (5 * a) * tc
    BY <1>2, Products
  <2>2. (5 * a) * tc = 5 * at
    OBVIOUS
  <2> QED BY <2>1, <2>2
<1>3. ASSUME 5 * a < 4 * b
      PROVE  5 * at <= 4 * bt
  <2>1. (5 * a) * tc <= (4 * b) * tc
    BY <1>3, Products
  <2>2. (5 * a) * tc = 5 * at /\ (4 * b) * tc = 4 * bt
    OBVIOUS
  <2> QED BY <2>1, <2>2
<1>4. new.den = bt + bd /\ new.num = IF target = 1 THEN at + bd ELSE at
  <2>1. new.den = b * (tc + dt) /\ b * (tc + dt) = b * tc + b * dt
    BY DEF Blended, Fraction
  <2>2. new.num = a * tc + target * b * dt
    BY DEF Blended, Fraction
  <2> QED BY <2>1, <2>2
<1>5. new \in Levels
  <2>1. PICK num, den : new = [num |-> num, den |-> den]
    BY DEF Blended, Fraction
  <2>2. num \in Nat /\ den \in Nat \ {0}
    BY <2>1, <1>4
  <2> QED BY <2>1, <2>2 DEF Levels
<1>6. target = 1 /\ 5 * a > b => 5 * new.num > new.den
  BY <1>2, <1>4
<1>7. target = 0 /\ 5 * a < 4 * b => 5 * new.num < 4 * new.den
  BY <1>3, <1>4
<1> QED BY <1>1, <1>4, <1>5, <1>6, <1>7

LEMMA Shrinking ==
  ASSUME NEW o \in Nat, NEW b \in Nat, NEW s \in Nat, NEW t \in Nat, NEW u \in Nat, NEW v \in Nat,
         NEW c \in Nat, NEW d \in Nat, o * (t * u) <= (s * v) * b
  PROVE  (o * c) * ((t * d) * u) <= ((s * c) * v) * (b * d)
<1>1. o * (t * u) \in Nat /\ (s * v) * b \in Nat /\ c * d \in Nat
  <2>1. t * u \in Nat /\ s * v \in Nat
    OBVIOUS
  <2> QED BY <2>1
<1>2. (o * (t * u)) * (c * d) <= ((s * v) * b) * (c * d)
  BY <1>1, Products
<1>3. (o * c) * ((t * d) * u) = (o * (t * u)) * (c * d)
  OBVIOUS
<1>4. ((s * c) * v) * (b * d) = ((s * v) * b) * (c * d)
  OBVIOUS
<1> QED BY <1>2, <1>3, <1>4

LEMMA LevelStep ==
  ASSUME Shape, LevelInv, operator = "Debounce.Filter", NEW dt \in Periods, NEW x \in Inputs,
         DebounceFiltered(x, dt)
  PROVE  Shape' /\ LevelInv'
<1> PICK n \in Nat : n = Last
  BY Numbers
<1> PICK cond \in BOOLEAN : cond <=> Condition(x)
  BY Periodic
<1> PICK target \in {0, 1} : target = IF cond THEN 1 ELSE 0
  OBVIOUS
<1>a. \E level \in Levels, was \in BOOLEAN :
        /\ level = IF Fresh THEN Fraction(target, 1) ELSE slot.level
        /\ was = IF Fresh THEN cond ELSE slot.output
        /\ Settled(level, was)
  <2>1. CASE Fresh
    <3> DEFINE level == Fraction(target, 1)
    <3>1. level \in Levels /\ Settled(level, cond)
      BY DEF Fraction, Levels, Settled
    <3> QED BY <2>1, <3>1
  <2>2. CASE ~Fresh
    <3>1. slot \in LevelSlots /\ Settled(slot.level, slot.output)
      BY <2>2 DEF LevelInv
    <3>2. slot.level \in Levels /\ slot.output \in BOOLEAN
      BY <3>1 DEF LevelSlots
    <3> QED BY <2>2, <3>1, <3>2
  <2> QED BY <2>1, <2>2
<1> PICK level \in Levels, was \in BOOLEAN :
      /\ level = IF Fresh THEN Fraction(target, 1) ELSE slot.level
      /\ was = IF Fresh THEN cond ELSE slot.output
      /\ Settled(level, was)
  BY <1>a
<1> PICK new : new = Blended(level, target, limit, dt)
  OBVIOUS
<1> PICK o \in BOOLEAN : o <=> \/ 5 * new.num >= 4 * new.den
                               \/ (5 * new.num > new.den /\ was)
  OBVIOUS
<1>1. dt \in Nat \ {0} /\ x \in Int /\ limit \in Limits /\ limit \in Nat
      /\ "call" \in Methods /\ o \in Answers
  BY Periodic DEF Shape, ArgumentsOK, OnlyTimed
<1>2. level \in Levels /\ was \in BOOLEAN /\ Settled(level, was)
  OBVIOUS
<1>3. slot' = DebounceFilter(o, new) /\ Execute("call", x, dt, o)
  <2> DEFINE to  == IF Condition(x) THEN 1 ELSE 0
             lev == Blended(IF Fresh THEN Fraction(to, 1) ELSE slot.level, to, limit, dt)
             out == \/ 5 * lev.num >= 4 * lev.den
                    \/ (5 * lev.num > lev.den /\ IF Fresh THEN Condition(x) ELSE slot.output)
  <2>1. slot' = DebounceFilter(out, lev) /\ Execute("call", x, dt, out)
    BY Zenon DEF DebounceFiltered
  <2>2. lev = new
    <3>1. to = target
      OBVIOUS
    <3> QED BY <3>1
  <2> HIDE DEF lev
  <2>3. (IF Fresh THEN Condition(x) ELSE slot.output) <=> was
    <3>1. CASE Fresh
      BY <3>1
    <3>2. CASE ~Fresh
      BY <3>2, <1>2
    <3> QED BY <3>1, <3>2
  <2>4. out <=> o
    BY <2>2, <2>3
  <2>5. out = o
    BY <2>4
  <2> HIDE DEF out
  <2> QED BY <2>1, <2>2, <2>5
<1>4. /\ new \in Levels /\ Settled(new, o)
      /\ new.den = level.den * (limit + dt) /\ Off(new, cond) = Off(level, cond) * limit
      /\ Off(level, cond) \in Nat /\ Off(level, cond) <= level.den
      /\ (cond /\ was => o) /\ (~cond /\ ~was => ~o)
  <2> PICK tc \in Nat : tc = limit
    BY <1>1
  <2>1. /\ new \in Levels /\ new.num <= new.den
        /\ target = 1 /\ 5 * level.num > level.den => 5 * new.num > new.den
        /\ target = 0 /\ 5 * level.num < 4 * level.den => 5 * new.num < 4 * new.den
    <3>1. level.num <= level.den
      BY <1>2 DEF Settled
    <3> QED BY <3>1, <1>1, <1>2, Blending
  <2>2. /\ new.den = level.den * (limit + dt) /\ Off(new, cond) = Off(level, cond) * limit
        /\ Off(level, cond) \in Nat /\ Off(level, cond) <= level.den
    <3>1. PICK a \in Nat, b \in Nat \ {0} : a = level.num /\ b = level.den
      BY DEF Levels
    <3>2. new.num = a * tc + target * b * dt /\ new.den = b * (tc + dt)
      BY <3>1 DEF Blended, Fraction
    <3>3. a <= b
      BY <3>1, <1>2 DEF Settled
    <3>4. CASE cond
      <4>1. Off(new, cond) = b * (tc + dt) - (a * tc + b * dt) /\ Off(level, cond) = b - a
        BY <3>1, <3>2, <3>4, <1>1 DEF Off
      <4>2. b * (tc + dt) - (a * tc + b * dt) = (b - a) * tc
        BY <1>1
      <4> QED BY <3>1, <3>2, <3>3, <4>1, <4>2
    <3>5. CASE ~cond
      <4>1. Off(new, cond) = a * tc /\ Off(level, cond) = a
        BY <3>1, <3>2, <3>5, <1>1 DEF Off
      <4> QED BY <3>1, <3>2, <3>3, <4>1
    <3> QED BY <3>4, <3>5
  <2>3. PICK num \in Nat, den \in Nat \ {0} : num = new.num /\ den = new.den
    BY <2>1 DEF Levels
  <2>4. (was => 5 * level.num > level.den) /\ (~was => 5 * level.num < 4 * level.den)
    BY <1>2 DEF Settled
  <2>5. o <=> 5 * num >= 4 * den \/ (5 * num > den /\ was)
    BY <2>3
  <2>6. (o => 5 * num > den) /\ (~o /\ was => 5 * num <= den)
    BY <2>5
  <2>7. ~o => 5 * num < 4 * den
    BY <2>5
  <2>8. cond /\ was => 5 * num > den
    BY <2>1, <2>3, <2>4
  <2>9. ~cond /\ ~was => 5 * num < 4 * den
    BY <2>1, <2>3, <2>4
  <2>10. Settled(new, o)
    BY <2>1, <2>3, <2>6, <2>7 DEF Settled
  <2>11. (cond /\ was => o) /\ (~cond /\ ~was => ~o)
    BY <2>5, <2>8, <2>9
  <2> QED BY <2>1, <2>2, <2>10, <2>11
<1>5. /\ Shape' /\ Last' = n + 1 /\ UNCHANGED site /\ Answer' = o
      /\ \A i \in 1..n : (Cond(i)' <=> Cond(i)) /\ calls'[i] = calls[i]
      /\ Cond(n + 1)' <=> cond
  BY <1>1, <1>3, Extended
<1>6. /\ \A i \in 0..n : Share(i)' = Share(i)
      /\ Share(n + 1)' = Fraction(Share(n).num * limit, Share(n).den * (limit + dt))
  <2>1. calls'[n + 1].share = Fraction(Share(n).num * limit, Share(n).den * (limit + dt))
    BY <1>1, <1>3, Appended
  <2> QED BY <2>1, <1>5 DEF Share

<1>7. \A i \in 0..n : limit > 0 => Share(i).num \in Nat \ {0} /\ Share(i).den \in Nat \ {0}
  BY DEF LevelInv
<1>8. \A i \in 0..(n + 1) :
        limit > 0 => Share(i)'.num \in Nat \ {0} /\ Share(i)'.den \in Nat \ {0}
  <2>1. ASSUME limit > 0
        PROVE  Share(n + 1)'.num \in Nat \ {0} /\ Share(n + 1)'.den \in Nat \ {0}
    <3>1. PICK s \in Nat \ {0}, t \in Nat \ {0} : s = Share(n).num /\ t = Share(n).den
      BY <2>1, <1>7
    <3>2. s * limit \in Nat \ {0} /\ t * (limit + dt) \in Nat \ {0}
      BY <2>1, <1>1, Products
    <3> QED BY <3>1, <3>2, <1>6 DEF Fraction
  <2> QED BY <2>1, <1>6, <1>7
<1>9. slot' \in LevelSlots /\ slot'.output = o /\ slot'.level = new /\ ~Fresh'
  BY <1>3, <1>4 DEF DebounceFilter, LevelSlots, Fresh, Uninit
<1>10. ASSUME n + 1 > 1, o # calls'[n].answer
       PROVE  o <=> cond
  <2>1. ~Fresh /\ calls'[n].answer = slot.output
    BY <1>5, <1>10 DEF LevelInv, Answer
  <2> QED BY <2>1, <1>2, <1>4, <1>10
<1>11. limit = 0 => Off(new, cond) = 0
  BY <1>4
<1>12. ASSUME NEW k \in 1..(n + 1), limit > 0, \A i \in k..(n + 1) : Cond(i)' <=> cond
       PROVE  Off(new, cond) * (Share(n + 1)'.den * Share(k - 1)'.num)
                <= (Share(n + 1)'.num * Share(k - 1)'.den) * new.den
  <2>1. PICK s \in Nat \ {0}, t \in Nat \ {0}, u \in Nat \ {0}, v \in Nat \ {0} :
          /\ s = Share(n).num /\ t = Share(n).den
          /\ u = Share(k - 1).num /\ v = Share(k - 1).den
    <3>1. k - 1 \in 0..n /\ n \in 0..n
      OBVIOUS
    <3> QED BY <3>1, <1>7, <1>12
  <2>2. PICK a \in Nat, b \in Nat \ {0} : a = Off(level, cond) /\ b = level.den
    BY <1>2, <1>4 DEF Levels
  <2>3. a * (t * u) <= (s * v) * b
    <3>1. CASE k = n + 1
      <4>1. u = s /\ v = t
        BY <3>1, <2>1
      <4>2. a <= b /\ t * u \in Nat
        BY <2>2, <1>4
      <4>3. a * (t * u) <= b * (t * u)
        BY <4>2, Products
      <4>4. b * (t * s) = (s * t) * b
        OBVIOUS
      <4> QED BY <4>1, <4>3, <4>4
    <3>2. CASE k # n + 1
      <4>1. k \in 1..n /\ n > 0 /\ ~Fresh
        BY <3>2 DEF LevelInv
      <4>2. \A i \in k..n : Cond(i) <=> cond
        BY <4>1, <1>5, <1>12
      <4>3. Cond(n) <=> cond
        BY <4>1, <4>2
      <4>4. \A i \in k..n : Cond(i) = Cond(n)
        <5>1. \A i \in 1..n : Cond(i) \in BOOLEAN
          BY Numbers, Periodic DEF Cond
        <5>2. \A i \in k..n : i \in 1..n
          BY <4>1
        <5> QED BY <5>1, <5>2, <4>1, <4>2, <4>3
      <4>5. Shrunk(k, slot.level)
        BY <4>1, <4>4, <1>12 DEF LevelInv
      <4>6. level = slot.level
        BY <4>1
      <4>7. Off(slot.level, Cond(n)) = a
        BY <4>3, <4>6, <2>2 DEF Off
      <4> QED BY <4>5, <4>6, <4>7, <2>1, <2>2 DEF Shrunk
    <3> QED BY <3>1, <3>2
  <2>4. (a * limit) * ((t * (limit + dt)) * u) <= ((s * limit) * v) * (b * (limit + dt))
    <3>1. limit + dt \in Nat
      BY <1>1
    <3> QED BY <2>3, <3>1, <1>1, Shrinking
  <2>5. Share(n + 1)'.num = s * limit /\ Share(n + 1)'.den = t * (limit + dt)
    BY <2>1, <1>6 DEF Fraction
  <2>6. Share(k - 1)'.num = u /\ Share(k - 1)'.den = v
    <3>1. k - 1 \in 0..n
      OBVIOUS
    <3> QED BY <3>1, <2>1, <1>6
  <2>7. Off(new, cond) = a * limit /\ new.den = b * (limit + dt)
    BY <2>2, <1>4
  <2> QED BY <2>4, <2>5, <2>6, <2>7
<1>13. Off(new, Cond(n + 1)') = Off(new, cond)
  BY <1>5 DEF Off
<1>14. (\A k \in 1..Last :
          limit > 0 /\ (\A i \in k..Last : Cond(i) = Cond(Last)) => Shrunk(k, slot.level))'
  <2> SUFFICES ASSUME NEW k \in 1..(n + 1), limit > 0,
                      \A i \in k..(n + 1) : Cond(i)' = Cond(n + 1)'
               PROVE  Shrunk(k, slot.level)'
    BY <1>5 DEF site
  <2>1. \A i \in k..(n + 1) : Cond(i)' <=> cond
    BY <1>5
  <2>2. Off(new, cond) * (Share(n + 1)'.den * Share(k - 1)'.num)
          <= (Share(n + 1)'.num * Share(k - 1)'.den) * new.den
    BY <2>1, <1>12
  <2> QED BY <2>2, <1>5, <1>9, <1>13 DEF Shrunk
<1>15. (Last > 1 /\ Answer # calls[Last - 1].answer => Answer = Cond(Last))'
  <2> SUFFICES ASSUME n + 1 > 1, o # calls'[n].answer
               PROVE  o = Cond(n + 1)'
    BY <1>5
  <2>1. o <=> cond
    BY <1>10
  <2>2. Cond(n + 1)' \in BOOLEAN
    BY <1>1, <1>3, Extended, Periodic
  <2> QED BY <2>1, <2>2, <1>5
<1>16. (limit = 0 => Off(slot.level, Cond(Last)) = 0)'
  BY <1>5, <1>9, <1>11, <1>13 DEF site
<1>17. (\A i \in 0..Last : limit > 0 => Share(i).num \in Nat \ {0} /\ Share(i).den \in Nat \ {0})'
  BY <1>5, <1>8 DEF site
<1>18. (Settled(slot.level, slot.output))'
  BY <1>4, <1>9
<1> QED BY <1>5, <1>9, <1>14, <1>15, <1>16, <1>17, <1>18 DEF LevelInv

LEMMA LevelExact ==
  ASSUME Shape, LevelInv, operator = "Debounce.Filter", Last > 0
  PROVE  LevelsFollow
<1> PICK n \in Nat : n = Last
  BY Numbers
<1> PICK a \in Nat, b \in Nat \ {0}, o \in BOOLEAN :
      a = slot.level.num /\ b = slot.level.den /\ o = Answer
  BY DEF LevelInv, LevelSlots, Levels
<1>1. /\ a <= b /\ (o => 5 * a > b) /\ (~o => 5 * a < 4 * b)
  BY DEF LevelInv, Settled
<1>2. Cond(n) \in BOOLEAN
  BY Numbers, Periodic DEF Cond
<1>3. /\ Cond(n) => Off(slot.level, Cond(n)) = b - a
      /\ ~Cond(n) => Off(slot.level, Cond(n)) = a
  BY DEF Off
<1>4. ASSUME 5 * Off(slot.level, Cond(n)) <= b
      PROVE  o = Cond(n)
  BY <1>1, <1>2, <1>3, <1>4
<1>5. ASSUME NEW k \in 1..n, \A i \in k..n : Cond(i) = Cond(n), AtMost(Remains(k), Fraction(1, 5))
      PROVE  5 * Off(slot.level, Cond(n)) <= b
  <2>1. limit \in Nat
    BY DEF Shape, ArgumentsOK, OnlyTimed
  <2>2. CASE limit = 0
    BY <2>2 DEF LevelInv
  <2>3. CASE limit > 0
    <3>1. PICK s \in Nat \ {0}, t \in Nat \ {0}, u \in Nat \ {0}, v \in Nat \ {0} :
            /\ s = Share(n).num /\ t = Share(n).den
            /\ u = Share(k - 1).num /\ v = Share(k - 1).den
      <4>1. k - 1 \in 0..n /\ n \in 0..n
        OBVIOUS
      <4> QED BY <4>1, <2>3 DEF LevelInv
    <3>2. (s * v) * 5 <= t * u
      <4>1. Remains(k) = Fraction(s * v, t * u)
        BY <3>1, <2>3 DEF Remains
      <4>2. (s * v) * 5 <= 1 * (t * u)
        BY <4>1, <1>5 DEF AtMost, Fraction
      <4>3. t * u \in Int
        OBVIOUS
      <4> QED BY <4>2, <4>3
    <3>3. PICK off \in Nat : off = Off(slot.level, Cond(n))
      BY <1>1, <1>2, <1>3
    <3>4. off * (t * u) <= (s * v) * b
      BY <3>1, <3>3, <2>3, <1>5 DEF LevelInv, Shrunk
    <3>5. PICK p \in Nat \ {0}, r \in Nat : p = t * u /\ r = s * v
      BY Products
    <3>6. off * p <= r * b /\ r * 5 <= p
      BY <3>2, <3>4, <3>5
    <3>7. (off * p) * 5 <= (r * b) * 5 /\ (r * 5) * b <= p * b
      <4>1. off * p \in Int /\ r * b \in Int /\ r * 5 \in Int
        OBVIOUS
      <4> QED BY <4>1, <3>6, Products
    <3>8. (off * p) * 5 = (5 * off) * p /\ (r * b) * 5 = (r * 5) * b /\ p * b = b * p
      OBVIOUS
    <3>9. (5 * off) * p <= b * p
      <4>1. (5 * off) * p \in Int /\ (r * 5) * b \in Int /\ b * p \in Int
        OBVIOUS
      <4> QED BY <4>1, <3>7, <3>8
    <3>10. 5 * off \in Int
      OBVIOUS
    <3> QED BY <3>3, <3>9, <3>10, Products
  <2> QED BY <2>1, <2>2, <2>3
<1>6. n > 1 /\ Answer # calls[n - 1].answer => Answer = Cond(n)
  BY DEF LevelInv
<1> QED BY <1>4, <1>5, <1>6 DEF LevelsFollow

(* A range has a bottom and a top; the program does not ask.               *)
RangeIsOrdered == Least <= Most

(* Filters, integrals, slopes and filtered debounces never leave the       *)
(* bounds that their inputs set, whatever the history.                     *)
THEOREM SmoothedInsideForEver ==
  ASSUME RangeIsOrdered
  PROVE  Spec => []SmoothedStaysInside
<1> DEFINE I == /\ operator \in Filters => Shape /\ FilterInv
                /\ operator = "Integral.Normal" => Shape /\ IntegralInv
                /\ operator \in Slopes => Shape /\ SlopeInv
                /\ operator = "Derivative.Adaptive" => Shape /\ AdaptiveInv
                /\ operator = "Debounce.Filter" => Shape /\ LevelInv
<1>1. Init => I
  <2> SUFFICES ASSUME Init
               PROVE  FilterInv /\ IntegralInv /\ SlopeInv /\ AdaptiveInv /\ LevelInv
    BY Beginning
  <2>1. Last = 0 /\ Fresh
    BY Beginning
  <2>2. Steps = {}
    BY <2>1 DEF Steps
  <2>3. Share(0) = Fraction(1, 1)
    BY DEF Share
  <2> QED BY <2>1, <2>2, <2>3 DEF FilterInv, IntegralInv, SlopeInv, AdaptiveInv, LevelInv, Fraction
<1>2. I /\ [Next]_vars => I'
  <2> SUFFICES ASSUME I, [Next]_vars
               PROVE  I'
    OBVIOUS
  <2>1. CASE Next
    <3>1. operator' = operator
      BY <2>1, SiteStays
    <3>2. operator \in Filters => Shape' /\ FilterInv'
      BY <2>1, ActionOfOperator, FilterStep
    <3>3. operator = "Integral.Normal" => Shape' /\ IntegralInv'
      BY <2>1, ActionOfOperator, IntegralStep DEF RangeIsOrdered
    <3>4. operator \in Slopes => Shape' /\ SlopeInv'
      BY <2>1, ActionOfOperator, SlopeStep
    <3>5. operator = "Derivative.Adaptive" => Shape' /\ AdaptiveInv'
      BY <2>1, ActionOfOperator, AdaptiveStep
    <3>6. operator = "Debounce.Filter" => Shape' /\ LevelInv'
      BY <2>1, ActionOfOperator, LevelStep
    <3> QED BY <3>1, <3>2, <3>3, <3>4, <3>5, <3>6
  <2>2. CASE UNCHANGED vars
    <3>1. operator' = operator /\ limit' = limit /\ delta' = delta /\ slot' = slot /\ calls' = calls
      BY <2>2 DEF vars
    <3>2. /\ Shape' = Shape /\ Last' = Last /\ Answer' = Answer /\ Fresh' = Fresh
          /\ \A i : X(i)' = X(i) /\ Cond(i)' = Cond(i) /\ Area(i)' = Area(i) /\ Share(i)' = Share(i)
          /\ \A i, j : Elapsed(i, j)' = Elapsed(i, j)
      BY <3>1, <2>2, Stuttering DEF Fresh, Area, Share
    <3>3. FilterInv' = FilterInv
      BY <3>1, <3>2 DEF FilterInv, ResetAt
    <3>4. IntegralInv' = IntegralInv
      BY <3>1, <3>2 DEF IntegralInv, NoWindup, ResetAt
    <3>5. Steps' = Steps /\ \A i, j : Step(i, j)' = Step(i, j)
      BY <3>2 DEF Steps, Step
    <3>6. SlopeInv' = SlopeInv
      BY <3>1, <3>2, <3>5 DEF SlopeInv
    <3>7. NotTaken' = NotTaken
      BY <3>1, <3>2 DEF NotTaken, Pairs
    <3>8. AdaptiveInv' = AdaptiveInv
      BY <3>1, <3>2, <3>5, <3>7 DEF AdaptiveInv, MeanSince
    <3>9. LevelInv' = LevelInv
      BY <3>1, <3>2 DEF LevelInv, Shrunk
    <3> QED BY <3>1, <3>2, <3>3, <3>4, <3>6, <3>8, <3>9
  <2> QED BY <2>1, <2>2
<1>3. I => SmoothedStaysInside
  <2> SUFFICES ASSUME I, Last > 0
               PROVE  FiltersStayInside /\ IntegralsStayInside /\ SlopesStayInside /\ LevelsFollow
    BY DEF SmoothedStaysInside
  <2>1. FiltersStayInside
    BY FilterExact DEF FiltersStayInside
  <2>2. IntegralsStayInside
    BY IntegralExact DEF IntegralsStayInside
  <2>3. SlopesStayInside
    BY SlopesExact DEF SlopesStayInside
  <2>4. LevelsFollow
    BY LevelExact DEF LevelsFollow
  <2> QED BY <2>1, <2>2, <2>3, <2>4
<1> QED BY <1>1, <1>2, <1>3, PTL DEF Spec
-----------------------------------------------------------------------------
(* The state of a site is that of its operator's kind.                     *)

LEMMA KindsOfOperators ==
  ASSUME operator \in Operators
  PROVE  /\ operator \in Delays \cup Ranges \cup {"Debounce.Stable", "Calculate.Hysteresis"} =>
              Kinds[operator] = "Timed"
         /\ operator \in Stables \cup Changes => Kinds[operator] = "ChangeBy"
         /\ operator \in Flanks => Kinds[operator] = "ChangeEdge"
         /\ operator \in Filters => Kinds[operator] = "Filter"
         /\ operator = "Integral.Normal" => Kinds[operator] = "Integral"
         /\ operator \in Slopes => Kinds[operator] = "Derivative"
         /\ operator = "Derivative.Adaptive" => Kinds[operator] = "DerivativeAdaptive"
         /\ operator = "Debounce.Filter" => Kinds[operator] = "DebounceFilter"
         /\ operator = "Timer" => Kinds[operator] = "Timer"
BY DEF Kinds, Delays, Ranges, Stables, Changes, Flanks, Filters, Slopes

LEMMA HeldIsNatural ==
  ASSUME NEW continues, NEW dt \in Periods, continues => slot.held \in Nat
  PROVE  Held(continues, dt) \in Nat
<1>1. dt \in Nat
  BY Periodic
<1> QED BY <1>1 DEF Held

LEMMA TimedType ==
  ASSUME ArgumentsOK, TypeOK, Next,
         operator \in Delays \cup Ranges \cup {"Debounce.Stable", "Calculate.Hysteresis"}
  PROVE  TypeOK'
<1>1. Kinds[operator] = "Timed" /\ operator' = operator
  BY KindsOfOperators, SiteStays DEF ArgumentsOK
<1>2. ~Fresh => slot.held \in Nat /\ slot.output \in BOOLEAN /\ slot.candidate \in BOOLEAN
  BY <1>1 DEF TypeOK
<1>3. ASSUME NEW o \in BOOLEAN, NEW c \in BOOLEAN, NEW h \in Nat, slot' = Timed(o, c, h)
      PROVE  TypeOK'
  <2>1. slot'.kind = "Timed" /\ slot'.held = h /\ slot'.output = o /\ slot'.candidate = c
    BY <1>3 DEF Timed
  <2> QED BY <2>1, <1>1 DEF TypeOK
<1>4. CASE operator \in Delays
  <2> PICK dt \in Periods, x \in Inputs : EdgeDelay(x, dt)
    BY <1>4, ActionOfOperator
  <2> DEFINE rising == operator = "Delay.Rising"
             waits  == ~Fresh /\ Condition(x) = rising
             held   == Held(waits, dt)
             output == IF ~waits THEN ~rising ELSE IF held >= limit THEN rising ELSE slot.output
  <2>1. slot' = Timed(output, Condition(x), held)
    BY DEF EdgeDelay
  <2>2. held \in Nat /\ Condition(x) \in BOOLEAN
    <3>1. waits => slot.held \in Nat
      BY <1>2
    <3> HIDE DEF waits
    <3> QED BY <3>1, HeldIsNatural, Periodic
  <2>3. output \in BOOLEAN
    BY <1>2
  <2> HIDE DEF held, output
  <2> QED BY <1>3, <2>1, <2>2, <2>3
<1>5. CASE operator \in Ranges
  <2> PICK dt \in Periods, x \in Inputs : TimedRange(x, dt)
    BY <1>5, ActionOfOperator
  <2> DEFINE inRange   == Least <= x /\ x <= Most
             cond      == inRange <=> operator = "Calculate.Between"
             candidate == ~Fresh /\ slot.candidate
             held      == IF cond # candidate THEN 0
                          ELSE (IF Fresh THEN 0 ELSE slot.held) + dt
             output    == cond /\ candidate /\ held >= limit
  <2>1. slot' = Timed(output, cond, held)
    BY DEF TimedRange
  <2>2. held \in Nat
    <3>1. dt \in Nat
      BY Periodic
    <3> HIDE DEF cond, candidate
    <3> QED BY <1>2, <3>1
  <2>3. output \in BOOLEAN /\ cond \in BOOLEAN
    OBVIOUS
  <2> HIDE DEF held, output, cond
  <2> QED BY <1>3, <2>1, <2>2, <2>3
<1>6. CASE operator = "Debounce.Stable"
  <2> PICK dt \in Periods, x \in Inputs : DebounceStable(x, dt)
    BY <1>6, ActionOfOperator
  <2> DEFINE cond   == Condition(x)
             same   == ~Fresh /\ cond = slot.candidate
             held   == Held(same, dt)
             output == IF Fresh \/ (same /\ held >= limit) THEN cond ELSE slot.output
  <2>1. slot' = Timed(output, cond, held)
    BY DEF DebounceStable
  <2>2. held \in Nat /\ cond \in BOOLEAN
    <3>1. same => slot.held \in Nat
      BY <1>2
    <3> HIDE DEF same
    <3> QED BY <3>1, HeldIsNatural, Periodic
  <2>3. output \in BOOLEAN
    BY <1>2, <2>2
  <2> HIDE DEF held, output, cond
  <2> QED BY <1>3, <2>1, <2>2, <2>3
<1>7. CASE operator = "Calculate.Hysteresis"
  <2> PICK dt \in Periods, x \in Inputs : Hysteresis(x, dt)
    BY <1>7, ActionOfOperator
  <2> DEFINE was       == ~Fresh /\ slot.output
             candidate == ~Fresh /\ slot.candidate
             against   == Pushes(x, ~was)
             again     == against /\ candidate = ~was
             held      == PushHeld(against, again, dt)
             output    == IF again /\ held >= limit THEN ~was ELSE was
             next      == IF against THEN ~was ELSE IF Pushes(x, was) THEN was ELSE candidate
  <2>1. slot' = Timed(output, next, held)
    BY DEF Hysteresis
  <2>2. again => ~Fresh
    <3>1. Fresh => candidate = FALSE /\ ~was = TRUE
      OBVIOUS
    <3> QED BY <3>1
  <2>3. held \in Nat
    <3>1. dt \in Nat
      BY Periodic
    <3> HIDE DEF against, again
    <3> QED BY <1>2, <2>2, <3>1 DEF PushHeld
  <2>4. output \in BOOLEAN /\ next \in BOOLEAN
    OBVIOUS
  <2> HIDE DEF held, output, next
  <2> QED BY <1>3, <2>1, <2>3, <2>4
<1> QED BY <1>4, <1>5, <1>6, <1>7

LEMMA ChangeType ==
  ASSUME ArgumentsOK, TypeOK, Next, operator \in Stables \cup Changes
  PROVE  TypeOK'
<1>1. Kinds[operator] = "ChangeBy" /\ operator' = operator
  BY KindsOfOperators, SiteStays DEF ArgumentsOK
<1>2. ~Fresh => slot.held \in Nat /\ slot.x \in Inputs /\ slot.pending \in BOOLEAN
  BY <1>1 DEF TypeOK
<1>3. ASSUME NEW x \in Inputs, NEW h \in Nat, NEW p \in BOOLEAN, slot' = ChangeBy(x, h, p)
      PROVE  TypeOK'
  <2>1. slot'.kind = "ChangeBy" /\ slot'.held = h /\ slot'.x = x /\ slot'.pending = p
    BY <1>3 DEF ChangeBy
  <2> QED BY <2>1, <1>1 DEF TypeOK
<1>4. CASE operator \in Stables
  <2> PICK dt \in Periods, x \in Inputs : Stable(x, dt)
    BY <1>4, ActionOfOperator
  <2> DEFINE moved  == Fresh \/ AbsDiff(slot.x, x) > delta
             held   == Held(~moved, dt)
             output == ~moved /\ held >= limit
             base   == IF moved THEN x ELSE slot.x
  <2>1. slot' = ChangeBy(base, held, output)
    BY DEF Stable
  <2>2. held \in Nat /\ base \in Inputs
    <3>1. ~moved => slot.held \in Nat /\ slot.x \in Inputs
      BY <1>2
    <3> HIDE DEF moved
    <3> QED BY <3>1, HeldIsNatural
  <2>3. output \in BOOLEAN
    OBVIOUS
  <2> HIDE DEF held, output, base
  <2> QED BY <1>3, <2>1, <2>2, <2>3
<1>5. CASE operator \in Changes
  <2> PICK dt \in Periods, x \in Inputs : ChangeInValue(x, dt)
    BY <1>5, ActionOfOperator
  <2> DEFINE lasts == ~Fresh /\ limit # NoFilter /\ Qualifies(slot.x, x)
             held  == Held(lasts, dt)
             ripe  == lasts /\ ~slot.pending /\ held >= limit
  <2>1. slot' = IF lasts THEN ChangeBy(slot.x, held, slot.pending \/ ripe)
                ELSE ChangeBy(x, 0, FALSE)
    BY DEF ChangeInValue
  <2>2. CASE lasts
    <3>1. held \in Nat /\ slot.x \in Inputs
      <4>1. slot.held \in Nat /\ slot.x \in Inputs
        BY <1>2, <2>2
      <4> HIDE DEF lasts
      <4> QED BY <4>1, HeldIsNatural
    <3>2. (slot.pending \/ ripe) \in BOOLEAN
      OBVIOUS
    <3> HIDE DEF held, ripe, lasts
    <3>3. slot' = ChangeBy(slot.x, held, slot.pending \/ ripe)
      BY <2>1, <2>2
    <3> QED BY <1>3, <3>1, <3>2, <3>3
  <2>3. CASE ~lasts
    <3> HIDE DEF lasts
    <3>1. slot' = ChangeBy(x, 0, FALSE)
      BY <2>1, <2>3
    <3> QED BY <1>3, <3>1
  <2> QED BY <2>2, <2>3
<1> QED BY <1>4, <1>5

LEMMA EdgeType ==
  ASSUME ArgumentsOK, TypeOK, Next, operator \in Flanks
  PROVE  TypeOK'
<1>1. Kinds[operator] = "ChangeEdge" /\ operator' = operator
  BY KindsOfOperators, SiteStays DEF ArgumentsOK
<1>2. ~Fresh => slot.held \in Nat
  BY <1>1 DEF TypeOK
<1> PICK dt \in Periods, x \in Inputs : ChangeInCondition(x, dt)
  BY ActionOfOperator
<1> DEFINE cond   == Condition(x)
           edge   == ~Fresh /\ Flank(slot.prev, cond)
           waits  == ~Fresh /\ ~edge /\ limit # NoFilter /\ slot.held > 0 /\ cond = slot.prev
           ripe   == waits /\ slot.held + dt >= limit
           held   == IF edge /\ limit # NoFilter THEN dt
                     ELSE IF waits /\ ~ripe THEN slot.held + dt ELSE 0
<1>3. slot' = ChangeEdge(cond, held)
  BY DEF ChangeInCondition
<1>4. held \in Nat
  <2>1. dt \in Nat
    BY Periodic
  <2>2. waits => slot.held \in Nat
    BY <1>2
  <2> HIDE DEF edge, waits, ripe
  <2> QED BY <2>1, <2>2
<1> HIDE DEF held, cond
<1>5. slot'.kind = "ChangeEdge" /\ slot'.held = held
  BY <1>3 DEF ChangeEdge
<1> QED BY <1>1, <1>4, <1>5 DEF TypeOK

(* The operators of which TypeOK says no more than the kind.               *)
LEMMA SmoothedType ==
  ASSUME ArgumentsOK, Next,
         operator \in Smooths \cup {"Derivative.Adaptive", "Debounce.Filter"}
  PROVE  TypeOK'
<1>1. operator' = operator /\ operator \in Operators
  BY SiteStays DEF ArgumentsOK
<1>2. ASSUME NEW k \in {"Filter", "Integral", "Derivative", "DerivativeAdaptive", "DebounceFilter"},
             Kinds[operator] = k, slot'.kind = k
      PROVE  TypeOK'
  BY <1>1, <1>2 DEF TypeOK
<1>3. CASE operator \in Filters
  <2> PICK dt \in Periods, x \in Inputs, y \in Inputs, method \in {"call", "reset"} :
        Smooth(method, x, dt, y)
    BY <1>3, ActionOfOperator
  <2>1. slot'.kind = "Filter"
    BY DEF Smooth, Filter
  <2> QED BY <1>1, <1>2, <1>3, <2>1, KindsOfOperators
<1>4. CASE operator = "Integral.Normal"
  <2> PICK dt \in Periods, x \in Inputs, method \in {"call", "reset"} : Integrate(method, x, dt)
    BY <1>4, ActionOfOperator
  <2>1. slot'.kind = "Integral"
    BY DEF Integrate, Integral
  <2> QED BY <1>1, <1>2, <1>4, <2>1, KindsOfOperators
<1>5. CASE operator \in Slopes
  <2> PICK dt \in Periods, x \in Inputs : Derive(x, dt)
    BY <1>5, ActionOfOperator
  <2>1. slot'.kind = "Derivative"
    BY DEF Derive, Derivative
  <2> QED BY <1>1, <1>2, <1>5, <2>1, KindsOfOperators
<1>6. CASE operator = "Derivative.Adaptive"
  <2> PICK dt \in Periods, x \in Inputs : DeriveAdaptively(x, dt)
    BY <1>6, ActionOfOperator
  <2>1. slot'.kind = "DerivativeAdaptive"
    BY DEF DeriveAdaptively, DerivativeAdaptive
  <2> QED BY <1>1, <1>2, <1>6, <2>1, KindsOfOperators
<1>7. CASE operator = "Debounce.Filter"
  <2> PICK dt \in Periods, x \in Inputs : DebounceFiltered(x, dt)
    BY <1>7, ActionOfOperator
  <2>1. slot'.kind = "DebounceFilter"
    BY DEF DebounceFiltered, DebounceFilter
  <2> QED BY <1>1, <1>2, <1>7, <2>1, KindsOfOperators
<1> QED BY <1>3, <1>4, <1>5, <1>6, <1>7 DEF Smooths

LEMMA TimerType ==
  ASSUME ArgumentsOK, TimerInv, operator = "Timer"
  PROVE  TypeOK
<1>1. Kinds[operator] = "Timer"
  BY KindsOfOperators DEF ArgumentsOK
<1>2. CASE Fresh
  <2>1. slot.kind = "Uninit"
    BY <1>2 DEF Fresh, Uninit
  <2> QED BY <1>2, <2>1 DEF TypeOK
<1>3. CASE ~Fresh
  <2>1. slot \in TimerSlots
    BY <1>3 DEF TimerInv
  <2>2. slot.kind = "Timer" /\ slot.remaining \in Nat /\ slot.running \in BOOLEAN
    BY <2>1 DEF TimerSlots
  <2> QED BY <1>1, <2>2 DEF TypeOK
<1> QED BY <1>2, <1>3

(* A call site keeps the kind of state its operator needs, so that no      *)
(* operator finds the state of another (stateful.rs, the OpState that each *)
(* operator matches on), and a time it counts is never negative.           *)
THEOREM TypeCorrect == Spec => []TypeOK
<1> DEFINE I == /\ ArgumentsOK /\ TypeOK
                /\ operator = "Timer" => Shape /\ TimerInv /\ TimerAnswers
<1>1. Init => I
  <2> SUFFICES ASSUME Init PROVE I
    OBVIOUS
  <2>1. Shape /\ Last = 0 /\ Fresh
    BY Beginning
  <2>2. slot.kind = "Uninit"
    BY <2>1 DEF Fresh, Uninit
  <2> QED BY <2>1, <2>2 DEF TypeOK, Shape, TimerInv, TimerAnswers
<1>2. I /\ [Next]_vars => I'
  <2> SUFFICES ASSUME I, [Next]_vars
               PROVE  I'
    OBVIOUS
  <2>1. CASE Next
    <3>1. operator' = operator /\ ArgumentsOK'
      BY <2>1, SiteStays DEF ArgumentsOK
    <3>2. CASE operator = "Timer"
      <4>1. Shape' /\ TimerInv' /\ TimerAnswers'
        BY <2>1, <3>2, ActionOfOperator, TimerStep
      <4>2. TypeOK'
        <5>1. (ArgumentsOK /\ TimerInv /\ operator = "Timer" => TypeOK)'
          BY TimerType, PTL
        <5> QED BY <5>1, <4>1, <3>1, <3>2
      <4> QED BY <3>1, <4>1, <4>2
    <3>3. CASE operator # "Timer"
      <4>1. \/ operator \in Delays \cup Ranges \cup {"Debounce.Stable", "Calculate.Hysteresis"}
            \/ operator \in Stables \cup Changes
            \/ operator \in Flanks
            \/ operator \in Smooths \cup {"Derivative.Adaptive", "Debounce.Filter"}
        BY <3>3 DEF ArgumentsOK, Operators, OnlyTimed
      <4>2. TypeOK'
        BY <2>1, <4>1, TimedType, ChangeType, EdgeType, SmoothedType
      <4> QED BY <3>1, <3>3, <4>2
    <3> QED BY <3>2, <3>3
  <2>2. CASE UNCHANGED vars
    <3>1. operator' = operator /\ limit' = limit /\ delta' = delta /\ slot' = slot /\ calls' = calls
      BY <2>2 DEF vars
    <3>2. ArgumentsOK' /\ TypeOK'
      BY <3>1 DEF ArgumentsOK, TypeOK, Fresh
    <3>3. Shape' = Shape
      BY <2>2, Stuttering
    <3>4. TimerInv' = TimerInv /\ TimerAnswers' = TimerAnswers
      BY <3>1, <2>2, Stuttering
         DEF TimerInv, TimerAnswers, BegunBy, Undisturbed, Called, Fresh, Last, Answer, Elapsed, At
    <3> QED BY <3>1, <3>2, <3>3, <3>4
  <2> QED BY <2>1, <2>2
<1>3. I => TypeOK
  OBVIOUS
<1> QED BY <1>1, <1>2, <1>3, PTL DEF Spec

=============================================================================
