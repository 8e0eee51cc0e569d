---------------------------- MODULE HardwareProofs ----------------------------
(***************************************************************************)
(* The invariants of Hardware, for every project, report, scenario and     *)
(* adapter. A call ends in one of four ways (Ends), and each theorem looks *)
(* at these only: the clocks of System.ElapsedTime through the history of  *)
(* its answers, the trace through what it is given, and the report through *)
(* what it offers of the route the call takes.                             *)
(***************************************************************************)
EXTENDS Hardware, FiniteSetTheorems, TLAPS

LOCAL INSTANCE SequencesExt

WF == INSTANCE WellFoundedInduction

-----------------------------------------------------------------------------
(* What a local hides *)

\* A name with a method is never a local.
LEMMA OwnName ==
    ASSUME NEW s, NEW r, NEW m, m # "none", NEW seen, NEW known
    PROVE  Classify(s, <<r, m>>, known) = Classify(s, <<r, m>>, seen)
BY DEF Classify

\* Nor does a local change which script it is.
LEMMA OwnFunction ==
    ASSUME NEW s, NEW r, NEW m, m # "none", NEW seen, NEW known
    PROVE  IsUserFunction(s, <<r, m>>, known) = IsUserFunction(s, <<r, m>>, seen)
BY OwnName DEF IsUserFunction

\* With more locals a receiver is what it was, or a local.
LEMMA Receiver ==
    ASSUME NEW s, NEW r, NEW seen, NEW known, r \in seen => r \in known
    PROVE  \/ Classify(s, <<r, "none">>, known) = Classify(s, <<r, "none">>, seen)
           \/ Classify(s, <<r, "none">>, known) = Target("local", r)
BY DEF Classify

\* With more locals a call takes the route it took, or none.
LEMMA LocalsHide ==
    ASSUME NEW s, NEW st, NEW seen, NEW known, st.recv \in seen => st.recv \in known
    PROVE  \/ ClassifyCall(s, st, known) = ClassifyCall(s, st, seen)
           \/ ClassifyCall(s, st, known) = Unsupported
<1>1. CASE st.method = "none"
  <2>1. CASE Classify(s, <<st.recv, "none">>, known) = Classify(s, <<st.recv, "none">>, seen)
    <3>1. IsUserFunction(s, <<st.recv, "none">>, known) = IsUserFunction(s, <<st.recv, "none">>, seen)
      BY <2>1 DEF IsUserFunction
    <3>2. QED  BY <1>1, <2>1, <3>1 DEF ClassifyCall, ClassifyBare
  <2>2. CASE Classify(s, <<st.recv, "none">>, known) = Target("local", st.recv)
    <3>1. ~ IsUserFunction(s, <<st.recv, "none">>, known)
      BY <2>2 DEF IsUserFunction, Target
    <3>2. QED  BY <1>1, <3>1 DEF ClassifyCall, ClassifyBare
  <2>3. QED  BY <2>1, <2>2, Receiver
<1>2. CASE st.method # "none"
  <2>1. Classify(s, <<st.recv, st.method>>, known) = Classify(s, <<st.recv, st.method>>, seen)
    BY <1>2, OwnName
  <2>2. IsUserFunction(s, <<st.recv, st.method>>, known) = IsUserFunction(s, <<st.recv, st.method>>, seen)
    BY <1>2, OwnFunction
  <2>3. CASE Classify(s, <<st.recv, "none">>, known) = Classify(s, <<st.recv, "none">>, seen)
    <3>1. ClassifyMember(s, st.recv, st.method, known) = ClassifyMember(s, st.recv, st.method, seen)
      BY <2>1, <2>2, <2>3 DEF ClassifyMember
    <3>2. QED  BY <1>2, <3>1 DEF ClassifyCall
  <2>4. CASE Classify(s, <<st.recv, "none">>, known) = Target("local", st.recv)
    <3>1. Target("local", st.recv).k = "local"
      BY DEF Target
    <3>2. QED  BY <1>2, <2>1, <2>2, <2>4, <3>1 DEF ClassifyCall, ClassifyMember
  <2>5. QED  BY <2>3, <2>4, Receiver
<1>3. QED  BY <1>1, <1>2

-----------------------------------------------------------------------------
(* What a call does *)

\* The device that a source belongs to has handled the call, and no other one has.
Worked(source, call) ==
    devices' = IF DeviceOf(source) \in {"can", "serial"}
               THEN [devices EXCEPT ![DeviceOf(source)] = @ \cup {<<call.name, call.site>>}]
               ELSE devices

\* The model of System answers only for itself.
FromModel(c, x, source) ==
    source = "system" => c.route = "io" /\ c.of.of = "System" /\ x = SystemModel(c)

Completed(c, x, source) ==
    /\ IsHardware(c) /\ source \in Sources
    /\ Complete(c, x, source) /\ Worked(source, c) /\ FromModel(c, x, source)

Ends(c) ==
    \/ \E why \in Failures : FailWith(c, why)
    \/ \E x, source : Completed(c, x, source)
    \/ /\ c.route = "catalogued_adapter"
       /\ \E y : Trace(c, "adapter") /\ Answered(c, y, "adapter") /\ UNCHANGED <<elapsed, devices>>
    \/ /\ c.route \in {"library", "object", "function"}
       /\ Answered(c, True, "evaluator") /\ UNCHANGED <<elapsed, trace, devices>>

\* An override or an adapter completes the call or fails it.
LEMMA CoercedEnds ==
    ASSUME NEW c, NEW x, NEW source \in {"exact", "wildcard", "adapter"}, IsHardware(c),
           CompleteCoerced(c, x, source), UNCHANGED devices
    PROVE  Ends(c)
<1>1. "result" \in Failures
  BY DEF Failures
<1>2. CASE FailWith(c, "result")
  BY <1>1, <1>2 DEF Ends
<1>3. CASE Complete(c, CoerceHardware(x, Returns(c)), source)
  <2>1. source \in Sources /\ Worked(source, c) /\ FromModel(c, CoerceHardware(x, Returns(c)), source)
    BY DEF Sources, Worked, DeviceOf, FromModel
  <2>2. QED  BY <1>3, <2>1 DEF Ends, Completed
<1>4. QED  BY <1>2, <1>3 DEF CompleteCoerced, CompleteUnlessFailed

\* So does a virtual device, which has then handled one call more.
LEMMA DeviceEnds ==
    ASSUME NEW c, NEW name, NEW inside, NEW outside, IsHardware(c), Device(c, name, inside, outside),
           <<name, inside, outside>> \in {<<"can", "can", "canrx">>, <<"serial", "serial", "serialrx">>}
    PROVE  Ends(c)
<1>1. CASE FailWith(c, "device")
  BY <1>1 DEF Ends, Failures
<1>2. ASSUME NEW source \in {inside, outside}, Complete(c, DefaultFor(Returns(c)), source),
             devices' = [devices EXCEPT ![name] = @ \cup {<<c.name, c.site>>}]
      PROVE  Ends(c)
  <2>1. source \in Sources /\ Worked(source, c) /\ FromModel(c, DefaultFor(Returns(c)), source)
    BY <1>2 DEF Sources, Worked, DeviceOf, FromModel
  <2>2. QED  BY <1>2, <2>1 DEF Ends, Completed
<1>3. QED  BY <1>1, <1>2 DEF Device

\* A call is handled by one of the routes.
Handled(c) ==
    \/ Arguments(c) \/ Override(c) \/ Adapt(c) \/ VirtualCanCall(c) \/ VirtualSerialCall(c) \/ DevicesRefuse(c)
    \/ SystemCall(c) \/ MissingMetadata(c) \/ Stub(c) \/ Unanswered(c)
    \/ AskAdapterOnly(c) \/ RefuseCatalogued(c) \/ Compute(c) \/ RefuseCall(c)

\* Whatever the route, a call ends in one of the four ways.
LEMMA HandlersEnd ==
    ASSUME NEW c, Handled(c)
    PROVE  Ends(c)
<1>1. ASSUME NEW why \in Failures, FailWith(c, why)  PROVE  Ends(c)
  BY <1>1 DEF Ends
<1>2. CASE \/ Arguments(c) \/ DevicesRefuse(c) \/ MissingMetadata(c) \/ Unanswered(c) \/ RefuseCatalogued(c) \/ RefuseCall(c)
  <2>1. {"arguments", "unsupported", "metadata"} \subseteq Failures
    BY DEF Failures
  <2>2. QED  BY <1>1, <1>2, <2>1 DEF Arguments, DevicesRefuse, MissingMetadata, Unanswered, RefuseCatalogued, RefuseCall
<1>3. CASE Override(c)
  BY <1>3, CoercedEnds DEF Override
<1>4. CASE Adapt(c)
  <2>1. CASE FailWith(c, "adapter_error")
    BY <1>1, <2>1 DEF Failures
  <2>2. CASE ~ FailWith(c, "adapter_error")
    BY <1>4, <2>2, CoercedEnds DEF Adapt
  <2>3. QED  BY <2>1, <2>2
<1>5. CASE VirtualCanCall(c)
  BY <1>5, DeviceEnds DEF VirtualCanCall, Left
<1>6. CASE VirtualSerialCall(c)
  BY <1>6, DeviceEnds DEF VirtualSerialCall, Left
<1>7. CASE SystemCall(c)
  <2>1. CASE FailWith(c, "arguments")
    BY <1>1, <2>1 DEF Failures
  <2>2. CASE Complete(c, SystemModel(c), "system")
    <3>1. c.route = "io" /\ c.of.of = "System"
      BY <1>7 DEF SystemCall, Modelled, Object
    <3>2. "system" \in Sources /\ Worked("system", c) /\ FromModel(c, SystemModel(c), "system")
      BY <1>7, <3>1 DEF SystemCall, Sources, Worked, DeviceOf, FromModel
    <3>3. QED  BY <1>7, <2>2, <3>2 DEF SystemCall, Left, Ends, Completed
  <2>3. QED  BY <1>7, <2>1, <2>2 DEF SystemCall, CompleteModelled
<1>8. CASE Stub(c)
  <2>1. "stub" \in Sources /\ Worked("stub", c) /\ FromModel(c, DefaultFor(Returns(c)), "stub")
    BY <1>8 DEF Stub, Sources, Worked, DeviceOf, FromModel
  <2>2. QED  BY <1>8, <2>1 DEF Stub, Left, Ends, Completed
<1>9. CASE AskAdapterOnly(c)
  <2>1. {"arguments", "behaviour", "adapter_error", "result"} \subseteq Failures
    BY DEF Failures
  <2>2. CASE \E why \in {"arguments", "behaviour", "adapter_error", "result"} : FailWith(c, why)
    BY <1>1, <2>1, <2>2
  <2>3. CASE \A why \in {"arguments", "behaviour", "adapter_error", "result"} : ~ FailWith(c, why)
    BY <1>9, <2>3 DEF AskAdapterOnly, Ends
  <2>4. QED  BY <2>2, <2>3
<1>10. CASE Compute(c)
  BY <1>10 DEF Compute, Ends
<1>11. QED  BY <1>2, <1>3, <1>4, <1>5, <1>6, <1>7, <1>8, <1>9, <1>10 DEF Handled

\* A step that makes a call makes the pending one.
LEMMA CallEnds ==
    ASSUME Call
    PROVE  \E c \in Pending : Ends(c)
<1>1. PICK c \in Pending : Handled(c)
  BY DEF Call, Handled
<1>2. QED  BY <1>1, HandlersEnd

-----------------------------------------------------------------------------
(* The order of the scripts *)

USE HardwareAssumption

\* The state the scripts are run in.
Sane ==
    /\ tick \in Nat /\ pc \in Nat /\ phase \in {"startup", "periodic"}
    /\ queue \subseteq DOMAIN Scripts
    /\ pc > 0 => queue # {}
    /\ pc = 0 => answer = NoAnswer
    /\ phase = "startup" => tick = 0
    /\ phase = "startup" => \A i \in queue : Scripts[i] \in Startup

\* The first script of the queue is one of it.
LEMMA FirstIsQueued ==
    ASSUME Sane, queue # {}
    PROVE  Min(queue) \in queue
<1> DEFINE R == WF!OpToRel(<, Nat)
<1>1. WF!IsWellFoundedOn(R, Nat)
  BY WF!NatLessThanWellFounded
<1>2. \A i, j \in Nat : <<i, j>> \in R <=> i < j
  BY DEF WF!OpToRel
<1>3. queue \subseteq Nat
  BY DEF Sane
<1> HIDE DEF R
<1>4. PICK i \in queue : \A j \in queue : ~(<<j, i>> \in R)
  BY <1>1, <1>3, WF!WFMin
<1>5. ASSUME NEW j \in queue PROVE i <= j
  <2>1. i \in Nat /\ j \in Nat
    BY <1>3
  <2>2. ~(j < i)
    BY <1>2, <1>4, <2>1
  <2>3. QED  BY <2>1, <2>2
<1>6. QED  BY <1>5 DEF Min

\* What a pending call knows of the statement it is.
LEMMA PendingIsMade ==
    ASSUME Sane, NEW c \in Pending
    PROVE  \E i \in queue, j \in Nat :
             /\ i = Min(queue) /\ j = pc /\ j > 0 /\ j \in DOMAIN Body[Scripts[i]]
             /\ Body[Scripts[i]][j].k = "call"
             /\ c.site = <<Scripts[i], Body[Scripts[i]][j].at>>
             /\ c.name = NameOf(Body[Scripts[i]][j])
             /\ c.method = Body[Scripts[i]][j].method
             /\ c.route = ClassifyCall(Scripts[i], Body[Scripts[i]][j], locals).route
             /\ c.of = ClassifyCall(Scripts[i], Body[Scripts[i]][j], locals).of
<1>1. At("call") /\ c = CallOf(Stmt, ClassifyCall(Script, Stmt, locals))
  BY DEF Pending
<1>2. pc > 0 /\ pc \in Nat /\ pc <= Len(Body[Script]) /\ Stmt.k = "call"
  BY <1>1 DEF At, Within, Sane
<1>3. Min(queue) \in queue
  BY <1>2, FirstIsQueued DEF Sane
<1>4. PICK i \in queue : i = Min(queue)
  BY <1>3
<1>5. Script = Scripts[i] /\ Stmt = Body[Scripts[i]][pc] /\ i \in DOMAIN Scripts
  BY <1>4 DEF Script, Stmt, Sane
<1>6. pc \in DOMAIN Body[Scripts[i]]
  BY <1>2, <1>5
<1>7. QED  BY <1>1, <1>2, <1>4, <1>5, <1>6 DEF CallOf

\* What the history is told of a call that is answered.
LEMMA AnswersAreNoted ==
    ASSUME NEW c, Ends(c), ~ \E why \in Failures : FailWith(c, why)
    PROVE  /\ pc' = pc + 1
           /\ UNCHANGED <<overrides, adapter, phase, tick, queue, locals>>
           /\ \E source : answered' = answered \cup
                {[from |-> source, name |-> c.name, site |-> c.site, at |-> Noted(c)]}
BY DEF Ends, Completed, Complete, Answered, world, time

\* Every action keeps the order of the scripts.
LEMMA SaneStep ==
    ASSUME Sane, [Next]_vars
    PROVE  Sane'
<1>1. CASE UNCHANGED vars
  BY <1>1 DEF Sane, vars, time
<1>2. CASE Call
  <2>1. PICK c \in Pending : Ends(c)
    BY <1>2, CallEnds
  <2>2. CASE \E why \in Failures : FailWith(c, why)
    <3>1. pc > 0
      BY <2>1, PendingIsMade
    <3>2. QED  BY <2>2, <3>1 DEF Sane, FailWith, time
  <2>3. CASE ~ \E why \in Failures : FailWith(c, why)
    <3>1. pc' = pc + 1 /\ UNCHANGED <<phase, tick, queue>>
      BY <2>1, <2>3, AnswersAreNoted
    <3>2. pc > 0
      BY <2>1, PendingIsMade
    <3>3. QED  BY <3>1, <3>2 DEF Sane
  <2>4. QED  BY <2>2, <2>3
<1>3. CASE Declare \/ SkipBranch
  <2>1. pc > 0 /\ pc' = pc + 1 /\ UNCHANGED <<phase, tick, queue>>
    BY <1>3 DEF Declare, SkipBranch, At, Within, Advance, time
  <2>2. QED  BY <2>1 DEF Sane
<1>4. CASE BeginScript
  BY <1>4 DEF BeginScript, Sane, time
<1>5. CASE EndScript
  BY <1>5 DEF EndScript, Sane, time
<1>6. CASE NextTick
  <2>1. phase' = "periodic" /\ tick' \in Nat /\ queue' \subseteq DOMAIN Scripts /\ UNCHANGED <<pc, answer>> /\ pc = 0
    BY <1>6 DEF NextTick, Sane, Due
  <2>2. QED  BY <2>1 DEF Sane
<1>7. QED  BY <1>1, <1>2, <1>3, <1>4, <1>5, <1>6 DEF Next

-----------------------------------------------------------------------------
(* The history and the clocks *)

\* An answer belongs to the call in place j of the script in place i.
Made(a, i, j) ==
    /\ i \in DOMAIN Scripts /\ j \in DOMAIN Body[Scripts[i]]
    /\ Body[Scripts[i]][j].k = "call"
    /\ a.site = <<Scripts[i], Body[Scripts[i]][j].at>>
    /\ a.name = NameOf(Body[Scripts[i]][j])
Timed(a) == a.name[2] = "ElapsedTime"

\* A call whose tick is kept is made once in a tick: one of this tick is of a
\* script that is through, or above the statement to come.
Placed(a, i, j) ==
    /\ Made(a, i, j)
    /\ Timed(a) => a.at \in 0..tick
    /\ Timed(a) /\ a.at = tick /\ i \in queue => i = Min(queue) /\ j < pc
    /\ phase = "startup" => Scripts[i] \in Startup
History == \A a \in answered : \E i, j : Placed(a, i, j)

\* The calls System.ElapsedTime is asked at.
ClockCall(i, j) ==
    LET c == ClassifyCall(Scripts[i], Body[Scripts[i]][j], {}) IN
    c.route = "io" /\ c.of.of = "System" /\ Body[Scripts[i]][j].method = "ElapsedTime"

\* The clock of a site is that of its last answer, and every answered site of
\* System.ElapsedTime has one.
Clocks ==
    /\ \A s \in DOMAIN elapsed : \E a \in answered : Timed(a) /\ a.site = s /\ a.at = elapsed[s]
    /\ \A a \in answered : \A i, j :
          Made(a, i, j) /\ ClockCall(i, j) => a.site \in DOMAIN elapsed /\ a.at <= elapsed[a.site]

HardwareInv == Sane /\ History /\ Clocks

\* No two calls of the scripts have the same site.
LEMMA SitesAreCalls ==
    ASSUME NEW a, NEW b, NEW i, NEW j, NEW k, NEW l, Made(a, i, j), Made(b, k, l), a.site = b.site
    PROVE  i = k /\ j = l
<1>1. Scripts[i] = Scripts[k] /\ Body[Scripts[i]][j].at = Body[Scripts[k]][l].at
  BY DEF Made
<1>2. i = k
  BY <1>1 DEF Made
<1>3. j = l
  BY <1>1, <1>2 DEF Made
<1>4. QED  BY <1>2, <1>3

\* No call whose tick is kept is made twice in a tick.
LEMMA HistoryStep ==
    ASSUME Sane, History, [Next]_vars
    PROVE  History'
<1>1. ASSUME NEW a \in answered', ~ (a \in answered)
      PROVE  \E i, j : Placed(a, i, j)'
  <2>1. Call
    <3>1. ~ UNCHANGED vars
      BY <1>1 DEF vars
    <3>2. ~ (Declare \/ SkipBranch \/ BeginScript \/ EndScript \/ NextTick)
      BY <1>1 DEF Declare, SkipBranch, Advance, BeginScript, EndScript, NextTick
    <3>3. QED  BY <3>1, <3>2 DEF Next
  <2>2. PICK c \in Pending : Ends(c)
    BY <2>1, CallEnds
  <2>3. ~ \E why \in Failures : FailWith(c, why)
    BY <1>1 DEF FailWith
  <2>4. /\ pc' = pc + 1 /\ UNCHANGED <<phase, tick, queue>>
        /\ a.name = c.name /\ a.site = c.site /\ a.at = Noted(c)
    BY <1>1, <2>2, <2>3, AnswersAreNoted
  <2>5. PICK i \in queue, j \in Nat :
             /\ i = Min(queue) /\ j = pc /\ j > 0 /\ j \in DOMAIN Body[Scripts[i]]
             /\ Body[Scripts[i]][j].k = "call"
             /\ c.site = <<Scripts[i], Body[Scripts[i]][j].at>>
             /\ c.name = NameOf(Body[Scripts[i]][j])
             /\ c.method = Body[Scripts[i]][j].method
    BY PendingIsMade
  <2>6. Made(a, i, j)
    BY <2>4, <2>5 DEF Made, Sane
  <2>7. Timed(a) => a.at = tick
    <3>1. c.name[2] = c.method
      BY <2>5 DEF NameOf
    <3>2. QED  BY <2>4, <3>1 DEF Timed, Noted
  <2>8. tick \in Nat /\ (phase = "startup" => Scripts[i] \in Startup)
    BY <2>5 DEF Sane
  <2>9. Made(a, i, j)'
    BY <2>6 DEF Made
  <2>10. Placed(a, i, j)'
    BY <2>4, <2>5, <2>7, <2>8, <2>9 DEF Placed, Timed
  <2>11. QED  BY <2>10
<1>2. ASSUME NEW a \in answered
      PROVE  \E i, j : Placed(a, i, j)'
  <2>1. PICK i, j : Placed(a, i, j)
    BY DEF History
  <2>2. Made(a, i, j) /\ Made(a, i, j)' /\ i \in DOMAIN Scripts /\ j \in DOMAIN Body[Scripts[i]]
    BY <2>1 DEF Placed, Made
  <2>3. tick \in Nat /\ pc \in Nat /\ j \in Nat
    BY <2>2 DEF Sane
  <2>4. CASE UNCHANGED <<phase, tick, queue>> /\ pc' >= pc /\ pc' \in Nat
    BY <2>1, <2>2, <2>3, <2>4 DEF Placed, Timed
  <2>5. CASE UNCHANGED vars
    BY <2>4, <2>5, <2>3 DEF vars, time
  <2>6. CASE Call
    <3>1. PICK c \in Pending : Ends(c)
      BY <2>6, CallEnds
    <3>2. CASE \E why \in Failures : FailWith(c, why)
      BY <2>3, <2>4, <3>2 DEF FailWith, time
    <3>3. CASE ~ \E why \in Failures : FailWith(c, why)
      <4>1. pc' = pc + 1 /\ UNCHANGED <<phase, tick, queue>>
        BY <3>1, <3>3, AnswersAreNoted
      <4>2. QED  BY <2>3, <2>4, <4>1
    <3>4. QED  BY <3>2, <3>3
  <2>7. CASE Declare \/ SkipBranch
    <3>1. pc' = pc + 1 /\ UNCHANGED <<phase, tick, queue>>
      BY <2>7 DEF Declare, SkipBranch, Advance, time
    <3>2. QED  BY <2>3, <2>4, <3>1
  <2>8. CASE BeginScript
    <3>1. pc = 0 /\ pc' = 1 /\ UNCHANGED <<phase, tick, queue>>
      BY <2>8 DEF BeginScript, time
    <3>2. QED  BY <2>3, <2>4, <3>1
  <2>9. CASE EndScript
    <3>1. queue' = queue \ {Min(queue)} /\ UNCHANGED <<phase, tick>>
      BY <2>9 DEF EndScript, time
    <3>2. QED  BY <2>1, <2>2, <3>1 DEF Placed, Timed
  <2>10. CASE NextTick
    <3>1. phase' = "periodic" /\ tick' = (IF phase = "startup" THEN 0 ELSE tick + 1)
          /\ queue' = Due(tick')
      BY <2>10 DEF NextTick
    <3>2. CASE phase = "startup"
      <4>1. Scripts[i] \in Startup /\ tick = 0 /\ tick' = 0
        BY <2>1, <3>1, <3>2 DEF Placed, Sane
      <4>2. ~ (i \in queue')
        BY <3>1, <4>1 DEF Due
      <4>3. QED  BY <2>1, <2>2, <3>1, <4>1, <4>2 DEF Placed, Timed
    <3>3. CASE phase # "startup"
      <4>1. tick' = tick + 1
        BY <3>1, <3>3
      <4>2. Timed(a) => a.at \in 0..tick' /\ a.at # tick'
        BY <2>1, <2>3, <4>1 DEF Placed
      <4>3. QED  BY <2>2, <3>1, <4>2 DEF Placed, Timed
    <3>4. QED  BY <3>2, <3>3
  <2>11. QED  BY <2>5, <2>6, <2>7, <2>8, <2>9, <2>10 DEF Next
<1>3. QED  BY <1>1, <1>2 DEF History

\* A call that System.ElapsedTime is asked at is completed under its name.
LEMMA ClockCallsComplete ==
    ASSUME NEW c, NEW i, NEW j, ClockCall(i, j), Ends(c), ~ \E why \in Failures : FailWith(c, why),
           c.method = Body[Scripts[i]][j].method,
           c.route = ClassifyCall(Scripts[i], Body[Scripts[i]][j], locals).route,
           c.of = ClassifyCall(Scripts[i], Body[Scripts[i]][j], locals).of
    PROVE  CanonicalName(c) = <<"System", "ElapsedTime">> /\ \E x, source : Completed(c, x, source)
<1>1. c.route = "none" \/ (c.route = "io" /\ c.of.of = "System")
  BY LocalsHide DEF ClockCall, Unsupported, Capability
<1>2. PICK x, source : Completed(c, x, source)
  BY <1>1 DEF Ends
<1>3. c.route # "none"
  BY <1>2 DEF Completed, IsHardware
<1>4. QED  BY <1>1, <1>2, <1>3 DEF CanonicalName, ClockCall

\* Every action keeps the clocks in step with the history.
LEMMA ClocksStep ==
    ASSUME Sane, History, Clocks, [Next]_vars
    PROVE  Clocks'
<1>1. CASE UNCHANGED <<elapsed, answered>>
  BY <1>1 DEF Clocks, Made, Timed
<1>2. CASE Call
  <2>1. PICK c \in Pending : Ends(c)
    BY <1>2, CallEnds
  <2>2. CASE \E why \in Failures : FailWith(c, why)
    BY <1>1, <2>2 DEF FailWith
  <2>3. CASE ~ \E why \in Failures : FailWith(c, why)
    <3>1. PICK source : answered' = answered \cup
                {[from |-> source, name |-> c.name, site |-> c.site, at |-> Noted(c)]}
      BY <2>1, <2>3, AnswersAreNoted
    <3>2. PICK a \in answered' : a.name = c.name /\ a.site = c.site /\ a.at = Noted(c)
                                 /\ answered' = answered \cup {a}
      BY <3>1
    <3>3. PICK i \in queue, j \in Nat :
             /\ i = Min(queue) /\ j = pc /\ j > 0 /\ j \in DOMAIN Body[Scripts[i]]
             /\ Body[Scripts[i]][j].k = "call"
             /\ c.site = <<Scripts[i], Body[Scripts[i]][j].at>>
             /\ c.name = NameOf(Body[Scripts[i]][j])
             /\ c.method = Body[Scripts[i]][j].method
             /\ c.route = ClassifyCall(Scripts[i], Body[Scripts[i]][j], locals).route
             /\ c.of = ClassifyCall(Scripts[i], Body[Scripts[i]][j], locals).of
      BY PendingIsMade
    <3>4. Made(a, i, j)
      BY <3>2, <3>3 DEF Made, Sane
    <3>5. c.name[2] = c.method
      BY <3>3 DEF NameOf
    <3>6. PICK t \in Nat : t = tick
      BY DEF Sane
    <3>7. CASE CanonicalName(c) = <<"System", "ElapsedTime">> /\ \E x, src : Completed(c, x, src)
      <4>1. elapsed' = Restarted(c.site) /\ c.method = "ElapsedTime"
        BY <3>7 DEF Completed, Complete, CanonicalName
      <4>2. /\ DOMAIN elapsed' = DOMAIN elapsed \cup {c.site}
            /\ elapsed'[c.site] = t
            /\ \A s \in DOMAIN elapsed : s # c.site => elapsed'[s] = elapsed[s]
        BY <4>1, <3>6 DEF Restarted
      <4>3. Timed(a) /\ a.at = t
        BY <3>2, <3>5, <3>6, <4>1 DEF Timed, Noted
      <4>4. ASSUME NEW s \in DOMAIN elapsed'
            PROVE  \E b \in answered' : Timed(b) /\ b.site = s /\ b.at = elapsed'[s]
        <5>1. CASE s = c.site
          BY <3>2, <4>2, <4>3, <5>1
        <5>2. CASE s # c.site
          BY <3>2, <4>2, <5>2 DEF Clocks
        <5>3. QED  BY <5>1, <5>2
      <4>5. ASSUME NEW b \in answered', NEW k, NEW l, Made(b, k, l), ClockCall(k, l)
            PROVE  b.site \in DOMAIN elapsed' /\ b.at <= elapsed'[b.site]
        <5>1. CASE b \in answered /\ b.site = c.site
          <6>1. Timed(b)
            BY <4>5 DEF Made, ClockCall, NameOf, Timed
          <6>2. b.at \in 0..t
            BY <5>1, <6>1, <3>6 DEF History, Placed
          <6>3. QED  BY <4>2, <5>1, <6>2
        <5>2. CASE b \in answered /\ b.site # c.site
          <6>1. b.site \in DOMAIN elapsed /\ b.at <= elapsed[b.site]
            BY <5>2, <4>5 DEF Clocks
          <6>2. QED  BY <4>2, <5>2, <6>1
        <5>3. CASE b = a
          BY <3>2, <3>6, <4>2, <4>3, <5>3
        <5>4. QED  BY <3>2, <5>1, <5>2, <5>3
      <4>6. QED  BY <4>4, <4>5 DEF Clocks, Made, ClockCall, Timed
    <3>8. CASE ~ (CanonicalName(c) = <<"System", "ElapsedTime">> /\ \E x, src : Completed(c, x, src))
      <4>1. elapsed' = elapsed
        <5>1. CASE \E x, src : Completed(c, x, src)
          BY <3>8, <5>1 DEF Completed, Complete
        <5>2. CASE ~ \E x, src : Completed(c, x, src)
          BY <2>1, <2>3, <5>2 DEF Ends
        <5>3. QED  BY <5>1, <5>2
      <4>2. ~ ClockCall(i, j)
        BY <2>1, <2>3, <3>3, <3>8, ClockCallsComplete
      <4>3. \A s \in DOMAIN elapsed : \E b \in answered' : Timed(b) /\ b.site = s /\ b.at = elapsed[s]
        BY <3>2 DEF Clocks
      <4>4. ASSUME NEW b \in answered', NEW k, NEW l, Made(b, k, l), ClockCall(k, l)
            PROVE  b.site \in DOMAIN elapsed /\ b.at <= elapsed[b.site]
        <5>1. CASE b \in answered
          BY <4>4, <5>1 DEF Clocks
        <5>2. CASE b = a
          BY <3>4, <4>2, <4>4, <5>2, SitesAreCalls
        <5>3. QED  BY <3>2, <5>1, <5>2
      <4>5. QED  BY <4>1, <4>3, <4>4 DEF Clocks, Made, ClockCall, Timed
    <3>9. QED  BY <3>7, <3>8
  <2>4. QED  BY <2>2, <2>3
<1>3. CASE Declare \/ SkipBranch \/ BeginScript \/ EndScript \/ NextTick
  BY <1>1, <1>3 DEF Declare, SkipBranch, Advance, BeginScript, EndScript, NextTick
<1>4. QED  BY <1>1, <1>2, <1>3 DEF Next, vars

-----------------------------------------------------------------------------
(* System.ElapsedTime *)

\* What the model answers at a site whose clock is sane.
LEMMA ClockReading ==
    ASSUME HardwareInv, NEW c \in Pending,
           c.method = "ElapsedTime", c.route = "io", c.of.of = "System"
    PROVE  LET before == {a \in answered : a.site = c.site /\ a.at < tick} IN
           ElapsedTime(c) = IF before # {} THEN tick - Max({a.at : a \in before})
                            ELSE IF tick = 0 THEN 0 ELSE Step
<1> DEFINE before == {a \in answered : a.site = c.site /\ a.at < tick}
<1>1. PICK i \in queue, j \in Nat :
             /\ i = Min(queue) /\ j = pc /\ j > 0 /\ j \in DOMAIN Body[Scripts[i]]
             /\ Body[Scripts[i]][j].k = "call"
             /\ c.site = <<Scripts[i], Body[Scripts[i]][j].at>>
             /\ c.name = NameOf(Body[Scripts[i]][j])
             /\ c.method = Body[Scripts[i]][j].method
             /\ c.route = ClassifyCall(Scripts[i], Body[Scripts[i]][j], locals).route
             /\ c.of = ClassifyCall(Scripts[i], Body[Scripts[i]][j], locals).of
  BY PendingIsMade DEF HardwareInv
<1>2. ClockCall(i, j)
  BY <1>1, LocalsHide DEF ClockCall, Unsupported, Capability
<1>3. PICK t \in Nat : t = tick
  BY DEF HardwareInv, Sane
<1>4. ASSUME NEW a \in answered, a.site = c.site
      PROVE  /\ Timed(a) /\ a.at \in 0..t /\ a.at # t
             /\ a.site \in DOMAIN elapsed /\ a.at <= elapsed[a.site]
  <2>1. PICK k, l : Placed(a, k, l)
    BY DEF HardwareInv, History
  <2>2. i \in DOMAIN Scripts
    BY <1>1 DEF HardwareInv, Sane
  <2>3. Scripts[k] = Scripts[i] /\ Body[Scripts[k]][l].at = Body[Scripts[i]][j].at
    BY <1>1, <1>4, <2>1 DEF Placed, Made
  <2>4. k = i
    BY <1>1, <2>1, <2>2, <2>3 DEF Placed, Made
  <2>5. l = j
    BY <1>1, <2>1, <2>2, <2>3, <2>4 DEF Placed, Made
  <2>6. Timed(a)
    BY <1>2, <2>1, <2>4, <2>5 DEF Placed, Made, ClockCall, NameOf, Timed
  <2>7. j \in Nat
    BY <1>1, <2>2
  <2>8. a.at \in 0..t /\ a.at # t
    BY <1>1, <1>3, <2>1, <2>4, <2>5, <2>6, <2>7 DEF Placed
  <2>9. a.site \in DOMAIN elapsed /\ a.at <= elapsed[a.site]
    BY <1>2, <2>1, <2>4, <2>5 DEF HardwareInv, Clocks, Placed
  <2>10. QED  BY <2>6, <2>8, <2>9
<1>5. \A a \in answered : a.site = c.site => a \in before
  BY <1>3, <1>4
<1>6. CASE c.site \in DOMAIN elapsed
  <2>1. PICK b \in answered : b.site = c.site /\ b.at = elapsed[c.site]
    BY <1>6 DEF HardwareInv, Clocks
  <2>2. b \in before
    BY <1>5, <2>1
  <2>3. \A n \in {a.at : a \in before} : n \in Nat /\ n <= b.at
    BY <1>3, <1>4, <2>1
  <2>4. b.at \in {a.at : a \in before} /\ b.at \in Nat
    BY <2>2, <2>3
  <2>5. Max({a.at : a \in before}) = b.at
    <3> DEFINE S == {a.at : a \in before}
    <3>1. \A n \in S : n \in Nat /\ n <= b.at
      BY <2>3
    <3>2. b.at \in S /\ b.at \in Nat
      BY <2>4
    <3> HIDE DEF S
    <3>3. \E x \in S : \A y \in S : x >= y
      BY <3>1, <3>2
    <3>4. Max(S) \in S /\ Max(S) >= b.at
      BY <3>2, <3>3 DEF Max
    <3>5. Max(S) = b.at
      BY <3>1, <3>2, <3>4
    <3>6. QED  BY <3>5 DEF S
  <2>6. ElapsedTime(c) = tick - elapsed[c.site]
    BY <1>6 DEF ElapsedTime
  <2>7. QED  BY <2>1, <2>2, <2>5, <2>6
<1>7. CASE c.site \notin DOMAIN elapsed
  <2>1. before = {}
    BY <1>4, <1>7
  <2>2. QED  BY <1>7, <2>1 DEF ElapsedTime
<1>8. QED  BY <1>6, <1>7

\* An answer of the System model is SystemModel of the pending call.
LEMMA AnswerOfModel ==
    ASSUME NEW c \in Pending, Ends(c), answer'.from = "system"
    PROVE  /\ answer'.name = c.name /\ answer'.site = c.site
           /\ c.route = "io" /\ c.of.of = "System" /\ answer'.value = SystemModel(c)
           /\ UNCHANGED <<tick, phase, queue>>
           /\ \E source : answered' = answered \cup
                {[from |-> source, name |-> c.name, site |-> c.site, at |-> Noted(c)]}
<1>1. ~ \E why \in Failures : FailWith(c, why)
  BY DEF FailWith, Failures
<1>2. UNCHANGED <<tick, phase, queue>> /\ \E source : answered' = answered \cup
                {[from |-> source, name |-> c.name, site |-> c.site, at |-> Noted(c)]}
  BY <1>1, AnswersAreNoted
<1>3. PICK x, source : Completed(c, x, source)
  BY <1>1 DEF Ends, Answered
<1>4. answer' = [from |-> source, name |-> c.name, site |-> c.site, value |-> x]
  BY <1>3 DEF Completed, Complete, Answered
<1>5. source = "system"
  BY <1>4
<1>6. c.route = "io" /\ c.of.of = "System" /\ x = SystemModel(c)
  BY <1>3, <1>5 DEF Completed, FromModel
<1>7. QED  BY <1>2, <1>4, <1>6

\* An answer of the clock spans the time since the last one.
LEMMA ElapsedStep ==
    ASSUME HardwareInv, ElapsedSpansExecutions, [Next]_vars
    PROVE  ElapsedSpansExecutions'
<1>1. CASE UNCHANGED vars
  <2>1. UNCHANGED <<answer, answered, tick, phase, queue>>
    BY <1>1 DEF vars, time
  <2>2. QED  BY <2>1 DEF ElapsedSpansExecutions, Step, Script
<1>2. CASE answer'.from # "system"
  BY <1>2 DEF ElapsedSpansExecutions
<1>3. CASE Call /\ answer'.from = "system"
  <2>1. PICK c \in Pending : Ends(c)
    BY <1>3, CallEnds
  <2>2. /\ answer'.name = c.name /\ answer'.site = c.site
        /\ c.route = "io" /\ c.of.of = "System" /\ answer'.value = SystemModel(c)
        /\ UNCHANGED <<tick, phase, queue>>
        /\ \E source : answered' = answered \cup
             {[from |-> source, name |-> c.name, site |-> c.site, at |-> Noted(c)]}
    BY <1>3, <2>1, AnswerOfModel
  <2>3. CASE answer'.name[2] # "ElapsedTime"
    BY <2>3 DEF ElapsedSpansExecutions
  <2>4. CASE answer'.name[2] = "ElapsedTime"
    <3>1. c.name[2] = c.method
      BY <2>1, PendingIsMade DEF HardwareInv, NameOf
    <3>2. c.method = "ElapsedTime"
      BY <2>2, <2>4, <3>1
    <3>4. PICK before : before = {a \in answered : a.site = c.site /\ a.at < tick}
      OBVIOUS
    <3>5. {a \in answered' : a.site = c.site /\ a.at < tick} = before
      <4>1. Noted(c) = tick /\ tick \in Nat
        BY <3>2 DEF Noted, HardwareInv, Sane
      <4>2. PICK a : answered' = answered \cup {a} /\ a.at = tick
        <5>1. PICK source : answered' = answered \cup
                {[from |-> source, name |-> c.name, site |-> c.site, at |-> Noted(c)]}
          BY <2>2
        <5>2. [from |-> source, name |-> c.name, site |-> c.site, at |-> Noted(c)].at = tick
          BY <4>1
        <5>3. QED  BY <5>1, <5>2
      <4>3. ~ (a.at < tick)
        BY <4>1, <4>2
      <4>4. QED  BY <3>4, <4>2, <4>3
    <3>6. ElapsedTime(c) = IF before # {} THEN tick - Max({a.at : a \in before})
                           ELSE IF tick = 0 THEN 0 ELSE Step
      BY <2>1, <2>2, <3>2, <3>4, ClockReading
    <3>7. SystemModel(c).v = ElapsedTime(c) * Scale
      BY <3>2 DEF SystemModel, Val
    <3>8. UNCHANGED Step
      BY <2>2 DEF Step, Script
    <3>9. answer'.value.v = (IF before # {} THEN tick - Max({a.at : a \in before})
                             ELSE IF tick = 0 THEN 0 ELSE Step) * Scale
      BY <2>2, <3>6, <3>7
    <3>10. {a \in answered' : a.site = answer'.site /\ a.at < tick'} = before
      BY <2>2, <3>5
    <3>11. QED  BY <2>2, <3>8, <3>9, <3>10 DEF ElapsedSpansExecutions
  <2>5. QED  BY <2>3, <2>4
<1>4. CASE Declare \/ SkipBranch \/ EndScript
  BY <1>2, <1>4 DEF Declare, SkipBranch, Advance, EndScript, NoAnswer
<1>5. CASE BeginScript \/ NextTick
  <2>1. answer' = NoAnswer
    BY <1>5 DEF BeginScript, NextTick, HardwareInv, Sane
  <2>2. QED  BY <1>2, <2>1 DEF NoAnswer
<1>6. QED  BY <1>1, <1>2, <1>3, <1>4, <1>5 DEF Next

\* System.ElapsedTime spans the time since the last successful execution of the
\* same call, whichever of the overrides, the adapter and the model answered it
\* (builtins/io_stub.rs, complete and elapsed_time): for every project, every
\* scenario and every number of ticks.
THEOREM ElapsedTimeSpans == Spec => []ElapsedSpansExecutions
<1>1. Init => HardwareInv /\ ElapsedSpansExecutions
  <2>1. Init => Sane
    BY DEF Init, Sane
  <2>2. Init => History /\ Clocks
    BY DEF Init, History, Clocks
  <2>3. Init => ElapsedSpansExecutions
    BY DEF Init, NoAnswer, ElapsedSpansExecutions
  <2>4. QED  BY <2>1, <2>2, <2>3 DEF HardwareInv
<1>2. HardwareInv /\ ElapsedSpansExecutions /\ [Next]_vars => (HardwareInv /\ ElapsedSpansExecutions)'
  BY SaneStep, HistoryStep, ClocksStep, ElapsedStep DEF HardwareInv
<1>3. QED  BY <1>1, <1>2, PTL DEF Spec

-----------------------------------------------------------------------------
(* The trace *)

\* Names and sites of the answers that a virtual device gave.
GivenBy(d, answers) == {<<a.name, a.site>> : a \in {b \in answers : DeviceOf(b.from) = d}}

Accounts ==
    /\ DOMAIN devices = {"can", "serial"}
    /\ \A d \in {"can", "serial"} : devices[d] = GivenBy(d, answered)
    /\ external = {a.name : a \in {b \in answered : b.from \in Sources /\ IsExternal(b.from)}}
    /\ {<<h.name, h.site, h.source>> : h \in hardware}
         = {<<a.name, a.site, a.from>> : a \in {b \in answered : b.from \in Sources}}

\* An answer of the evaluator is none of the trace's, one of a source is put
\* down under its name.
LEMMA CallsAreTraced ==
    ASSUME NEW c, Ends(c), ~ \E why \in Failures : FailWith(c, why)
    PROVE  \E a : /\ answered' = answered \cup {a}
                  /\ \/ a.from = "evaluator" /\ UNCHANGED <<external, hardware, devices>>
                     \/ /\ a.from \in Sources /\ Worked(a.from, a)
                        /\ external' = IF IsExternal(a.from) THEN external \cup {a.name} ELSE external
                        /\ \E h : /\ hardware' = hardware \cup {h}
                                  /\ h.name = a.name /\ h.site = a.site /\ h.source = a.from
<1>1. ASSUME NEW source \in Sources, NEW x, Trace(c, source), Answered(c, x, source), Worked(source, c)
      PROVE  \E a : /\ answered' = answered \cup {a}
                    /\ a.from \in Sources /\ Worked(a.from, a)
                    /\ external' = IF IsExternal(a.from) THEN external \cup {a.name} ELSE external
                    /\ \E h : /\ hardware' = hardware \cup {h}
                              /\ h.name = a.name /\ h.site = a.site /\ h.source = a.from
  <2>1. PICK a : a = [from |-> source, name |-> c.name, site |-> c.site, at |-> Noted(c)]
    OBVIOUS
  <2>2. PICK h : h = [receiver |-> c.of, name |-> c.name, site |-> c.site, source |-> source]
    OBVIOUS
  <2>3. a.from = source /\ a.name = c.name /\ a.site = c.site /\ h.name = c.name /\ h.site = c.site /\ h.source = source
    BY <2>1, <2>2
  <2>4. answered' = answered \cup {a} /\ hardware' = hardware \cup {h}
        /\ external' = IF IsExternal(source) THEN external \cup {c.name} ELSE external
    BY <1>1, <2>1, <2>2 DEF Trace, Answered
  <2>5. Worked(a.from, a)
    BY <1>1, <2>3 DEF Worked
  <2>6. QED  BY <1>1, <2>3, <2>4, <2>5
<1>2. CASE \E x, source : Completed(c, x, source)
  BY <1>1, <1>2 DEF Completed, Complete
<1>3. CASE \E y : Trace(c, "adapter") /\ Answered(c, y, "adapter") /\ UNCHANGED <<elapsed, devices>>
  <2>1. "adapter" \in Sources /\ Worked("adapter", c)
    BY <1>3 DEF Sources, Worked, DeviceOf
  <2>2. QED  BY <1>1, <1>3, <2>1
<1>4. CASE Answered(c, True, "evaluator") /\ UNCHANGED <<elapsed, trace, devices>>
  <2>1. PICK a : a = [from |-> "evaluator", name |-> c.name, site |-> c.site, at |-> Noted(c)]
    OBVIOUS
  <2>2. answered' = answered \cup {a} /\ a.from = "evaluator" /\ UNCHANGED <<external, hardware, devices>>
    BY <1>4, <2>1 DEF Answered, trace
  <2>3. QED  BY <2>2
<1>5. QED  BY <1>2, <1>3, <1>4 DEF Ends

\* Every action keeps the trace in step with the answers.
LEMMA AccountsStep ==
    ASSUME Accounts, [Next]_vars
    PROVE  Accounts'
<1>1. CASE UNCHANGED <<answered, external, hardware, devices>>
  BY <1>1 DEF Accounts, GivenBy
<1>2. CASE Call
  <2>1. PICK c \in Pending : Ends(c)
    BY <1>2, CallEnds
  <2>2. CASE \E why \in Failures : FailWith(c, why)
    BY <1>1, <2>2 DEF FailWith, trace
  <2>3. CASE ~ \E why \in Failures : FailWith(c, why)
    <3>1. PICK a : /\ answered' = answered \cup {a}
                   /\ \/ a.from = "evaluator" /\ UNCHANGED <<external, hardware, devices>>
                      \/ /\ a.from \in Sources /\ Worked(a.from, a)
                         /\ external' = IF IsExternal(a.from) THEN external \cup {a.name} ELSE external
                         /\ \E h : /\ hardware' = hardware \cup {h}
                                   /\ h.name = a.name /\ h.site = a.site /\ h.source = a.from
      BY <2>1, <2>3, CallsAreTraced
    <3>2. CASE a.from = "evaluator" /\ UNCHANGED <<external, hardware, devices>>
      <4>1. a.from \notin Sources /\ DeviceOf(a.from) = "none"
        BY <3>2 DEF Sources, DeviceOf
      <4>2. \A d \in {"can", "serial"} : GivenBy(d, answered') = GivenBy(d, answered)
        <5>1. \A d \in {"can", "serial"} :
                {b \in answered' : DeviceOf(b.from) = d} = {b \in answered : DeviceOf(b.from) = d}
          BY <3>1, <4>1
        <5>2. QED  BY <5>1 DEF GivenBy
      <4>3. {b \in answered' : b.from \in Sources} = {b \in answered : b.from \in Sources}
        BY <3>1, <4>1
      <4>4. {b \in answered' : b.from \in Sources /\ IsExternal(b.from)}
              = {b \in answered : b.from \in Sources /\ IsExternal(b.from)}
        BY <3>1, <4>1
      <4>5. QED  BY <3>2, <4>2, <4>3, <4>4 DEF Accounts
    <3>3. CASE /\ a.from \in Sources /\ Worked(a.from, a)
               /\ external' = IF IsExternal(a.from) THEN external \cup {a.name} ELSE external
               /\ \E h : /\ hardware' = hardware \cup {h}
                         /\ h.name = a.name /\ h.site = a.site /\ h.source = a.from
      <4>1. DOMAIN devices' = {"can", "serial"}
        BY <3>3 DEF Worked, Accounts
      <4>2. ASSUME NEW d \in {"can", "serial"}
            PROVE  devices'[d] = GivenBy(d, answered')
        <5>1. CASE DeviceOf(a.from) = d
          <6>1. {b \in answered' : DeviceOf(b.from) = d} = {b \in answered : DeviceOf(b.from) = d} \cup {a}
            BY <3>1, <5>1
          <6>2. GivenBy(d, answered') = GivenBy(d, answered) \cup {<<a.name, a.site>>}
            BY <6>1 DEF GivenBy
          <6>3. devices'[d] = devices[d] \cup {<<a.name, a.site>>}
            BY <3>3, <5>1 DEF Worked, Accounts
          <6>4. QED  BY <6>2, <6>3 DEF Accounts
        <5>2. CASE DeviceOf(a.from) # d
          <6>1. {b \in answered' : DeviceOf(b.from) = d} = {b \in answered : DeviceOf(b.from) = d}
            BY <3>1, <5>2
          <6>2. devices'[d] = devices[d]
            BY <3>3, <5>2 DEF Worked, Accounts
          <6>3. QED  BY <6>1, <6>2 DEF Accounts, GivenBy
        <5>3. QED  BY <5>1, <5>2
      <4>5. external' = {x.name : x \in {b \in answered' : b.from \in Sources /\ IsExternal(b.from)}}
        <5>1. CASE IsExternal(a.from)
          <6>1. {b \in answered' : b.from \in Sources /\ IsExternal(b.from)}
                  = {b \in answered : b.from \in Sources /\ IsExternal(b.from)} \cup {a}
            BY <3>1, <3>3, <5>1
          <6>2. QED  BY <3>3, <5>1, <6>1 DEF Accounts
        <5>2. CASE ~ IsExternal(a.from)
          <6>1. {b \in answered' : b.from \in Sources /\ IsExternal(b.from)}
                  = {b \in answered : b.from \in Sources /\ IsExternal(b.from)}
            BY <3>1, <5>2
          <6>2. QED  BY <3>3, <5>2, <6>1 DEF Accounts
        <5>3. QED  BY <5>1, <5>2
      <4>6. {<<h.name, h.site, h.source>> : h \in hardware'}
              = {<<b.name, b.site, b.from>> : b \in {b \in answered' : b.from \in Sources}}
        <5>1. PICK h : hardware' = hardware \cup {h} /\ h.name = a.name /\ h.site = a.site /\ h.source = a.from
          BY <3>3
        <5>2. {b \in answered' : b.from \in Sources} = {b \in answered : b.from \in Sources} \cup {a}
          BY <3>1, <3>3
        <5>3. {<<g.name, g.site, g.source>> : g \in hardware'}
                = {<<g.name, g.site, g.source>> : g \in hardware} \cup {<<a.name, a.site, a.from>>}
          BY <5>1
        <5>4. {<<b.name, b.site, b.from>> : b \in {b \in answered' : b.from \in Sources}}
                = {<<b.name, b.site, b.from>> : b \in {b \in answered : b.from \in Sources}} \cup {<<a.name, a.site, a.from>>}
          BY <5>2
        <5>5. QED  BY <5>3, <5>4 DEF Accounts
      <4>7. QED  BY <4>1, <4>2, <4>5, <4>6 DEF Accounts
    <3>4. QED  BY <3>1, <3>2, <3>3
  <2>4. QED  BY <2>2, <2>3
<1>3. CASE Declare \/ SkipBranch \/ BeginScript \/ EndScript \/ NextTick
  BY <1>1, <1>3 DEF Declare, SkipBranch, Advance, BeginScript, EndScript, NextTick, trace
<1>4. QED  BY <1>1, <1>2, <1>3 DEF Next, vars, trace

\* A name is flagged exactly when an answer under it came from outside, the
\* provenance is that of the answers (trace.external and trace.hardware of
\* builtins/io_stub.rs, complete, and of the adapter's own path in mod.rs), and a
\* virtual device has handled exactly the calls it answered, none that another
\* route owns: for every project, every scenario and adapter, and every number of
\* ticks.
THEOREM TraceAlwaysAccounts == Spec => []TraceAccountsForAnswers
<1>1. Init => Accounts
  <2>1. ASSUME Init PROVE Accounts
    <3>1. answered = {} /\ external = {} /\ hardware = {}
      BY <2>1 DEF Init
    <3>2. DOMAIN devices = {"can", "serial"} /\ \A d \in {"can", "serial"} : devices[d] = {}
      BY <2>1 DEF Init
    <3>3. \A d \in {"can", "serial"} : GivenBy(d, answered) = {}
      BY <3>1 DEF GivenBy
    <3>4. QED  BY <3>1, <3>2, <3>3 DEF Accounts
  <2>2. QED  BY <2>1
<1>2. Accounts /\ [Next]_vars => Accounts'
  BY AccountsStep
<1>3. Accounts => TraceAccountsForAnswers
  <2>1. ASSUME Accounts PROVE TraceAccountsForAnswers
    <3> DEFINE given == {a \in answered : a.from \in Sources}
    <3>1. {b \in given : IsExternal(b.from)} = {b \in answered : b.from \in Sources /\ IsExternal(b.from)}
      OBVIOUS
    <3>2. ASSUME NEW d \in {"can", "serial"}
          PROVE  devices[d] = {<<a.name, a.site>> : a \in {b \in given : DeviceOf(b.from) = d}}
      <4>1. {b \in given : DeviceOf(b.from) = d} = {b \in answered : DeviceOf(b.from) = d}
        BY DEF DeviceOf, Sources
      <4>2. QED  BY <2>1, <4>1 DEF Accounts, GivenBy
    <3>3. QED  BY <2>1, <3>1, <3>2 DEF Accounts, TraceAccountsForAnswers
  <2>2. QED  BY <2>1
<1>4. QED  BY <1>1, <1>2, <1>3, PTL DEF Spec

-----------------------------------------------------------------------------
(* The report *)

\* What the report promises of a call that takes this route to this receiver.
Offered(route, of, m, support) ==
    \/ route = "none" /\ support = "unsupported"
    \/ route = "catalogued_unsupported" /\ support = "unsupported"
    \/ route = "catalogued_adapter" /\ support = "adapter"
    \/ route \in {"library", "object", "function"} /\ support \in {"direct", "modeled"}
    \/ route = "io" /\ support = ClassifyHardware(of.of, m).support
    \/ /\ route = "project_io"
       /\ \/ \E x \in DOMAIN CanModel : of.of = CanModel[x].path /\ support = CanSupport(CanModel[x], m)
          \/ of.of \notin DOMAIN CanModel /\ support = Stubbed(m)
Offers(cap, m) == Offered(cap.route, cap.of, m, cap.support)

\* The fields of a capability.
LEMMA CapabilityFields ==
    ASSUME NEW support, NEW route, NEW of
    PROVE  /\ Capability(support, route, of).support = support
           /\ Capability(support, route, of).route = route
           /\ Capability(support, route, of).of = of
BY DEF Capability

\* The catalogue of a library offers what its routes can give.
LEMMA LibraryOffers ==
    ASSUME NEW o, NEW m
    PROVE  Offers(ClassifyLibrary(o, m), m)
<1>1. ASSUME NEW support, NEW route, NEW of, Offered(route, of, m, support)
      PROVE  Offers(Capability(support, route, of), m)
  BY <1>1, CapabilityFields DEF Offers
<1>2. Offers(Capability("unsupported", "catalogued_unsupported", o), m)
  BY <1>1 DEF Offered
<1>3. Offers(Capability("adapter", "catalogued_adapter", Target("library", o)), m)
  BY <1>1 DEF Offered
<1>4. Offers(Capability("direct", "library", o), m) /\ Offers(Capability("modeled", "library", o), m)
  BY <1>1 DEF Offered
<1>5. Offers(Unsupported, m)
  BY <1>1 DEF Offered, Unsupported
<1>6. Offers(ClassifyHardware(o, m), m)
  <2>1. PICK support : ClassifyHardware(o, m) = Capability(support, "io", Target("library", o))
    BY DEF ClassifyHardware
  <2>2. Target("library", o).of = o /\ ClassifyHardware(o, m).support = support
    BY <2>1, CapabilityFields DEF Target
  <2>3. Offered("io", Target("library", o), m, support)
    BY <2>2 DEF Offered
  <2>4. QED  BY <1>1, <2>1, <2>3
<1>7. \/ ClassifyLibrary(o, m) = Capability("unsupported", "catalogued_unsupported", o)
      \/ ClassifyLibrary(o, m) = Capability("adapter", "catalogued_adapter", Target("library", o))
      \/ ClassifyLibrary(o, m) \in {Capability("direct", "library", o), Capability("modeled", "library", o)}
      \/ ClassifyLibrary(o, m) \in {Unsupported, ClassifyHardware(o, m)}
  BY DEF ClassifyLibrary
<1>8. QED  BY <1>2, <1>3, <1>4, <1>5, <1>6, <1>7

\* So do the objects of a project, and the names that resolve to nothing.
LEMMA ProjectOffers ==
    ASSUME NEW path, NEW m
    PROVE  Offers(ClassifyProjectMethod(path, m), m) /\ Offers(ClassifyUnresolved(path, m), m)
<1>1. ASSUME NEW support, NEW route, NEW of, Offered(route, of, m, support)
      PROVE  Offers(Capability(support, route, of), m)
  BY <1>1, CapabilityFields DEF Offers
<1>2. Offers(Unsupported, m)
  BY <1>1 DEF Offered, Unsupported
<1>3. Offers(Capability("modeled", "object", path), m) /\ Offers(Capability("direct", "object", path), m)
  BY <1>1 DEF Offered
<1>4. path \in DOMAIN CanModel => Offers(ProjectIo(CanSupport(CanModel[path], m), CanModel[path].path), m)
  BY <1>1 DEF Offered, ProjectIo, Target
<1>5. path \notin DOMAIN CanModel =>
         /\ Offers(ProjectIo(Stubbed(m), path), m)
         /\ Offers(Capability(Stubbed(m), "project_io", Target("spelled", path)), m)
  BY <1>1 DEF Offered, ProjectIo, Target
<1>6. \/ ClassifyProjectMethod(path, m) = Unsupported
      \/ ClassifyProjectMethod(path, m) = Capability("modeled", "object", path)
      \/ ClassifyProjectMethod(path, m) = Capability("direct", "object", path)
      \/ path \in DOMAIN CanModel
         /\ ClassifyProjectMethod(path, m) = ProjectIo(CanSupport(CanModel[path], m), CanModel[path].path)
      \/ path \notin DOMAIN CanModel
         /\ ClassifyProjectMethod(path, m) = ProjectIo(Stubbed(m), path)
  BY DEF ClassifyProjectMethod, ClassifyIo
<1>7. Offers(ClassifyProjectMethod(path, m), m)
  BY <1>2, <1>3, <1>4, <1>5, <1>6
<1>8. Offers(ClassifyUnresolved(path, m), m)
  BY <1>4, <1>5 DEF ClassifyUnresolved
<1>9. QED  BY <1>7, <1>8

\* And so does every call, whatever locals are known.
LEMMA CallOffers ==
    ASSUME NEW s, NEW st, NEW known
    PROVE  Offers(ClassifyCall(s, st, known), st.method)
<1> DEFINE m == st.method
           r == st.recv
           whole == Classify(s, <<r, m>>, known)
           t == Classify(s, <<r, "none">>, known)
<1>1. ASSUME NEW support, NEW route, NEW of, Offered(route, of, m, support)
      PROVE  Offers(Capability(support, route, of), m)
  BY <1>1, CapabilityFields DEF Offers
<1>2. Offers(Unsupported, m)
  BY <1>1 DEF Offered, Unsupported
<1>3. \A of : Offers(Capability("direct", "function", of), m) /\ Offers(Capability("direct", "object", of), m)
  BY <1>1 DEF Offered
<1>4. Offers(ClassifyBare(s, r, known), m)
  BY <1>2, <1>3 DEF ClassifyBare
<1>5. Offers(ClassifyMember(s, r, m, known), m)
  <2>1. Offers(ClassifyLibrary(whole.of, m), m) /\ Offers(ClassifyLibrary(t.of, m), m)
    BY LibraryOffers
  <2>2. Offers(ClassifyProjectMethod(t.of, m), m) /\ Offers(ClassifyUnresolved(r, m), m)
    BY ProjectOffers
  <2>3. ClassifyMember(s, r, m, known) \in
          {Capability("direct", "function", whole.of), ClassifyLibrary(whole.of, m), Capability("direct", "object", r),
           Unsupported, ClassifyLibrary(t.of, m), ClassifyProjectMethod(t.of, m), ClassifyUnresolved(r, m)}
    BY DEF ClassifyMember
  <2>4. QED  BY <1>2, <1>3, <2>1, <2>2, <2>3
<1>6. QED  BY <1>4, <1>5 DEF ClassifyCall

\* The scale of the report.
LEMMA Ranks ==
    /\ Rank("direct") = 1 /\ Rank("modeled") = 2 /\ Rank("stubbed") = 3
    /\ Rank("adapter") = 4 /\ Rank("unsupported") = 5
<1>1. DOMAIN Supports = 1..5 /\ Supports[1] = "direct" /\ Supports[2] = "modeled" /\ Supports[3] = "stubbed"
      /\ Supports[4] = "adapter" /\ Supports[5] = "unsupported"
  BY DEF Supports
<1>2. ASSUME NEW k \in 1..5  PROVE Rank(Supports[k]) = k
  <2>1. \A i \in 1..5 : Supports[i] = Supports[k] <=> i = k
    BY <1>1
  <2>2. QED  BY <1>1, <2>1 DEF Rank
<1>3. QED  BY <1>1, <1>2

\* What each source, and each failure, is worth on it.
LEMMA WorthOfAnswers ==
    ASSUME NEW a
    PROVE  /\ a.from \in {"exact", "wildcard", "adapter", "evaluator", "arguments", "adapter_error", "result"} => RankOf(a) = 1
           /\ a.from = "system" => RankOf(a) = 2
           /\ a.from = "stub" => RankOf(a) = 3
           /\ a.from \in {"can", "canrx", "serial", "serialrx", "behaviour", "metadata", "device"} => RankOf(a) = 4
           /\ a.from = "unsupported" => RankOf(a) = 5
           /\ RankOf(a) \in 1..5
BY Ranks DEF RankOf

\* The support of a hardware library, method by method.
LEMMA SupportOfHardware ==
    ASSUME NEW o, NEW m
    PROVE  LET s == ClassifyHardware(o, m).support IN
           /\ s \in {"modeled", "stubbed", "adapter", "unsupported"}
           /\ ~ Known(o, m) => s = "unsupported"
           /\ s = "modeled" => o = "System" /\ m \in ModeledSystem
           /\ Known(o, m) /\ o = "CanComms" => s = IF m \in CanMethods THEN "adapter" ELSE "unsupported"
           /\ Known(o, m) /\ o = "J1939" => s = "adapter"
           /\ Known(o, m) /\ o = "Serial" /\ m \in SerialMethods => s = "adapter"
           /\ Known(o, m) /\ o = "Serial" /\ m \in SerialRefused => s = "unsupported"
           /\ Known(o, m) /\ RequiredMetadata(o, m) => s = "adapter"
<1>1. ~ Known(o, m) => ClassifyHardware(o, m).support = "unsupported"
  BY CapabilityFields DEF ClassifyHardware
<1>2. Known(o, m) => ClassifyHardware(o, m).support =
          CASE o = "CanComms"                    -> IF m \in CanMethods THEN "adapter" ELSE "unsupported"
            [] o = "J1939" /\ m \in J1939Methods -> "adapter"
            [] o = "Serial" /\ m \in SerialMethods -> "adapter"
            [] o = "Serial" /\ m \in SerialRefused -> "unsupported"
            [] o = "System" /\ m \in ModeledSystem -> "modeled"
            [] RequiredMetadata(o, m)            -> "adapter"
            [] OTHER                             -> "stubbed"
  BY CapabilityFields DEF ClassifyHardware
<1>3. SerialMethods \cap SerialRefused = {}
  BY DEF SerialMethods, SerialRefused
<1>4. RequiredMetadata(o, m) => o = "System" /\ m \notin ModeledSystem
  BY DEF RequiredMetadata, ModeledSystem
<1>5. Known(o, m) /\ o = "J1939" => m \in J1939Methods
  BY CapabilityAssumption DEF Known
<1>6. CASE Known(o, m) /\ o \in {"CanComms", "J1939"}
  BY <1>2, <1>4, <1>5, <1>6
<1>7. CASE Known(o, m) /\ o = "Serial"
  BY <1>2, <1>3, <1>4, <1>7
<1>8. CASE Known(o, m) /\ o = "System"
  BY <1>2, <1>4, <1>8
<1>9. CASE Known(o, m) /\ o \notin {"CanComms", "J1939", "Serial", "System"}
  BY <1>2, <1>4, <1>9
<1>10. QED  BY <1>1, <1>6, <1>7, <1>8, <1>9

\* The DBC object a call is made of, if it is of one, and its support.
LEMMA SupportOfProject ==
    ASSUME NEW c, NEW s, c.route = "project_io", Offered(c.route, c.of, c.method, s)
    PROVE  /\ s \in {"stubbed", "adapter", "unsupported"}
           /\ \A x \in CanObject(c) : s = CanSupport(CanModel[x], c.method)
           /\ CanObject(c) = {} => s = Stubbed(c.method)
           /\ Object(c) = "none"
<1>1. \/ \E x \in DOMAIN CanModel : c.of.of = CanModel[x].path /\ s = CanSupport(CanModel[x], c.method)
      \/ c.of.of \notin DOMAIN CanModel /\ s = Stubbed(c.method)
  BY DEF Offered
<1>2. Object(c) = "none"
  BY DEF Object
<1>3. CASE \E x \in DOMAIN CanModel : c.of.of = CanModel[x].path /\ s = CanSupport(CanModel[x], c.method)
  <2>1. PICK x \in DOMAIN CanModel : c.of.of = CanModel[x].path /\ s = CanSupport(CanModel[x], c.method)
    BY <1>3
  <2>2. \A y \in CanObject(c) : CanModel[y] = CanModel[x]
    BY <2>1, CapabilityAssumption DEF CanObject
  <2>3. x \in CanObject(c)
    BY <2>1 DEF CanObject
  <2>4. s \in {"stubbed", "adapter", "unsupported"}
    BY <2>1 DEF CanSupport
  <2>5. QED  BY <1>2, <2>1, <2>2, <2>3, <2>4
<1>4. CASE c.of.of \notin DOMAIN CanModel /\ s = Stubbed(c.method)
  <2>1. CanObject(c) = {}
    BY <1>4, CapabilityAssumption DEF CanObject
  <2>2. QED  BY <1>2, <1>4, <2>1 DEF Stubbed
<1>5. QED  BY <1>1, <1>3, <1>4

\* What is offered is on the scale.
LEMMA SupportIsRanked ==
    ASSUME NEW route, NEW of, NEW m, NEW s, Offered(route, of, m, s)
    PROVE  s \in {"direct", "modeled", "stubbed", "adapter", "unsupported"} /\ Rank(s) \in 1..5
<1>1. s \in {"direct", "modeled", "stubbed", "adapter", "unsupported"}
  <2>1. CASE route = "io"
    BY <2>1, SupportOfHardware DEF Offered
  <2>2. CASE route = "project_io"
    BY <2>2 DEF Offered, CanSupport, Stubbed
  <2>3. CASE route \notin {"io", "project_io"}
    BY <2>3 DEF Offered
  <2>4. QED  BY <2>1, <2>2, <2>3
<1>2. QED  BY <1>1, Ranks

\* However a call ends, it is worth no less than the report offers of its route.
LEMMA NoWorseThanOffered ==
    ASSUME NEW c, NEW s, Offered(c.route, c.of, c.method, s), Handled(c)
    PROVE  RankOf(answer') <= Rank(s)
<1> DEFINE from == answer'.from
<1>1. s \in {"direct", "modeled", "stubbed", "adapter", "unsupported"}
  BY SupportIsRanked
<1>2. Rank(s) \in 1..5
  BY SupportIsRanked
<1>3. ASSUME NEW why, FailWith(c, why)  PROVE from = why
  BY <1>3 DEF FailWith
<1>4. ASSUME NEW x, NEW source, Answered(c, x, source)  PROVE from = source
  BY <1>4 DEF Answered
<1>5. ASSUME NEW x, NEW source, Complete(c, x, source)  PROVE from = source
  BY <1>4, <1>5 DEF Complete
<1>6. ASSUME NEW x, NEW source, CompleteCoerced(c, x, source)  PROVE from \in {source, "result"}
  BY <1>3, <1>5, <1>6 DEF CompleteCoerced, CompleteUnlessFailed
<1>7. CASE from \in {"exact", "wildcard", "adapter", "evaluator", "arguments", "adapter_error", "result"}
  BY <1>2, <1>7, WorthOfAnswers
<1>8. CASE Arguments(c) \/ Override(c) \/ Adapt(c) \/ Compute(c)
  <2>1. Arguments(c) => from = "arguments"
    BY <1>3 DEF Arguments
  <2>2. Override(c) => from \in {"exact", "wildcard", "result"}
    BY <1>6 DEF Override
  <2>3. Adapt(c) => from \in {"adapter_error", "adapter", "result"}
    BY <1>3, <1>6 DEF Adapt
  <2>4. Compute(c) => from = "evaluator"
    BY <1>4 DEF Compute
  <2>5. QED  BY <1>7, <1>8, <2>1, <2>2, <2>3, <2>4
<1>9. CASE VirtualCanCall(c) \/ VirtualSerialCall(c)
  <2>1. from \in {"can", "canrx", "serial", "serialrx", "device"}
    BY <1>3, <1>5, <1>9 DEF VirtualCanCall, VirtualSerialCall, Device
  <2>2. s \in {"adapter", "unsupported"}
    <3>1. CASE c.route = "io"
      <4>1. Object(c) = c.of.of
        BY <3>1 DEF Object
      <4>2. \/ c.of.of = "CanComms" /\ c.method \in CanMethods
            \/ c.of.of = "J1939"
            \/ c.of.of = "Serial" /\ c.method \in SerialMethods
        BY <1>9, <3>1, <4>1 DEF VirtualCanCall, VirtualSerialCall, TakenByCan, TakenBySerial
      <4>3. QED  BY <3>1, <4>2, SupportOfHardware DEF Offered
    <3>2. CASE c.route = "project_io"
      <4>1. PICK x \in CanObject(c) : Handles(CanModel[x], c.method)
        BY <1>9, <3>2, SupportOfProject DEF VirtualCanCall, VirtualSerialCall, TakenByCan, TakenBySerial
      <4>2. s = CanSupport(CanModel[x], c.method)
        BY <3>2, <4>1, SupportOfProject
      <4>3. QED  BY <4>1, <4>2 DEF CanSupport
    <3>3. QED  BY <1>9, <3>1, <3>2 DEF VirtualCanCall, VirtualSerialCall, Left, IsHardware
  <2>3. QED  BY <2>1, <2>2, <1>2, Ranks, WorthOfAnswers
<1>10. CASE DevicesRefuse(c) \/ Unanswered(c)
  <2>1. from = "unsupported"
    BY <1>3, <1>10 DEF DevicesRefuse, Unanswered
  <2>2. s = "unsupported"
    <3>1. CASE c.route = "io"
      <4>1. Object(c) = c.of.of
        BY <3>1 DEF Object
      <4>2. CASE DevicesRefuse(c)
        <5>1. \/ c.of.of = "CanComms" /\ Known("CanComms", c.method) /\ c.method \notin CanMethods
              \/ c.of.of = "J1939" /\ Known("J1939", c.method) /\ c.method \notin J1939Methods
              \/ c.of.of = "Serial" /\ c.method \in SerialRefused
          BY <3>1, <4>1, <4>2 DEF DevicesRefuse, TakenByCan, RefusedByCan, RefusedBySerial
        <5>2. ~ (Known("J1939", c.method) /\ c.method \notin J1939Methods)
          BY CapabilityAssumption DEF Known
        <5>3. QED  BY <3>1, <5>1, <5>2, SupportOfHardware DEF Offered
      <4>3. CASE Unanswered(c)
        <5>1. ~ Known(c.of.of, c.method)
          BY <3>1, <4>1, <4>3 DEF Unanswered, Documented
        <5>2. QED  BY <3>1, <5>1, SupportOfHardware DEF Offered
      <4>4. QED  BY <1>10, <4>2, <4>3
    <3>2. CASE c.route = "project_io"
      <4>1. CASE DevicesRefuse(c)
        <5>1. \E x \in CanObject(c) : ~ StubsSignal(CanModel[x], c.method) /\ ~ Handles(CanModel[x], c.method)
          BY <3>2, <4>1, SupportOfProject DEF DevicesRefuse, TakenByCan, RefusedByCan, RefusedBySerial
        <5>2. QED  BY <3>2, <5>1, SupportOfProject DEF CanSupport
      <4>2. CASE Unanswered(c)
        <5>1. c.method \notin StubMethods
          BY <3>2, <4>2 DEF Unanswered, Documented
        <5>2. \A x \in CanObject(c) : StubsSignal(CanModel[x], c.method)
          BY <3>2, <4>2 DEF Unanswered, ElsewhereAnswered, RefusedByCan
        <5>3. CanObject(c) = {}
          BY <5>1, <5>2 DEF StubsSignal, StubMethods
        <5>4. QED  BY <3>2, <5>1, <5>3, SupportOfProject DEF Stubbed
      <4>3. QED  BY <1>10, <4>1, <4>2
    <3>3. QED  BY <1>10, <3>1, <3>2 DEF DevicesRefuse, Unanswered, Left, IsHardware
  <2>3. QED  BY <2>1, <2>2, Ranks, WorthOfAnswers
<1>11. CASE SystemCall(c)
  <2>1. from \in {"system", "arguments"}
    BY <1>3, <1>5, <1>11 DEF SystemCall, CompleteModelled
  <2>2. c.route = "io"
    BY <1>11 DEF SystemCall, Modelled, Object
  <2>3. s \in {"modeled", "stubbed", "adapter", "unsupported"}
    BY <2>2, SupportOfHardware DEF Offered
  <2>4. QED  BY <1>7, <2>1, <2>3, Ranks, WorthOfAnswers
<1>12. CASE MissingMetadata(c)
  <2>1. from = "metadata" /\ c.route = "io" /\ RequiredMetadata(c.of.of, c.method)
    BY <1>3, <1>12 DEF MissingMetadata, RequiredMetadata, Object
  <2>2. s \in {"adapter", "unsupported"}
    BY <2>1, SupportOfHardware DEF Offered
  <2>3. QED  BY <2>1, <2>2, Ranks, WorthOfAnswers
<1>13. CASE Stub(c)
  <2>1. from = "stub"
    BY <1>5, <1>13 DEF Stub
  <2>2. s \in {"stubbed", "adapter", "unsupported"}
    <3>1. CASE c.route = "io"
      <4>1. ~ (c.of.of = "System" /\ c.method \in ModeledSystem)
        BY <1>13, <3>1 DEF Stub, ElsewhereAnswered, Modelled, Object
      <4>2. QED  BY <3>1, <4>1, SupportOfHardware DEF Offered
    <3>2. CASE c.route = "project_io"
      BY <3>2, SupportOfProject
    <3>3. QED  BY <1>13, <3>1, <3>2 DEF Stub, Left, IsHardware
  <2>3. QED  BY <2>1, <2>2, Ranks, WorthOfAnswers
<1>14. CASE AskAdapterOnly(c)
  <2>1. from \in {"arguments", "behaviour", "adapter_error", "result", "adapter"}
    BY <1>3, <1>4, <1>14 DEF AskAdapterOnly
  <2>2. s = "adapter"
    BY <1>14 DEF AskAdapterOnly, Offered
  <2>3. QED  BY <1>7, <2>1, <2>2, Ranks, WorthOfAnswers
<1>15. CASE RefuseCatalogued(c) \/ RefuseCall(c)
  <2>1. from = "unsupported"
    BY <1>3, <1>15 DEF RefuseCatalogued, RefuseCall
  <2>2. s = "unsupported"
    BY <1>15 DEF RefuseCatalogued, RefuseCall, Offered
  <2>3. QED  BY <2>1, <2>2, Ranks, WorthOfAnswers
<1>16. QED  BY <1>8, <1>9, <1>10, <1>11, <1>12, <1>13, <1>14, <1>15 DEF Handled

\* The report has a line for every call, no better than the call's own support.
LEMMA LineOfCall ==
    ASSUME NEW i \in DOMAIN Scripts, NEW j \in DOMAIN Body[Scripts[i]], Body[Scripts[i]][j].k = "call"
    PROVE  \E line \in Report : /\ line.name = NameOf(Body[Scripts[i]][j])
                                /\ line.rank \in 1..5 /\ SupportAt(Scripts[i], j) \in 1..line.rank
<1> DEFINE n == NameOf(Body[Scripts[i]][j])
           R == {SupportAt(c[1], c[2]) : c \in Occurrences(n)}
<1>1. <<Scripts[i], j>> \in Calls
  BY DEF Calls, ToSet
<1>2. <<Scripts[i], j>> \in Occurrences(n) /\ n \in Lines
  BY <1>1 DEF Occurrences, Lines
<1>3. SupportAt(Scripts[i], j) \in R
  BY <1>2
<1>4. \A x \in R : x \in 1..5
  BY CallOffers, SupportIsRanked DEF SupportAt, Offers
<1>5. PICK line : line = [name |-> n, rank |-> Max(R)]
  OBVIOUS
<1>6. line \in Report
  BY <1>2, <1>5 DEF Report
<1> HIDE DEF R
<1>7. \E x \in R : \A y \in R : x >= y
  <2>1. PICK x \in R : \/ x = 5
                       \/ x = 4 /\ 5 \notin R
                       \/ x = 3 /\ 5 \notin R /\ 4 \notin R
                       \/ x = 2 /\ 5 \notin R /\ 4 \notin R /\ 3 \notin R
                       \/ x = 1 /\ 5 \notin R /\ 4 \notin R /\ 3 \notin R /\ 2 \notin R
    BY <1>3, <1>4
  <2>2. \A y \in R : x >= y
    BY <1>4, <2>1
  <2>3. QED  BY <2>2
<1>8. \A y \in R : Max(R) >= y
  BY <1>7 DEF Max
<1>9. Max(R) \in R
  BY <1>7 DEF Max
<1>10. QED  BY <1>3, <1>4, <1>5, <1>6, <1>8, <1>9

\* Every call is worth what its line in the report says.
LEMMA ReportStep ==
    ASSUME Sane, ReportHolds, [Next]_vars
    PROVE  ReportHolds'
<1>1. CASE UNCHANGED vars
  <2>1. UNCHANGED <<answer, locals, queue, pc>>
    BY <1>1 DEF vars
  <2>2. QED  BY <2>1 DEF ReportHolds, Stray, Script, Promised, RankOf
<1>2. CASE answer' = NoAnswer
  BY <1>2 DEF ReportHolds
<1>3. CASE Call
  <2>1. PICK c \in Pending : Handled(c)
    BY <1>3 DEF Call, Handled
  <2>2. Ends(c)
    BY <2>1, HandlersEnd
  <2>3. PICK i \in queue, j \in Nat :
             /\ i = Min(queue) /\ j = pc /\ j > 0 /\ j \in DOMAIN Body[Scripts[i]]
             /\ Body[Scripts[i]][j].k = "call"
             /\ c.site = <<Scripts[i], Body[Scripts[i]][j].at>>
             /\ c.name = NameOf(Body[Scripts[i]][j])
             /\ c.method = Body[Scripts[i]][j].method
             /\ c.route = ClassifyCall(Scripts[i], Body[Scripts[i]][j], locals).route
             /\ c.of = ClassifyCall(Scripts[i], Body[Scripts[i]][j], locals).of
    BY PendingIsMade
  <2>4. answer'.name = c.name /\ UNCHANGED <<queue, locals>> /\ pc' \in {j, j + 1}
    <3>1. CASE \E why \in Failures : FailWith(c, why)
      <4>1. answer'.name = c.name /\ UNCHANGED <<queue, locals, pc>>
        BY <3>1 DEF FailWith
      <4>2. QED  BY <2>3, <4>1
    <3>2. CASE ~ \E why \in Failures : FailWith(c, why)
      <4>1. pc' = pc + 1 /\ UNCHANGED <<queue, locals>>
        BY <2>2, <3>2, AnswersAreNoted
      <4>2. answer'.name = c.name
        BY <2>2, <3>2 DEF Ends, Completed, Complete, Answered
      <4>3. QED  BY <2>3, <4>1, <4>2
    <3>3. QED  BY <3>1, <3>2
  <2> DEFINE st == Body[Scripts[i]][j]
             s == Scripts[i]
  <2>5. ASSUME answer'.name[1] \notin Stray'  PROVE Promised(answer')
    <3>1. st.recv \in locals => st.recv \in DeclaredAbove(s, j)
      <4>1. answer'.name[1] = st.recv
        BY <2>3, <2>4 DEF NameOf
      <4>2. Script' = s
        BY <2>3, <2>4 DEF Script
      <4>3. ASSUME NEW k \in 1..(pc' - 1), Body[s][k].k = "local"
            PROVE  k \in 1..(j - 1)
        <5>1. k # j
          BY <2>3, <4>3
        <5>2. CASE pc' = j
          BY <4>3, <5>2
        <5>3. CASE pc' = j + 1
          <6>1. k \in 1..j
            BY <2>3, <4>3, <5>3
          <6>2. QED  BY <2>3, <5>1, <6>1
        <5>4. QED  BY <2>4, <5>2, <5>3
      <4>4. {Body[s][k].name : k \in {n \in 1..(pc' - 1) : Body[s][n].k = "local"}} \subseteq DeclaredAbove(s, j)
        BY <4>3 DEF DeclaredAbove
      <4>5. QED  BY <2>4, <2>5, <4>1, <4>2, <4>4 DEF Stray
    <3>2. PICK line \in Report : line.name = NameOf(st) /\ line.rank \in 1..5 /\ SupportAt(s, j) \in 1..line.rank
      BY <2>3, LineOfCall DEF Sane
    <3>3. PICK actual : actual = ClassifyCall(s, st, locals)
      OBVIOUS
    <3>4. PICK told : told = ClassifyCall(s, st, DeclaredAbove(s, j))
      OBVIOUS
    <3>5. told = actual \/ told = Unsupported
      BY <3>1, <3>3, <3>4, LocalsHide
    <3>6. Offered(c.route, c.of, c.method, actual.support)
      BY <2>3, <3>3, CallOffers DEF Offers
    <3>7. RankOf(answer') <= Rank(actual.support)
      BY <2>1, <3>6, NoWorseThanOffered
    <3>8. RankOf(answer') <= SupportAt(s, j)
      <4>1. CASE told = actual
        BY <3>4, <3>7, <4>1 DEF SupportAt
      <4>2. CASE told = Unsupported
        <5>1. SupportAt(s, j) = 5
          BY <3>4, <4>2, Ranks, CapabilityFields DEF SupportAt, Unsupported
        <5>2. Rank(actual.support) \in 1..5
          BY <3>6, SupportIsRanked
        <5>3. RankOf(answer') \in 1..5
          BY WorthOfAnswers
        <5>4. QED  BY <3>7, <5>1, <5>2, <5>3
      <4>3. QED  BY <3>5, <4>1, <4>2
    <3>9. RankOf(answer') \in 1..5
      BY WorthOfAnswers
    <3>10. RankOf(answer') <= line.rank
      BY <3>2, <3>8, <3>9
    <3>11. QED  BY <2>3, <2>4, <3>2, <3>10 DEF Promised
  <2>6. QED  BY <2>5 DEF ReportHolds
<1>4. CASE Declare \/ SkipBranch \/ EndScript
  BY <1>2, <1>4 DEF Declare, SkipBranch, Advance, EndScript
<1>5. CASE BeginScript \/ NextTick
  <2>1. answer' = NoAnswer
    BY <1>5 DEF BeginScript, NextTick, Sane
  <2>2. QED  BY <1>2, <2>1
<1>6. QED  BY <1>1, <1>2, <1>3, <1>4, <1>5 DEF Next

\* No call turns out worse than its line in the report, in whichever script and
\* after whichever branches it is made, unless a local that another script has
\* left hides its receiver (builtins/mod.rs: "Runtime dispatch and coverage both
\* consume this classification"): for every catalogue, project and scenario.
THEOREM ReportAlwaysHolds == Spec => []ReportHolds
<1>1. Init => Sane /\ ReportHolds
  BY DEF Init, Sane, ReportHolds
<1>2. Sane /\ ReportHolds /\ [Next]_vars => (Sane /\ ReportHolds)'
  BY SaneStep, ReportStep
<1>3. QED  BY <1>1, <1>2, PTL DEF Spec

=============================================================================
