------------------------------ MODULE Hardware ------------------------------
(***************************************************************************)
(* The calls scripts make of the outside world (builtins/mod.rs,           *)
(* builtins/io_stub.rs, hardware.rs): which of the scenario's overrides,   *)
(* the attached adapter, the virtual devices, the System model and the     *)
(* stubs answers a call, what the trace says of it, and the clock each     *)
(* occurrence of System.ElapsedTime keeps.                                 *)
(*                                                                         *)
(* A script is a sequence of declarations and calls. What the virtual      *)
(* devices do inside is the subject of VirtualCan and VirtualSerial: here  *)
(* they answer, from scenario data or not, or fail. Calls that concern no  *)
(* hardware are computed by the evaluator.                                 *)
(***************************************************************************)
EXTENDS Capability, Values

LOCAL INSTANCE SequencesExt

CONSTANTS Worlds,     \* pairs of a scenario's overrides [exact, wild] and of what an
                      \* adapter may answer, [canonical name -> value]
          Startup,    \* scripts run once, before the grid opens
          Every,      \* [script -> its period in base ticks]
          MaxTick     \* bound on the base ticks

\* A script has one place in the order, and a call its own place in the script.
ASSUME HardwareAssumption ==
    /\ MaxTick \in Nat
    /\ Len(Scripts) \in Nat /\ DOMAIN Scripts = 1..Len(Scripts)
    /\ \A i, j \in DOMAIN Scripts : Scripts[i] = Scripts[j] => i = j
    /\ \A i \in DOMAIN Scripts :
          LET body == Body[Scripts[i]] IN
          /\ Len(body) \in Nat /\ DOMAIN body = 1..Len(body)
          /\ \A j, k \in DOMAIN body :
                (body[j].k = "call" /\ body[k].k = "call" /\ body[j].at = body[k].at) => j = k

VARIABLES overrides, adapter,  \* chosen once
          phase, tick,         \* EvalTime
          queue, pc,           \* scripts left in this tick, by place; statement of the first
          locals,              \* names in Env.locals
          elapsed,             \* StateStore: [site of ElapsedTime -> elapsed_s]
          external, hardware,  \* the trace: external names and provenance
          devices,             \* [virtual device -> names and sites of the calls it has handled]
          answer,              \* the last answer
          answered             \* history: every answer
world == <<overrides, adapter>>
time  == <<phase, tick>>
trace == <<external, hardware>>
vars  == <<world, time, queue, pc, locals, elapsed, trace, devices, answer, answered>>

Sources    == {"exact", "wildcard", "adapter", "can", "canrx", "serial", "serialrx", "system", "stub"}
IsExternal(source) == source \in Sources \ {"system", "serial", "can"}
NoAnswer   == [from |-> "none"]

Script == Scripts[Min(queue)]
Stmt   == Body[Script][pc]
\* A failed call ends the run.
Failures == {"unsupported", "behaviour", "metadata", "arguments", "adapter_error", "result", "device"}
Failed   == answer.from \in Failures
Within   == pc > 0 /\ pc <= Len(Body[Script]) /\ ~Failed
At(k)    == Within /\ Stmt.k = k

\* The call to be executed, if the statement is one, with its route.
CallOf(st, capability) == [name |-> NameOf(st), method |-> st.method, args |-> st.args,
    site |-> <<Script, st.at>>, route |-> capability.route, of |-> capability.of]
Pending == IF At("call") THEN {CallOf(Stmt, ClassifyCall(Script, Stmt, locals))} ELSE {}
IsHardware(c)    == c.route \in {"io", "project_io"}
CanonicalName(c) == <<c.of.of, c.method>>

\* A failed call leaves everything as it was.
FailWith(c, why) ==
    /\ answer' = [from |-> why, name |-> c.name, site |-> c.site, value |-> Fail]
    /\ UNCHANGED <<world, time, queue, pc, locals, elapsed, trace, devices, answered>>

\* The history keeps the tick of the calls whose timing a property is about.
Noted(c) == IF c.method = "ElapsedTime" THEN tick ELSE 0
Answered(c, x, source) ==
    /\ answer' = [from |-> source, name |-> c.name, site |-> c.site, value |-> x]
    /\ answered' = answered \cup {[from |-> source, name |-> c.name, site |-> c.site, at |-> Noted(c)]}
    /\ pc' = pc + 1
    /\ UNCHANGED <<world, time, queue, locals>>

-----------------------------------------------------------------------------
(* Families *)

Overloads(c)     == ToSet(Catalogue[c.of.of][c.method])
ArityMatches(c)  == \E v \in Overloads(c) : Len(v.params) = Len(c.args)

\* library_return_type, project_return_type
LibraryReturn(c) == IF Known(c.of.of, c.method) THEN Catalogue[c.of.of][c.method][1].returns ELSE "none"
ProjectReturn(c) ==
    CASE c.method \in {"TxOpen", "GetUnsignedInteger"} -> "uint"
      [] c.method = "GetInteger"                       -> "int"
      [] c.method \in {"GetScaled", "GetFloat"}        -> "float"
      [] c.method \in {"Receive", "GetBit"}            -> "bool"
      [] OTHER -> IF c.method \in StubMethods THEN "void" ELSE "none"
Returns(c) == IF c.route = "io" THEN LibraryReturn(c) ELSE ProjectReturn(c)

CoerceHardware(x, returns) ==
    CASE returns = "handle"        -> CoerceScalar(x, "uint")
      [] returns \in Numeric       -> CoerceScalar(x, returns)
      [] returns \in {"bool", "str"} -> Coerce(x, returns)
      [] returns = "void"          -> True
      [] OTHER                     -> x

\* typed_io_default, project_stub
DefaultFor(returns) ==
    CASE returns = "handle"                        -> Val("uint", 0)
      [] returns \in Numeric \cup {"bool", "str"}  -> Val(returns, 0)
      [] OTHER                                     -> True

-----------------------------------------------------------------------------
(* complete *)

Trace(c, source) ==
    /\ external' = IF IsExternal(source) THEN external \cup {c.name} ELSE external
    /\ hardware' = hardware \cup {[receiver |-> c.of, name |-> c.name, site |-> c.site, source |-> source]}

\* The clock of a site restarts.
Restarted(site) == [s \in DOMAIN elapsed \cup {site} |-> IF s = site THEN tick ELSE elapsed[s]]

(* Mutant: only the model's own answers restart the clock of their site.      *)
CompleteInModel(c, x, source) ==
    /\ elapsed' = IF CanonicalName(c) = <<"System", "ElapsedTime">> /\ source = "system"
                  THEN Restarted(c.site) ELSE elapsed
    /\ Trace(c, source) /\ Answered(c, x, source)

Complete(c, x, source) ==
    /\ elapsed' = IF CanonicalName(c) = <<"System", "ElapsedTime">> THEN Restarted(c.site) ELSE elapsed
    /\ Trace(c, source) /\ Answered(c, x, source)

CompleteUnlessFailed(c, x, source) == IF x = Fail THEN FailWith(c, "result") ELSE Complete(c, x, source)
CompleteCoerced(c, x, source) == CompleteUnlessFailed(c, CoerceHardware(x, Returns(c)), source)

-----------------------------------------------------------------------------
(* The routes, in the order in which they are tried *)

\* A catalogued library method is checked for the number of its arguments.
Admitted(c) == c.route = "io" /\ Known(c.of.of, c.method) => ArityMatches(c)
Arguments(c) == IsHardware(c) /\ ~Admitted(c) /\ FailWith(c, "arguments")

\* scenario_override: both names at the exact site before either wildcard, and
\* the canonical name before the one in the script.
Keys(c)       == <<CanonicalName(c), c.name>>
Exact1(c)     == {i \in 1..2 : <<Keys(c)[i], c.site>> \in DOMAIN overrides.exact}
Wild(c)       == {i \in 1..2 : Keys(c)[i] \in DOMAIN overrides.wild}
Overridden(c) == Exact1(c) \cup Wild(c) # {}
Override(c) ==
    /\ IsHardware(c) /\ Admitted(c) /\ Overridden(c)
    /\ IF Exact1(c) # {} THEN CompleteCoerced(c, overrides.exact[<<Keys(c)[Min(Exact1(c))], c.site>>], "exact")
       ELSE CompleteCoerced(c, overrides.wild[Keys(c)[Min(Wild(c))]], "wildcard")
    /\ UNCHANGED devices

\* An adapter may handle a call now and decline it the next time.
Adapted(c) == CanonicalName(c) \in DOMAIN adapter
(* Mutant: a call to an object is passed on to the virtual device as well.    *)
AdaptAndPassOn(c) ==
    /\ IsHardware(c) /\ Admitted(c) /\ ~Overridden(c) /\ Adapted(c)
    /\ LET x == adapter[CanonicalName(c)] IN
       IF x = Fail THEN FailWith(c, "adapter_error") ELSE CompleteCoerced(c, x, "adapter")
    /\ devices' = IF c.route = "project_io" THEN [devices EXCEPT !["can"] = @ \cup {<<c.name, c.site>>}] ELSE devices

Adapt(c) ==
    /\ IsHardware(c) /\ Admitted(c) /\ ~Overridden(c) /\ Adapted(c)
    /\ LET x == adapter[CanonicalName(c)] IN
       IF x = Fail THEN FailWith(c, "adapter_error") ELSE CompleteCoerced(c, x, "adapter")
    /\ UNCHANGED devices

\* What is left to the evaluator itself.
Left(c) == IsHardware(c) /\ Admitted(c) /\ ~Overridden(c)
Object(c)    == IF c.route = "io" THEN c.of.of ELSE "none"
CanObject(c) == {x \in DOMAIN CanModel : CanModel[x].path = c.of.of}

TakenByCan(c) ==
    \/ Object(c) = "CanComms" /\ c.method \in CanMethods
    \/ Object(c) = "J1939" /\ c.method \in J1939Methods
    \/ c.route = "project_io" /\ \E x \in CanObject(c) : Handles(CanModel[x], c.method)
RefusedByCan(c) ==
    \/ Object(c) \in {"CanComms", "J1939"} /\ Known(Object(c), c.method)
    \/ c.route = "project_io" /\ \E x \in CanObject(c) : ~StubsSignal(CanModel[x], c.method)
TakenBySerial(c)   == Object(c) = "Serial" /\ c.method \in SerialMethods
RefusedBySerial(c) == Object(c) = "Serial" /\ c.method \in SerialRefused

\* Methods that hand out nothing of what a device has received.
NoInput == {"Init", "PortInit", "PortDiagnostic", "Open", "Address", "State", "GetHandle", "GetTransmitHandle",
    "RxOpenStandard", "RxOpenExtended", "RxParameterGroup", "RxRegister", "TxOpen", "TxInitialise",
    "TxParameterGroup", "TxRegister", "TxClear", "TxSetUnsignedInteger", "TxTransmit", "TxStandard",
    "TxExtended", "Tx", "Transmit", "Request", "DTC", "DTCRegister", "DTCSetActive", "DTCSetInactive"}
    \cup {"SetBit", "SetFixed7DP", "SetFloat", "SetInteger", "SetScaled", "SetString", "SetUnsignedInteger"}
Device(c, name, inside, outside) ==
    \/ /\ \E source \in {inside} \cup (IF c.method \in NoInput THEN {} ELSE {outside}) :
             Complete(c, DefaultFor(Returns(c)), source)
       /\ devices' = [devices EXCEPT ![name] = @ \cup {<<c.name, c.site>>}]
    \/ FailWith(c, "device")
VirtualCanCall(c)    == Left(c) /\ TakenByCan(c) /\ Device(c, "can", "can", "canrx")
VirtualSerialCall(c) == Left(c) /\ TakenBySerial(c) /\ Device(c, "serial", "serial", "serialrx")
DevicesRefuse(c) ==
    /\ Left(c) /\ ~TakenByCan(c) /\ ~TakenBySerial(c) /\ (RefusedByCan(c) \/ RefusedBySerial(c))
    /\ FailWith(c, "unsupported")

\* system_model and elapsed_time. The clock only reads here; Complete restarts it.
Step == IF phase = "startup" THEN 1 ELSE Every[Script]
ElapsedTime(c) == IF c.site \in DOMAIN elapsed THEN tick - elapsed[c.site] ELSE IF tick = 0 THEN 0 ELSE Step
Argument(c, i) == CoerceScalar(c.args[i], "uint")
Ticks(n) == Val("uint", AsUnsigned(n))
SystemModel(c) ==
    CASE c.method = "ElapsedTime"                          -> Val("float", ElapsedTime(c) * Scale)
      [] c.method \in {"TickPeriod", "HiResTickPeriod"}    -> Val("float", Scale)
      [] c.method \in {"Ticks", "HiResTicks"}              -> Ticks(tick)
      [] c.method \in {"TicksSince", "HiResTicksSince"}    ->
            IF Argument(c, 1) = Fail THEN Fail ELSE Ticks(tick - Argument(c, 1).v)
      [] c.method \in {"TicksBetween", "TicksRemaining"}   ->
            IF Fail \in {Argument(c, 1), Argument(c, 2)} THEN Fail ELSE Ticks(Argument(c, 2).v - Argument(c, 1).v)
Modelled(c) == Object(c) = "System" /\ c.method \in ModeledSystem
CompleteModelled(c, x) == IF x = Fail THEN FailWith(c, "arguments") ELSE Complete(c, x, "system")
SystemCall(c) == Left(c) /\ Modelled(c) /\ CompleteModelled(c, SystemModel(c)) /\ UNCHANGED devices
MissingMetadata(c) == Left(c) /\ RequiredMetadata(Object(c), c.method) /\ FailWith(c, "metadata")

\* documented_stub and typed_io_default of a library, project_stub of an object.
Documented(c) == IF c.route = "io" THEN Known(Object(c), c.method) ELSE c.method \in StubMethods
ElsewhereAnswered(c) == TakenByCan(c) \/ TakenBySerial(c) \/ RefusedByCan(c) \/ RefusedBySerial(c)
                        \/ Modelled(c) \/ RequiredMetadata(Object(c), c.method)
Stub(c) == /\ Left(c) /\ ~ElsewhereAnswered(c) /\ Documented(c)
           /\ Complete(c, DefaultFor(Returns(c)), "stub") /\ UNCHANGED devices
Unanswered(c) == Left(c) /\ ~ElsewhereAnswered(c) /\ ~Documented(c) /\ FailWith(c, "unsupported")

-----------------------------------------------------------------------------
(* Library methods whose contract is not captured *)

\* catalogued_argument_matches
FamilyMatches(x, family) ==
    CASE family \in Integral -> x.fam \in Integral
      [] family = "float"    -> x.fam \in Integral \cup {"float"}
      [] OTHER               -> x.fam = family
SwitchMax == 63
Params(c) == (CHOOSE v \in Overloads(c) : Len(v.params) = Len(c.args)).params
InRange(c) ==
    CASE CanonicalName(c) = <<"MPSE", "PressureRatioFactor">> -> ToFloat(c.args[1]) \in 0..Scale
      [] c.of.of = "Switch"                                   -> c.args[1].v \in 0..SwitchMax
      [] OTHER                                                -> TRUE
Validated(c) == /\ ArityMatches(c)
                /\ \A i \in DOMAIN c.args : FamilyMatches(c.args[i], Params(c)[i])
                /\ InRange(c)
CataloguedResult(c, x) ==
    IF LibraryReturn(c) = "void" THEN True
    ELSE IF FamilyMatches(x, LibraryReturn(c)) THEN CoerceScalar(x, LibraryReturn(c)) ELSE Fail
\* A value of an adapter for such a call goes into the trace by a path of its own.
AskAdapterOnly(c) ==
    /\ c.route = "catalogued_adapter"
    /\ \/ ~Validated(c) /\ FailWith(c, "arguments")
       \/ Validated(c) /\ FailWith(c, "behaviour")
       \/ /\ Validated(c) /\ Adapted(c)
          /\ LET x == adapter[CanonicalName(c)]
                 y == CataloguedResult(c, x)
             IN  CASE x = Fail             -> FailWith(c, "adapter_error")
                   [] x # Fail /\ y = Fail -> FailWith(c, "result")
                   [] OTHER                -> Trace(c, "adapter") /\ Answered(c, y, "adapter") /\ UNCHANGED <<elapsed, devices>>
RefuseCatalogued(c) == c.route = "catalogued_unsupported" /\ FailWith(c, "unsupported")

\* Everything else is computed from what the evaluator has, or unsupported.
Compute(c) == /\ c.route \in {"library", "object", "function"}
              /\ Answered(c, True, "evaluator") /\ UNCHANGED <<elapsed, trace, devices>>
RefuseCall(c) == c.route = "none" /\ FailWith(c, "unsupported")

-----------------------------------------------------------------------------
(* Scripts and time *)

Advance == /\ pc' = pc + 1 /\ answer' = NoAnswer
           /\ UNCHANGED <<world, time, queue, elapsed, trace, devices, answered>>
Declare == At("local") /\ locals' = locals \cup {Stmt.name} /\ Advance
\* A statement in a branch that is not taken does nothing.
SkipBranch == Within /\ Stmt.branch /\ Advance /\ UNCHANGED locals

EndScript == /\ pc > 0 /\ pc > Len(Body[Script])
             /\ queue' = queue \ {Min(queue)} /\ pc' = 0 /\ answer' = NoAnswer
             /\ UNCHANGED <<world, time, locals, elapsed, trace, devices, answered>>
\* The runner starts the next script on the environment as it is.
BeginScript == /\ pc = 0 /\ queue # {} /\ pc' = 1
               /\ UNCHANGED <<world, time, queue, locals, elapsed, trace, devices, answer, answered>>

Due(t) == {i \in DOMAIN Scripts : Scripts[i] \notin Startup /\ t % Every[Scripts[i]] = 0}
NextTick ==
    /\ pc = 0 /\ queue = {} /\ tick < MaxTick
    /\ phase' = "periodic" /\ tick' = IF phase = "startup" THEN 0 ELSE tick + 1
    /\ queue' = Due(tick')
    /\ UNCHANGED <<world, pc, locals, elapsed, trace, devices, answer, answered>>

Init == /\ \E w \in Worlds : overrides = w[1] /\ adapter = w[2]
        /\ phase = "startup" /\ tick = 0
        /\ queue = {i \in DOMAIN Scripts : Scripts[i] \in Startup} /\ pc = 0 /\ locals = {}
        /\ elapsed = <<>> /\ external = {} /\ hardware = {}
        /\ devices = [d \in {"can", "serial"} |-> {}]
        /\ answer = NoAnswer /\ answered = {}

Call == \E c \in Pending :
    \/ Arguments(c) \/ Override(c) \/ Adapt(c) \/ VirtualCanCall(c) \/ VirtualSerialCall(c) \/ DevicesRefuse(c)
    \/ SystemCall(c) \/ MissingMetadata(c) \/ Stub(c) \/ Unanswered(c)
    \/ AskAdapterOnly(c) \/ RefuseCatalogued(c) \/ Compute(c) \/ RefuseCall(c)
Next == Call \/ Declare \/ SkipBranch \/ BeginScript \/ EndScript \/ NextTick
Spec == Init /\ [][Next]_vars
-----------------------------------------------------------------------------
(* Properties *)

\* Whatever route answered the occurrence before, an override or an adapter in
\* between included, System.ElapsedTime spans the time since its last successful
\* execution; a first execution spans one step of its function.
ElapsedSpansExecutions ==
    answer.from = "system" /\ answer.name[2] = "ElapsedTime" =>
        LET before == {a \in answered : a.site = answer.site /\ a.at < tick} IN
        answer.value.v = (IF before # {} THEN tick - Max({a.at : a \in before})
                          ELSE IF tick = 0 THEN 0 ELSE Step) * Scale

\* The virtual device that gives the answers of a source.
DeviceOf(source) == CASE source \in {"can", "canrx"}       -> "can"
                      [] source \in {"serial", "serialrx"} -> "serial"
                      [] OTHER                             -> "none"

\* The answers are accounted for: a name is flagged as externally driven if and
\* only if an answer under it came from outside, the provenance names the source
\* of every hardware answer and nothing else, and each virtual device has handled
\* the calls it answered and no other, none that an override, an adapter, the
\* model or a stub answered among them (docs/virtual-can.md: "A returned value
\* means that route owns the entire call").
TraceAccountsForAnswers ==
    LET given == {a \in answered : a.from \in Sources} IN
    /\ external = {a.name : a \in {b \in given : IsExternal(b.from)}}
    /\ {<<h.name, h.site, h.source>> : h \in hardware} = {<<a.name, a.site, a.from>> : a \in given}
    /\ \A d \in {"can", "serial"} :
          devices[d] = {<<a.name, a.site>> : a \in {b \in given : DeviceOf(b.from) = d}}

\* What an answer is worth on the scale of the report.
RankOf(a) ==
    CASE a.from = "system"                              -> Rank("modeled")
      [] a.from = "stub"                                -> Rank("stubbed")
      [] a.from \in {"can", "canrx", "serial", "serialrx", "behaviour", "metadata", "device"} -> Rank("adapter")
      [] a.from = "unsupported"                         -> Rank("unsupported")
      [] OTHER                                          -> Rank("direct")

\* A line of the report has the name of an answer and is no better than it.
Promised(a) == \E line \in Report : line.name = a.name /\ RankOf(a) <= line.rank

\* builtins/mod.rs: "Runtime dispatch and coverage both consume this
\* classification, so the report describes the route that will actually run":
\* no call turns out worse than the line the report has for its name, in
\* whichever script and after whichever branches it is made.
ReportIsHonest == answer # NoAnswer => Promised(answer)

\* The locals that other scripts have left.
Stray == locals \ {Body[Script][i].name : i \in {j \in 1..(pc - 1) : Body[Script][j].k = "local"}}

\* The same for calls whose names no other script has left a local for.
ReportHolds == answer # NoAnswer /\ answer.name[1] \notin Stray => Promised(answer)
=============================================================================
