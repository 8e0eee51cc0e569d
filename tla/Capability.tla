----------------------------- MODULE Capability -----------------------------
(***************************************************************************)
(* Which route a call takes (the capability model of builtins/mod.rs over  *)
(* ident.rs) and what coverage.rs reports of it. The runtime and the       *)
(* report ask the same operators, each with the locals it knows of.        *)
(*                                                                         *)
(* A name is a pair <<receiver, method>>; the method of a receiver or of a *)
(* bare callee on its own is "none".                                       *)
(* What the type checker makes of a name that is no local is the constant  *)
(* Resolves: names are relative to the group of the script.                *)
(***************************************************************************)
EXTENDS Integers, Sequences, FiniteSets, FiniteSetsExt

LOCAL INSTANCE SequencesExt

CONSTANTS Scripts,      \* in the order in which coverage walks them
          FnOf,         \* [script -> canonical function it backs]
          Resolves,     \* [script -> [name -> target]], of the type checker
          Symbols,      \* [canonical path -> [kind, facts]]
          EnumMembers,  \* receivers that name a member of an enumeration
          Anchored,     \* receivers that begin with the anchor Library
          Catalogue,    \* [library object -> [method -> overloads]]
          CanModel,     \* [canonical path -> [path, role, dir]] of the DBC objects
          Body          \* [script -> sequence of statements]

Target(k, of) == [k |-> k, of |-> of]
Unresolved    == Target("unresolved", "none")

\* classify. A local shadows a name of a single segment only.
Classify(s, name, known) ==
    IF name[2] = "none" /\ name[1] \in known THEN Target("local", name[1])
    ELSE IF name \in DOMAIN Resolves[s] THEN Resolves[s][name] ELSE Unresolved

-----------------------------------------------------------------------------
(* The tables of the capability model *)

CataloguedUnsupported == [Debounce |-> {"Fast", "Verify"},
    Delay |-> {"Signal15", "Signal31", "Signal63", "Signal127", "Signal255", "Signal511", "Signal1023"}]
CataloguedAdapter == [MPSE |-> {"PressureRatioFactor", "Solve", "ThrottleMassFlow"},
    TC |-> {"CO", "TP"}, Switch |-> {"Get", "Set"}]
SupportedPure == [Calculate |-> {"Max", "Min", "Absolute", "Average", "Modulo", "Bias", "PI", "NAN",
        "Infinity", "MaximumFloat", "Floor", "Ceiling", "Power", "FastSquareRoot", "IsNAN", "IsFinite",
        "FastSin", "FastCos", "FastTan", "InverseSin", "InverseCos", "InverseTan", "InverseTan2"},
    Convert |-> {"ToInteger", "ToUnsignedInteger", "ToFixed7DP"},
    Limit |-> {"Range", "Max", "Min"}]
ModeledStateful == [Calculate |-> {"Stable", "Hysteresis", "Between", "Beyond"},
    Filter |-> {"FirstOrder", "Maximum", "Minimum"}, Integral |-> {"Normal"},
    Derivative |-> {"Normal", "Filtered", "Adaptive"}, Delay |-> {"Rising", "Falling", "Stable"},
    Debounce |-> {"Stable", "Filter"}, Change |-> {"By", "Up", "Down", "To", "From", "Either"}]
ModeledMath   == [Math |-> {"atan2", "fabs"}]
ModeledSystem == {"ElapsedTime", "HiResTickPeriod", "HiResTicks", "HiResTicksSince", "TickPeriod",
                  "Ticks", "TicksBetween", "TicksRemaining", "TicksSince"}
HardwareObjects == {"CanComms", "J1939", "Serial", "System", "Logging"}
CanMethods   == {"GetBit", "GetFixed7DP", "GetFloat", "GetID", "GetInteger", "GetLength", "GetTicks",
    "GetUnsignedInteger", "Init", "RxMessage", "RxOpenExtended", "RxOpenStandard", "SetBit", "SetFixed7DP",
    "SetFloat", "SetInteger", "SetUnsignedInteger", "TxExtended", "TxInitialise", "TxOpen", "TxStandard", "XOR8"}
J1939Methods == {"Address", "DTC", "DTCActive", "DTCCount", "DTCRegister", "DTCSetActive", "DTCSetInactive",
    "GetLength", "GetUnsignedInteger", "Open", "Request", "RxParameterGroup", "RxRegister", "RxTicks", "State",
    "TxClear", "TxParameterGroup", "TxRegister", "TxSetUnsignedInteger", "TxTransmit"}
SerialMethods == {"GetFloat", "GetHandle", "GetInteger", "GetTransmitHandle", "GetUnsignedInteger",
    "PortDiagnostic", "PortInit", "Receive", "SetFloat", "SetInteger", "SetString", "SetUnsignedInteger",
    "Sum8", "Transmit", "XOR8"}
SerialRefused == {"GetLinOffset", "LinDump", "SetLinHeader"}
CivilMethods  == {"FromGPS", "FromLocal", "FromUtc", "Timezone"} \cup
    {"ToLocalDay", "ToLocalHour", "ToLocalMinute", "ToLocalMonth", "ToLocalSecond", "ToLocalWeekDay",
     "ToLocalYear", "ToLocalYearDay", "ToUtcDay", "ToUtcHour", "ToUtcMinute", "ToUtcMonth", "ToUtcSecond",
     "ToUtcWeekDay", "ToUtcYear", "ToUtcYearDay"}
StubMethods   == {"Tx", "TxOpen", "TxInitialise", "Init", "SetBit", "SetUnsignedInteger", "SetInteger",
    "SetScaled", "SetFloat", "SetFromBaseUnit", "Set", "GetScaled", "GetFloat", "GetUnsignedInteger",
    "GetInteger", "GetBit", "Receive", "Update", "SetState", "Buzze"}

\* The canonical name of a DBC object is among its aliases (model_project_receiver),
\* and the virtual device has every catalogued method of J1939
\* (library_catalog_matches_coverage_and_runtime_dispatch).
ASSUME CapabilityAssumption ==
    /\ \A x \in DOMAIN CanModel :
          CanModel[x].path \in DOMAIN CanModel /\ CanModel[CanModel[x].path] = CanModel[x]
    /\ "J1939" \in DOMAIN Catalogue => DOMAIN Catalogue["J1939"] \subseteq J1939Methods

Lists(table, o, m) == o \in DOMAIN table /\ m \in table[o]
Known(o, m)        == o \in DOMAIN Catalogue /\ m \in DOMAIN Catalogue[o]
RequiredMetadata(o, m) == o = "System" /\ m \in {"FlashSize", "FlashFree"}

-----------------------------------------------------------------------------
(* Routes. of is the library object, the function or the hardware receiver *)

Capability(support, route, of) == [support |-> support, route |-> route, of |-> of]
Unsupported == Capability("unsupported", "none", "none")

ClassifyHardware(o, m) ==
    LET support ==
          CASE o = "CanComms"                    -> IF m \in CanMethods THEN "adapter" ELSE "unsupported"
            [] o = "J1939" /\ m \in J1939Methods -> "adapter"
            [] o = "Serial" /\ m \in SerialMethods -> "adapter"
            [] o = "Serial" /\ m \in SerialRefused -> "unsupported"
            [] o = "System" /\ m \in ModeledSystem -> "modeled"
            [] RequiredMetadata(o, m)            -> "adapter"
            [] OTHER                             -> "stubbed"
    IN  Capability(IF Known(o, m) THEN support ELSE "unsupported", "io", Target("library", o))

ClassifyLibrary(o, m) ==
    CASE Lists(CataloguedUnsupported, o, m) -> Capability("unsupported", "catalogued_unsupported", o)
      [] Lists(CataloguedAdapter, o, m)     -> Capability("adapter", "catalogued_adapter", Target("library", o))
      [] Lists(SupportedPure, o, m)         -> Capability("direct", "library", o)
      [] Lists(ModeledStateful, o, m)       -> Capability("modeled", "library", o)
      [] Lists(ModeledMath, o, m)           -> Capability("modeled", "library", o)
      [] o = "UnixTime" /\ m \in CivilMethods -> Capability("direct", "library", o)
      [] o \in HardwareObjects              -> ClassifyHardware(o, m)
      [] OTHER                              -> Unsupported

\* model_handles_project_call, model_stubs_project_call
Handles(x, m) ==
    CASE x.role = "module"  -> m = "Init"
      [] x.role = "message" -> \/ m = "Receive" /\ x.dir # "tx"
                               \/ m \in {"Tx", "TxInitialise", "TxOpen"} /\ x.dir # "rx"
      [] x.role = "signal"  ->
            \/ m \in {"GetBit", "GetFloat", "GetInteger", "GetScaled", "GetUnsignedInteger"} /\ x.dir # "tx"
            \/ m \in {"SetBit", "SetFloat", "SetInteger", "SetScaled", "SetUnsignedInteger"} /\ x.dir # "rx"
StubsSignal(x, m) == m = "SetFromBaseUnit" /\ x.role = "signal" /\ x.dir # "rx"
CanSupport(x, m)  == IF Handles(x, m) THEN "adapter" ELSE IF StubsSignal(x, m) THEN "stubbed" ELSE "unsupported"

Stubbed(m) == IF m \in StubMethods THEN "stubbed" ELSE "unsupported"
ProjectIo(support, path) == Capability(support, "project_io", Target("project", path))

\* A receiver that only the DBC model or the stubs know.
ClassifyIo(path, m) ==
    IF path \in DOMAIN CanModel THEN ProjectIo(CanSupport(CanModel[path], m), CanModel[path].path)
    ELSE IF Symbols[path].kind \in {"object", "group", "reference", "other"} THEN ProjectIo(Stubbed(m), path)
    ELSE Unsupported

ClassifyProjectMethod(path, m) ==
    LET sym == Symbols[path] IN
    CASE sym.kind = "table" /\ m = "Lookup"                 -> Capability("modeled", "object", path)
      [] sym.kind = "table" /\ m = "Get"                    -> Capability("direct", "object", path)
      [] m \in {"AsInteger", "AsString"} /\ "enum" \in sym.facts -> Capability("direct", "object", path)
      [] m = "Set" /\ "writable" \in sym.facts              -> Capability("direct", "object", path)
      [] m = "GetUnscheduled"                               ->
            IF "unscheduled" \in sym.facts THEN Capability("direct", "object", path) ELSE Unsupported
      [] m = "Set" /\ "writable" \notin sym.facts
         /\ ( \/ sym.kind \in {"channel", "parameter", "constant", "table"}
              \/ sym.kind = "group" /\ "value" \in sym.facts ) -> Unsupported
      [] m \in {"Validate", "Constrain"} /\ "numeric" \in sym.facts -> Capability("direct", "object", path)
      [] m \in {"Start", "Stop", "Reset", "Remaining"} /\ "timer" \in sym.facts -> Capability("modeled", "object", path)
      [] OTHER                                              -> ClassifyIo(path, m)

ClassifyUnresolved(r, m) ==
    IF r \in DOMAIN CanModel THEN ProjectIo(CanSupport(CanModel[r], m), CanModel[r].path)
    ELSE Capability(Stubbed(m), "project_io", Target("spelled", r))

\* script_backed_user_function
IsUserFunction(s, name, known) ==
    LET t == Classify(s, name, known) IN
    /\ t.k = "symbol" /\ Symbols[t.of].kind \in {"function", "method"}
    /\ \E i \in DOMAIN Scripts : FnOf[Scripts[i]] = t.of

\* classify_member_call: a script first, the whole name before the receiver.
ClassifyMember(s, r, m, known) ==
    LET whole == Classify(s, <<r, m>>, known)
        t     == Classify(s, <<r, "none">>, known)
    IN  IF IsUserFunction(s, <<r, m>>, known) THEN Capability("direct", "function", whole.of)
        ELSE IF whole.k = "builtin" THEN ClassifyLibrary(whole.of, m)
        ELSE IF r \in EnumMembers THEN
            IF m \in {"AsInteger", "AsString"} THEN Capability("direct", "object", r) ELSE Unsupported
        ELSE IF r \in Anchored THEN Unsupported
        ELSE CASE t.k = "builtin"    -> ClassifyLibrary(t.of, m)
               [] t.k = "symbol"     -> ClassifyProjectMethod(t.of, m)
               [] t.k = "unresolved" -> ClassifyUnresolved(r, m)
               [] OTHER              -> Unsupported

ClassifyBare(s, callee, known) ==
    LET name == <<callee, "none">> IN
    IF IsUserFunction(s, name, known) THEN Capability("direct", "function", Classify(s, name, known).of)
    ELSE Unsupported

\* The call statement st of script s; a bare call names no method.
ClassifyCall(s, st, known) ==
    IF st.method = "none" THEN ClassifyBare(s, st.recv, known)
    ELSE ClassifyMember(s, st.recv, st.method, known)
NameOf(st) == <<st.recv, st.method>>

Calls == {c \in UNION {{s} \X DOMAIN Body[s] : s \in ToSet(Scripts)} : Body[c[1]][c[2]].k = "call"}

-----------------------------------------------------------------------------
(* The report of coverage.rs *)

\* From the least to the most that a user has to worry about.
Supports == <<"direct", "modeled", "stubbed", "adapter", "unsupported">>
Rank(support) == CHOOSE i \in DOMAIN Supports : Supports[i] = support

\* The locals the walk knows of at a statement: those declared above it,
\* whether or not the branch they are declared in is taken. A static is none.
DeclaredAbove(s, i) == {Body[s][j].name : j \in {n \in 1..(i - 1) : Body[s][n].k = "local"}}

SupportAt(s, i) == Rank(ClassifyCall(s, Body[s][i], DeclaredAbove(s, i)).support)

\* The calls, in whatever script, that one line of the report stands for.
Occurrences(name) == {c \in Calls : NameOf(Body[c[1]][c[2]]) = name}
Lines == {NameOf(Body[c[1]][c[2]]) : c \in Calls}

(* Mutant: of the occurrences of a name the report keeps the best.            *)
KeepsTheBest == {[name |-> n, rank |-> Min({SupportAt(c[1], c[2]) : c \in Occurrences(n)})] : n \in Lines}

\* analyse_with_triggers keeps the weakest support of the occurrences of a name.
Report == {[name |-> n, rank |-> Max({SupportAt(c[1], c[2]) : c \in Occurrences(n)})] : n \in Lines}
=============================================================================
