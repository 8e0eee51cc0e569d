----------------------------- MODULE MCHardware -----------------------------
(* An instance of Hardware: a startup script and two periodic ones that meet *)
(* every route, calls that fail in a branch that may be skipped.                  *)
EXTENDS Hardware, TLC

MCScripts == <<"boot", "fast", "slow">>
MCFnOf    == [s \in {"boot", "fast", "slow"} |-> s]

Builtin(o) == Target("builtin", o)
Symbol(p)  == Target("symbol", p)
Libraries  == {"System", "CanComms", "J1939", "Serial", "Logging", "Switch", "MPSE", "Debounce", "Calculate", "Vendor"}
On(r, t) == <<r, "none">> :> t
Shared == [n \in {<<o, "none">> : o \in Libraries} |-> Builtin(n[1])]
    @@ On("LibSystem", Builtin("System"))
    @@ On("Speed", Symbol("Speed")) @@ On("Lamp", Symbol("Lamp")) @@ On("Msg", Symbol("Msg"))
\* The same spelling is a function in the group of one script and an object in
\* that of another.
MCResolves ==
    [boot |-> Shared,
     fast |-> Shared @@ (<<"Svc", "Update">> :> Symbol("slow")) @@ On("Update", Symbol("slow")),
     slow |-> Shared @@ On("Svc", Symbol("Lamp"))]

MCSymbols ==
    [boot  |-> [kind |-> "function", facts |-> {}],
     fast  |-> [kind |-> "function", facts |-> {}],
     slow  |-> [kind |-> "method", facts |-> {}],
     Speed |-> [kind |-> "channel", facts |-> {"writable", "unscheduled", "numeric"}],
     Lamp  |-> [kind |-> "object", facts |-> {}],
     Msg   |-> [kind |-> "object", facts |-> {}]]
\* A DBC object is found under its path and under its DBC alias.
MCCanModel ==
    [n \in {"Msg", "DBC.Msg"} |-> [path |-> "DBC.Msg", role |-> "message", dir |-> "rx"]]
    @@ [n \in {"Sig", "DBC.Sig"} |-> [path |-> "DBC.Sig", role |-> "signal", dir |-> "none"]]

Sig(params, returns) == [params |-> params, returns |-> returns]
MCCatalogue ==
    [System   |-> [ElapsedTime |-> <<Sig(<<>>, "float")>>, Ticks |-> <<Sig(<<>>, "uint")>>,
                   TicksSince |-> <<Sig(<<"uint">>, "uint")>>, FlashSize |-> <<Sig(<<>>, "uint")>>,
                   Preserve |-> <<Sig(<<"float">>, "void")>>],
     CanComms |-> [RxMessage |-> <<Sig(<<"handle">>, "bool")>>, Dump |-> <<Sig(<<>>, "void")>>],
     J1939    |-> [Open |-> <<Sig(<<>>, "handle")>>],
     Serial   |-> [PortInit |-> <<Sig(<<"int">>, "void")>>, LinDump |-> <<Sig(<<>>, "void")>>],
     Logging  |-> [Running |-> <<Sig(<<>>, "bool"), Sig(<<"int">>, "bool")>>],
     Switch   |-> [Get |-> <<Sig(<<"int">>, "int")>>, Set |-> <<Sig(<<"int", "int">>, "void")>>],
     MPSE     |-> [PressureRatioFactor |-> <<Sig(<<"float">>, "float")>>],
     Debounce |-> [Fast |-> <<Sig(<<"bool">>, "bool")>>],
     Calculate |-> [Max |-> <<Sig(<<"float", "float">>, "float")>>]]

Do(at, r, m, args)    == [k |-> "call", recv |-> r, method |-> m, args |-> args, at |-> at, branch |-> FALSE]
Maybe(at, r, m, args) == [Do(at, r, m, args) EXCEPT !.branch = TRUE]
Local(name, branch)   == [k |-> "local", name |-> name, branch |-> branch]
I(n) == Val("int", n)

MCBody ==
    [boot |-> <<Do(1, "System", "ElapsedTime", <<>>), Do(2, "Serial", "PortInit", <<I(1)>>),
                Maybe(3, "Serial", "LinDump", <<>>), Maybe(4, "System", "FlashSize", <<>>),
                Maybe(5, "Debounce", "Fast", <<Bool(TRUE)>>), Maybe(6, "CanComms", "Dump", <<>>),
                Maybe(7, "Vendor", "Spin", <<>>), Maybe(8, "Mode.On", "Set", <<>>),
                Maybe(9, "Logging", "Running", <<I(1), I(2)>>), Maybe(10, "Switch", "Get", <<I(64)>>),
                Do(11, "J1939", "Open", <<>>), Do(12, "Sig", "SetFromBaseUnit", <<I(1), I(2)>>),
                Maybe(13, "System", "TicksSince", <<Bool(TRUE)>>)>>,
     fast |-> <<Do(1, "System", "ElapsedTime", <<>>), Do(2, "Update", "none", <<>>),
                Do(3, "Svc", "Update", <<>>), Maybe(4, "Msg", "Receive", <<>>),
                Maybe(5, "Switch", "Get", <<I(3)>>), Do(6, "Speed", "Set", <<I(1)>>)>>,
     slow |-> <<Local("Update", TRUE), Do(1, "LibSystem", "ElapsedTime", <<>>),
                Do(2, "Svc", "Update", <<>>), Maybe(3, "Lamp", "Blink", <<>>), Maybe(4, "Msg", "Tx", <<I(1)>>),
                Do(5, "Mode.On", "AsInteger", <<>>), Maybe(6, "MPSE", "PressureRatioFactor", <<Val("float", 1)>>)>>]

None == [exact |-> <<>>, wild |-> <<>>]
Elapsed == <<"System", "ElapsedTime">>
NoAdapter == <<>>
Bench == (<<"Lamp", "Blink">> :> True) @@ (<<"Switch", "Get">> :> Val("uint", 5)) @@ (Elapsed :> I(1))
Rig   == (<<"MPSE", "PressureRatioFactor">> :> I(1)) @@ (<<"Switch", "Get">> :> True) @@ (<<"Lamp", "Update">> :> Fail)
         @@ (<<"Serial", "PortInit">> :> I(0)) @@ (<<"DBC.Msg", "Tx">> :> I(0))
MCWorlds ==
    {<<None, NoAdapter>>, <<None, Rig>>, <<None, Bench>>,
     <<[None EXCEPT !.exact = (<<Elapsed, <<"fast", 1>>>> :> I(1))], Bench>>,
     <<[exact |-> (<<<<"LibSystem", "ElapsedTime">>, <<"slow", 1>>>> :> I(2)),
        wild  |-> (Elapsed :> I(3)) @@ (<<"DBC.Msg", "Receive">> :> I(0))], Bench>>}
MCEnums == <<>>
MCEvery == [boot |-> 1, fast |-> 1, slow |-> 2]
=============================================================================
