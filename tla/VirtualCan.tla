----------------------------- MODULE VirtualCan -----------------------------
(***************************************************************************)
(* The deterministic CAN adapter (src/virtual_can.rs): raw frames          *)
(* (CanComms), the messages of loaded DBC files, and J1939 parameter       *)
(* groups, over one list of declared frames, one handle counter and one    *)
(* ordered list of transfers.  A refused call ends the run.                *)
(*                                                                         *)
(* Calls that only read the adapter's state are not actions.  The fields   *)
(* of a J1939 name, which only the configuration check compares, and the   *)
(* values a field can be given are left out: a value is its bits.          *)
(***************************************************************************)
EXTENDS CanCodec, Arrivals, SequencesExt

CONSTANTS
  CallSites,
  Configs,       \* per kind of handle: the configurations asked for
  Buses, Bauds,
  Modules,       \* DBC modules
  Bound,         \* module |-> the bus the project binds it to, or None
  Messages,      \* DBC messages
  ModuleOf, Dlc, \* message |-> its module, its length
  Identity,      \* message |-> its identifier and format
  Direction,     \* message |-> "rx", "tx" or "any"
  Signals,       \* records: message, start, width, big
  Identifiers,   \* identifiers of raw transmissions: id and format
  Requests,      \* groups asked for with J1939.Request
  Destinations, Offsets, Widths, Lengths,   \* arguments of calls
  Grain,         \* time units per base tick
  Slack,         \* arrival_base_tick's tolerance, in time units
  LastTick, MaxHandle, MaxCount,            \* u32::MAX and u8::MAX
  Scenarios,     \* the declared frame lists considered
  None

Kinds == {"receive", "transmit", "message", "node", "rxGroup", "txGroup", "dtc"}
Sites == CallSites \X Kinds    \* the key (call site, method)
Bits  == {0, 1}

Addresses == 0..253
AnySource == -1

Frame == [time : Nat, bus : Buses, extended : BOOLEAN, id : Nat,
          bytes : AnyPayload]

LegalConfigs ==
  [receive  |-> [bus : Buses, match : Nat, mask : Nat, extended : BOOLEAN, big : BOOLEAN],
   transmit |-> [big : BOOLEAN],
   message  |-> [message : {m \in Messages : Direction[m] # "rx"}],
   node     |-> [bus : Buses, address : Addresses],
   rxGroup  |-> [pgn : Groups, source : {AnySource} \cup 0..255, limit : 1..FrameBytes],
   txGroup  |-> [pgn : Groups, priority : 0..7, length : 1..FrameBytes],
   dtc      |-> [fault : Nat]]

ASSUME VirtualCanAssumption ==
  /\ \A kind \in Kinds : Configs[kind] \subseteq LegalConfigs[kind]
  /\ None \notin Buses /\ None \notin Bauds
  /\ \A m \in Messages : m \notin Nat
  /\ Bound \in [Modules -> Buses \cup {None}]
  /\ ModuleOf \in [Messages -> Modules]
  /\ Dlc \in [Messages -> 0..FrameBytes]
  /\ Identity \in [Messages -> [id : Nat, extended : BOOLEAN]]
  /\ Direction \in [Messages -> {"rx", "tx", "any"}]
  /\ Signals \subseteq [message : Messages, start : Nat, width : Nat, big : BOOLEAN]
  /\ \A s \in Signals : Within(DbcField(s.start, s.width, s.big), Dlc[s.message])
  /\ Identifiers \subseteq [id : Nat, extended : BOOLEAN]
  /\ Requests \subseteq Groups /\ Destinations \subseteq 0..255
  /\ Offsets \subseteq 0..63 /\ Widths \subseteq 1..32 /\ Lengths \subseteq 0..FrameBytes
  /\ Grain \in Nat \ {0} /\ Slack \in Nat /\ 2 * Slack < Grain
  /\ LastTick \in Nat /\ MaxHandle \in Nat \ {0} /\ MaxCount \in Nat \ {0}
  /\ \A s \in Scenarios :
       s \in Seq(Frame) /\ \A n \in DOMAIN s : s[n].id < IdentifierSpan(s[n].extended)
  /\ None \notin [bus : Buses, extended : BOOLEAN, id : Nat, bytes : AnyPayload]

VARIABLES
  declared,      \* the scenario's rx list
  injections,    \* the same, in time order
  now,           \* base tick of the current call
  buses,         \* initialised bus |-> its baud rate, or None
  modules,       \* initialised DBC module |-> its bus
  siteHandles,   \* site |-> handle
  handles,       \* handle |-> its state, whatever its kind
  nextHandle,
  dbcRx,         \* message |-> cursor and current frame
  transfers,     \* the events the trace records
  writes,        \* history: per handle, the fields set since it was cleared
  phase

lines == <<buses, modules>>
owned == <<siteHandles, nextHandle>>
vars  == <<declared, injections, now, lines, owned, handles, dbcRx, transfers,
           writes, phase>>

Opened == DOMAIN handles

OpenedAs(h, kind) == h \in Opened /\ handles[h].kind = kind

Received == [frame : Frame, tick : Nat]

Reading == [cursor : Nat, current : Received \cup {None}]

HandleStates ==
  [kind : Kinds, config : UNION {Configs[kind] : kind \in Kinds},
   node : 0..(MaxHandle - 1), reading : Reading, bytes : AnyPayload \cup {None},
   active : BOOLEAN, count : 0..MaxCount]

(* Ticks, handle numbers and fault counts stay in their ranges, a handle's *)
(* configuration is one of its kind, and what a reader holds is a frame.   *)
TypeOK ==
  /\ injections \in Seq(Frame)
  /\ now \in 0..LastTick
  /\ DOMAIN buses \subseteq Buses /\ buses \in [DOMAIN buses -> Bauds \cup {None}]
  /\ DOMAIN modules \subseteq Modules /\ modules \in [DOMAIN modules -> Buses]
  /\ nextHandle \in 1..MaxHandle
  /\ Opened \subseteq 1..(MaxHandle - 1)
  /\ handles \in [Opened -> HandleStates]
  /\ \A h \in Opened : handles[h].config \in Configs[handles[h].kind]
  /\ DOMAIN siteHandles \subseteq Sites /\ siteHandles \in [DOMAIN siteHandles -> Opened]
  /\ dbcRx \in [Messages -> Reading]
  /\ phase \in {"running", "failed"}

-----------------------------------------------------------------------------
(* validated_injections: a stable sort by time.                            *)
InTimeOrder(rx) ==
  LET sorted == Sorted(rx, DOMAIN rx)
  IN  [n \in DOMAIN rx |-> rx[sorted[n]]]

Unread == [cursor |-> 0, current |-> None]

Init ==
  /\ declared \in Scenarios
  /\ injections = InTimeOrder(declared)
  /\ now = 0
  /\ buses = <<>> /\ modules = <<>>
  /\ siteHandles = <<>> /\ nextHandle = 1
  /\ handles = <<>>
  /\ dbcRx = [m \in Messages |-> Unread]
  /\ transfers = <<>>
  /\ writes = <<>>
  /\ phase = "running"

Elapse ==
  /\ phase = "running"
  /\ now < LastTick
  /\ now' = now + 1
  /\ UNCHANGED <<declared, injections, lines, owned, handles, dbcRx, transfers,
                 writes, phase>>

-----------------------------------------------------------------------------
(* Buses, modules and handles.                                             *)

Put(f, x, y) == [z \in DOMAIN f \cup {x} |-> IF z = x THEN y ELSE f[z]]

(* initialize_bus without a rate keeps the rate there is.                  *)
Initialised(bus) == IF bus \in DOMAIN buses THEN buses ELSE Put(buses, bus, None)

InitBus(bus, baud) ==
  /\ phase = "running"
  /\ bus \in DOMAIN buses => buses[bus] \in {None, baud}
  /\ buses' = Put(buses, bus, baud)
  /\ UNCHANGED <<declared, injections, now, modules, owned, handles, dbcRx,
                 transfers, writes, phase>>

InitModule(m, bus) ==
  /\ phase = "running"
  /\ Bound[m] \in {None, bus}
  /\ m \in DOMAIN modules => modules[m] = bus
  /\ buses' = Initialised(bus)
  /\ modules' = Put(modules, m, bus)
  /\ UNCHANGED <<declared, injections, now, owned, handles, dbcRx, transfers,
                 writes, phase>>

Fresh(kind, config) ==
  [kind |-> kind, config |-> config, node |-> 0, reading |-> Unread,
   bytes |-> IF kind = "txGroup" THEN Zeros(config.length) ELSE None,
   active |-> FALSE, count |-> 0]

(* open_receive, open_transmit, open_dbc_message, open_j1939_rx, _tx and   *)
(* _dtc, and J1939.Open, which initialises its bus.  A site that has a     *)
(* handle is given it again, if it asks for the same configuration.        *)
Open(site, config) ==
  LET kind  == site[2]
      known == site \in DOMAIN siteHandles
  IN  /\ phase = "running"
      /\ IF known
         THEN /\ handles[siteHandles[site]].config = config
              /\ UNCHANGED <<owned, handles, writes>>
         ELSE /\ nextHandle < MaxHandle
              /\ siteHandles' = Put(siteHandles, site, nextHandle)
              /\ handles' = Put(handles, nextHandle, Fresh(kind, config))
              /\ writes' = Put(writes, nextHandle, <<>>)
              /\ nextHandle' = nextHandle + 1
      /\ buses' = IF kind = "node" THEN Initialised(config.bus) ELSE buses
      /\ UNCHANGED <<declared, injections, now, modules, dbcRx, transfers, phase>>

(* Mutant: the node is not looked up.                                      *)
RegisterUnchecked(h, node) ==
  /\ phase = "running"
  /\ h \in Opened /\ handles[h].kind \in {"rxGroup", "txGroup", "dtc"}
  /\ handles[h].node \in {0, node}
  /\ handles' = [handles EXCEPT ![h].node = node]
  /\ UNCHANGED <<declared, injections, now, lines, owned, dbcRx, transfers,
                 writes, phase>>

(* register_j1939_handle.                                                  *)
Register(h, node) ==
  /\ phase = "running"
  /\ OpenedAs(node, "node")
  /\ h \in Opened /\ handles[h].kind \in {"rxGroup", "txGroup", "dtc"}
  /\ handles[h].node \in {0, node}
  /\ handles' = [handles EXCEPT ![h].node = node]
  /\ UNCHANGED <<declared, injections, now, lines, owned, dbcRx, transfers,
                 writes, phase>>

Registered(h, kind, node) == OpenedAs(h, kind) /\ node # 0 /\ handles[h].node = node

DTCSetActive(h, node) ==
  /\ phase = "running"
  /\ Registered(h, "dtc", node)
  /\ handles' = [handles EXCEPT
        ![h].active = TRUE,
        ![h].count  = IF handles[h].active \/ @ = MaxCount THEN @ ELSE @ + 1]
  /\ UNCHANGED <<declared, injections, now, lines, owned, dbcRx, transfers,
                 writes, phase>>

DTCSetInactive(h, node) ==
  /\ phase = "running"
  /\ Registered(h, "dtc", node)
  /\ handles' = [handles EXCEPT ![h].active = FALSE]
  /\ UNCHANGED <<declared, injections, now, lines, owned, dbcRx, transfers,
                 writes, phase>>

-----------------------------------------------------------------------------
(* Reception.  A reader is a receive handle, the handle of a registered    *)
(* J1939 group, or a DBC message.                                          *)

MessageConfig(m) ==
  [bus |-> modules[ModuleOf[m]], match |-> Identity[m].id, mask |-> 0,
   extended |-> Identity[m].extended, big |-> FALSE]

MatchesConfig(f, config) ==
  /\ f.bus = config.bus /\ f.extended = config.extended
  /\ Accepts(config.match, config.mask, config.extended, f.id)

MatchesGroup(f, node, group) ==
  LET of == DecodeIdentifier(f.id)
  IN  /\ f.bus = node.bus /\ f.extended
      /\ of.pgn = group.pgn
      /\ of.destination \in {Everyone, Broadcast, node.address}
      /\ group.source \in {AnySource, of.source}

NodeOf(h) == handles[handles[h].node].config

Hears(r, f) ==
  IF r \in Messages
  THEN ModuleOf[r] \in DOMAIN modules /\ MatchesConfig(f, MessageConfig(r))
  ELSE \/ OpenedAs(r, "receive") /\ MatchesConfig(f, handles[r].config)
       \/ /\ OpenedAs(r, "rxGroup") /\ handles[r].node # 0
          /\ MatchesGroup(f, NodeOf(r), handles[r].config)

ReadingOf(r) ==
  IF r \in Messages THEN dbcRx[r]
  ELSE IF r \in Opened THEN handles[r].reading ELSE Unread

(* Mutant: what lies between two frames a reader hears is not skipped.     *)
NextUnskipped(r) ==
  LET next == ReadingOf(r).cursor + 1
  IN  IF next \in DOMAIN injections /\ injections[next].time <= now * Grain
         /\ Hears(r, injections[next])
      THEN next ELSE 0

(* next_injection and next_j1939_injection: the first frame behind the     *)
(* cursor that the reader hears, none if one on the way is not due; 0 is   *)
(* no frame.                                                               *)
NextInjection(r) ==
  LET cursor == ReadingOf(r).cursor
      next   == {i \in DOMAIN injections :
                   /\ i > cursor
                   /\ \A j \in (cursor + 1)..i : injections[j].time <= now * Grain
                   /\ Hears(r, injections[i])}
  IN  IF next = {} THEN 0 ELSE CHOOSE i \in next : \A j \in next : i <= j

(* arrival_base_tick: off-grid arrivals round up, unless they lie within   *)
(* the tolerance of the tick before.                                       *)
ArrivalTick(time) ==
  IF time % Grain <= Slack THEN time \div Grain ELSE time \div Grain + 1

Take(i) ==
  [cursor |-> i,
   current |-> [frame |-> injections[i], tick |-> ArrivalTick(injections[i].time)]]

Transfer(direction, by, bus, extended, id, bytes) ==
  [direction |-> direction, tick |-> now, by |-> by, bus |-> bus,
   extended |-> extended, id |-> id, bytes |-> bytes]

Arrival(r) ==
  LET f == injections[NextInjection(r)]
  IN  Transfer("rx", r, f.bus, f.extended, f.id, f.bytes)

ByteCount(payload) == Cardinality(DOMAIN payload) \div 8

(* Reception by a handle: CanComms.RxMessage, and each of J1939's RxTicks, *)
(* GetLength and GetUnsignedInteger.  A call that finds no frame changes   *)
(* nothing.                                                                *)
Receive(h) ==
  LET next == NextInjection(h)
  IN  /\ phase = "running"
      /\ next # 0
      /\ \/ OpenedAs(h, "receive") /\ handles[h].config.bus \in DOMAIN buses
         \/ /\ OpenedAs(h, "rxGroup") /\ handles[h].node # 0
            /\ NodeOf(h).bus \in DOMAIN buses
            /\ ByteCount(injections[next].bytes) <= handles[h].config.limit
      /\ handles' = [handles EXCEPT ![h].reading = Take(next)]
      /\ transfers' = Append(transfers, Arrival(h))
      /\ UNCHANGED <<declared, injections, now, lines, owned, dbcRx, writes, phase>>

DbcReceive(m) ==
  LET next == NextInjection(m)
  IN  /\ phase = "running"
      /\ Direction[m] # "tx"
      /\ ModuleOf[m] \in DOMAIN modules
      /\ next # 0
      /\ ByteCount(injections[next].bytes) = Dlc[m]
      /\ dbcRx' = [dbcRx EXCEPT ![m] = Take(next)]
      /\ transfers' = Append(transfers, Arrival(m))
      /\ UNCHANGED <<declared, injections, now, lines, owned, handles, writes, phase>>

-----------------------------------------------------------------------------
(* Transmission.                                                           *)

(* The lengths a handle's buffer can be cleared to: TxInitialise of a raw  *)
(* handle and of a message, TxClear of a group.                            *)
ClearLengths(h) ==
  CASE handles[h].kind = "transmit" -> Lengths
    [] handles[h].kind = "message"  -> {Dlc[handles[h].config.message]}
    [] handles[h].kind = "txGroup"  -> {handles[h].config.length}
    [] OTHER                        -> {}

Clear(h, n) ==
  /\ phase = "running"
  /\ h \in Opened /\ n \in ClearLengths(h)
  /\ handles' = [handles EXCEPT ![h].bytes = Zeros(n)]
  /\ writes' = [writes EXCEPT ![h] = <<>>]
  /\ UNCHANGED <<declared, injections, now, lines, owned, dbcRx, transfers, phase>>

(* The fields that can be set in a handle's buffer.                        *)
Fields(h) ==
  LET config == handles[h].config
      n      == ByteCount(handles[h].bytes)
  IN  IF handles[h].bytes = None THEN {}
      ELSE CASE handles[h].kind = "transmit" ->
                  {RawField(at[1], at[2], config.big) :
                     at \in {x \in Offsets \X Widths : RawFits(x[1], x[2], n, config.big)}}
             [] handles[h].kind = "message" ->
                  {DbcField(s.start, s.width, s.big) :
                     s \in {x \in Signals : x.message = config.message}}
             [] handles[h].kind = "txGroup" ->
                  {J1939Field(at[1], at[2]) :
                     at \in {x \in Offsets \X Widths : x[1] + x[2] <= 8 * n}}
             [] OTHER -> {}

SetField(h, field, bits) ==
  /\ phase = "running"
  /\ h \in Opened /\ field \in Fields(h)
  /\ handles' = [handles EXCEPT ![h].bytes = WriteField(@, field, bits)]
  /\ writes' = [writes EXCEPT ![h] = Append(@, [field |-> field, bits |-> bits])]
  /\ UNCHANGED <<declared, injections, now, lines, owned, dbcRx, transfers, phase>>

Send(by, bus, extended, id, bytes) ==
  /\ phase = "running"
  /\ bus \in DOMAIN buses
  /\ transfers' = Append(transfers, Transfer("tx", by, bus, extended, id, bytes))
  /\ UNCHANGED <<declared, injections, now, lines, owned, handles, dbcRx, writes, phase>>

TxRaw(h, bus, identifier) ==
  /\ OpenedAs(h, "transmit") /\ handles[h].bytes # None
  /\ Send(h, bus, identifier.extended, identifier.id, handles[h].bytes)

TxMessage(h) ==
  LET m == handles[h].config.message
  IN  /\ OpenedAs(h, "message") /\ handles[h].bytes # None
      /\ ModuleOf[m] \in DOMAIN modules
      /\ Send(h, modules[ModuleOf[m]], Identity[m].extended, Identity[m].id,
              handles[h].bytes)

TxGroup(h, node, destination) ==
  LET group == handles[h].config
      from  == handles[node].config
  IN  /\ Registered(h, "txGroup", node)
      /\ Send(h, from.bus, TRUE,
              EncodeIdentifier(group.priority, group.pgn, destination, from.address),
              handles[h].bytes)

(* The three bytes of a requested group's number.                          *)
RequestBytes(pgn) == [p \in Places(3) |-> Bit(pgn, p)]

RequestGroup == 234 * 256    \* 0xEA00

Request(node, pgn, destination) ==
  LET from == handles[node].config
  IN  /\ OpenedAs(node, "node")
      /\ Send(node, from.bus, TRUE,
              EncodeIdentifier(6, RequestGroup, destination, from.address),
              RequestBytes(pgn))

(* Handle 0 is never given out, so a script can always make a refused call.*)
CallRefused ==
  /\ phase = "running"
  /\ phase' = "failed"
  /\ UNCHANGED <<declared, injections, now, lines, owned, handles, dbcRx,
                 transfers, writes>>

Next ==
  \/ Elapse
  \/ \E bus \in Buses, baud \in Bauds : InitBus(bus, baud)
  \/ \E m \in Modules, bus \in Buses : InitModule(m, bus)
  \/ \E site \in Sites : \E config \in Configs[site[2]] : Open(site, config)
  \/ \E h, node \in Opened : Register(h, node)
  \/ \E h, node \in Opened : DTCSetActive(h, node)
  \/ \E h, node \in Opened : DTCSetInactive(h, node)
  \/ \E h \in Opened : Receive(h)
  \/ \E m \in Messages : DbcReceive(m)
  \/ \E h \in Opened : \E n \in ClearLengths(h) : Clear(h, n)
  \/ \E h \in Opened : \E field \in Fields(h) :
       \E bits \in [DOMAIN field -> Bits] : SetField(h, field, bits)
  \/ \E h \in Opened, bus \in Buses, identifier \in Identifiers :
       TxRaw(h, bus, identifier)
  \/ \E h \in Opened : TxMessage(h)
  \/ \E h, node \in Opened, destination \in Destinations : TxGroup(h, node, destination)
  \/ \E node \in Opened, pgn \in Requests, destination \in Destinations :
       Request(node, pgn, destination)
  \/ CallRefused

Spec == Init /\ [][Next]_vars

-----------------------------------------------------------------------------
Readers == (1..(MaxHandle - 1)) \cup Messages

(* An identifier with its priority taken off.                              *)
AtLowest(id) == id % (GroupSpan * 256)

(* What a reader wants, in the terms of what set it up: a message wants    *)
(* its identifier, in its format; a J1939 group what is sent to its node   *)
(* or to everyone, at any priority.                                        *)
Wants(r, f) ==
  IF r \in Messages
  THEN /\ ModuleOf[r] \in DOMAIN modules
       /\ f.bus = modules[ModuleOf[r]]
       /\ f.extended = Identity[r].extended
       /\ f.id = Identity[r].id % IdentifierSpan(f.extended)
  ELSE \/ OpenedAs(r, "receive") /\ MatchesConfig(f, handles[r].config)
       \/ /\ OpenedAs(r, "rxGroup") /\ handles[r].node # 0
          /\ f.bus = NodeOf(r).bus /\ f.extended
          /\ \E destination \in {NodeOf(r).address, Broadcast} :
               LET group == handles[r].config
                   from  == IF group.source = AnySource THEN f.id % 256 ELSE group.source
               IN  AtLowest(f.id) = EncodeIdentifier(0, group.pgn, destination, from)

Content(e) == [bus |-> e.bus, extended |-> e.extended, id |-> e.id, bytes |-> e.bytes]

TakenBy(r) ==
  FlattenSeq([i \in DOMAIN transfers |->
                LET e == transfers[i]
                IN  IF e.direction = "rx" /\ e.by = r THEN <<Content(e)>> ELSE <<>>])

Link == INSTANCE CanLink
          WITH Nothing <- None,
               wants <- [r \in Readers |->
                           {f \in ToSet(declared) : Wants(r, f)}],
               taken <- [r \in Readers |-> TakenBy(r)],
               offer <- [r \in Readers |->
                           LET next == NextInjection(r)
                           IN  IF next = 0 THEN None ELSE Content(injections[next])]

(* Reception, as the trace's events show it and as the next call would     *)
(* find it, is that of CanLink, for raw receive handles, DBC messages and  *)
(* J1939 groups alike.                                                     *)
ReceptionIsExact == Link!Spec

(* A parameter group transmitted to a destination is a frame that exactly  *)
(* the receive groups of that number (and of the sender or any source) on  *)
(* the destination, or on every node when it names none, would match.      *)
FramesReachTheirGroup ==
  [][\A h, node \in Opened, destination \in Destinations :
       TxGroup(h, node, destination) =>
         LET sent  == Last(transfers')
             group == handles[h].config
             from  == handles[node].config
         IN  \A to \in Configs["node"], rx \in Configs["rxGroup"] :
               MatchesGroup(sent, to, rx) <=>
                 /\ to.bus = from.bus
                 /\ rx.pgn = group.pgn
                 /\ rx.source \in {AnySource, from.address}
                 /\ Addressed(group.pgn) => destination \in {to.address, Broadcast}]_vars

(* The bit the last write to place p of h's buffer has left there.         *)
Covers(write, p) == \E i \in DOMAIN write.field : write.field[i] = p

LastBit(h, p) ==
  LET of   == {n \in DOMAIN writes[h] : Covers(writes[h][n], p)}
      last == writes[h][CHOOSE n \in of : \A k \in of : k <= n]
  IN  IF of = {} THEN 0
      ELSE last.bits[CHOOSE i \in DOMAIN last.field : last.field[i] = p]

(* A transmit buffer holds in each bit what the last setter that covers it *)
(* put there since the buffer was cleared, and zero where none did: also   *)
(* when fields overlap, when other handles are written in between, and     *)
(* when the site opens its handle again.                                   *)
LastWriteWins ==
  \A h \in Opened : handles[h].bytes # None =>
    \A p \in DOMAIN handles[h].bytes : handles[h].bytes[p] = LastBit(h, p)

(* What the code takes for granted when it looks a handle up: sites and    *)
(* handles correspond and agree in kind, whatever is registered is so with *)
(* a node whose bus is initialised, a module's bus is initialised, what a  *)
(* reader holds is a frame it hears, already due and behind its cursor,    *)
(* and an active fault has been counted.                                   *)
HandlesAreSound ==
  /\ \A s, t \in DOMAIN siteHandles : siteHandles[s] = siteHandles[t] => s = t
  /\ \A s \in DOMAIN siteHandles : OpenedAs(siteHandles[s], s[2])
  /\ Opened = 1..(nextHandle - 1)
  /\ \A h \in Opened :
       /\ handles[h].node # 0 => OpenedAs(handles[h].node, "node")
       /\ handles[h].kind = "node" => handles[h].config.bus \in DOMAIN buses
       /\ handles[h].active => handles[h].node # 0 /\ handles[h].count > 0
  /\ \A m \in DOMAIN modules : modules[m] \in DOMAIN buses
  /\ \A r \in Opened \cup Messages :
       LET reading == ReadingOf(r)
       IN  reading.cursor > 0 =>
             /\ reading.cursor <= Len(injections)
             /\ reading.current.frame = injections[reading.cursor]
             /\ reading.current.frame.time <= now * Grain
             /\ Hears(r, reading.current.frame)

=============================================================================
