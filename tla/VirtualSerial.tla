---------------------------- MODULE VirtualSerial ---------------------------
(***************************************************************************)
(* The deterministic RS232 adapter behind the Serial library               *)
(* (src/virtual_serial.rs).  Handles are opened per source call site and   *)
(* method, and own a receive buffer, a transmit buffer and one receive     *)
(* cursor per port.  A call that is refused ends the run, so a refusal is  *)
(* one step to phase "failed"; calls that only read a buffer are operators *)
(* of the state (GetUnsignedInteger, GetInteger).                          *)
(*                                                                         *)
(* A byte is a number below Radix and a word has WordBytes bytes (256 and  *)
(* 4 in the code).                                                         *)
(***************************************************************************)
EXTENDS Arrivals, SequencesExt

CONSTANTS
  Sites,        \* (call site, method) keys of GetHandle and GetTransmitHandle
  Ports,
  Bauds,        \* the baud rates PortInit accepts
  NoBaud,       \* a port that is not initialised
  Radix, WordBytes, BufferBytes,
  MaxHandle,    \* u32::MAX
  LastTime,     \* the last base tick
  Scenarios     \* the declared rx lists considered

(* What a byte counts for, the n-th above the least significant one.       *)
Weight[n \in 0..WordBytes] == IF n = 0 THEN 1 ELSE Radix * Weight[n - 1]

Bytes    == 0..(Radix - 1)
WordSize == Weight[WordBytes]
Integer32 == (-(WordSize \div 2))..(WordSize \div 2 - 1)
Entry    == [port : Ports, time : Nat, bytes : Seq(Bytes)]

ASSUME VirtualSerialAssumption ==
  /\ NoBaud \notin Bauds
  /\ Radix \in Nat \ {0, 1} /\ WordBytes \in Nat \ {0} /\ BufferBytes \in Nat
  /\ MaxHandle \in Nat \ {0}
  /\ LastTime \in Nat
  /\ \A s \in Scenarios : s \in Seq(Entry)

VARIABLES
  declared,      \* the scenario's rx list
  injections,    \* per port, its entries in time order
  now,           \* elapsed time of the current call
  line,          \* per port: its baud rate, or NoBaud
  siteHandles,   \* site |-> handle
  handles,       \* handle |-> HandleState
  nextHandle,
  events,        \* the transfers the trace records
  phase

vars == <<declared, injections, now, line, siteHandles, handles, nextHandle,
          events, phase>>

Opened == DOMAIN handles

NewHandle(big) ==
  [bigEndian |-> big, receive |-> <<>>,
   transmit |-> [i \in 1..BufferBytes |-> 0],
   cursors |-> [p \in Ports |-> 0], active |-> "transmit"]

HandleStates ==
  [bigEndian : BOOLEAN, receive : Seq(Bytes), transmit : [1..BufferBytes -> Bytes],
   cursors : [Ports -> Nat], active : {"receive", "transmit"}]

TypeOK ==
  /\ now \in 0..LastTime
  /\ line \in [Ports -> Bauds \cup {NoBaud}]
  /\ nextHandle \in 1..MaxHandle
  /\ Opened \subseteq 1..(MaxHandle - 1)
  /\ \A h \in Opened :
       /\ handles[h] \in HandleStates
       /\ Len(handles[h].receive) <= BufferBytes
  /\ siteHandles \in [DOMAIN siteHandles -> Opened]
  /\ phase \in {"running", "failed"}

-----------------------------------------------------------------------------
(* Mutant: the scenario's entries are taken in declaration order.          *)
Unsorted(rx, p) == SelectSeq(rx, LAMBDA e : e.port = p)

(* VirtualSerial::new: per port a stable sort by time.                     *)
InTimeOrder(rx, p) ==
  LET of     == {i \in DOMAIN rx : rx[i].port = p}
      sorted == Sorted(rx, of)
  IN  [n \in 1..Cardinality(of) |-> rx[sorted[n]]]

Oversized(rx) == \E i \in DOMAIN rx : Len(rx[i].bytes) > BufferBytes

Init ==
  /\ declared \in Scenarios
  /\ injections = [p \in Ports |-> InTimeOrder(declared, p)]
  /\ now = 0
  /\ line = [p \in Ports |-> NoBaud]
  /\ siteHandles = <<>>
  /\ handles = <<>>
  /\ nextHandle = 1
  /\ events = <<>>
  /\ phase = IF Oversized(declared) THEN "failed" ELSE "running"

Elapse ==
  /\ phase = "running"
  /\ now < LastTime
  /\ now' = now + 1
  /\ UNCHANGED <<declared, injections, line, siteHandles, handles, nextHandle,
                 events, phase>>

(* open_handle: the handle of a site that has one already is returned as   *)
(* it is, which changes nothing.                                           *)
OpenRefused(s, big) ==
  IF s \in DOMAIN siteHandles THEN handles[siteHandles[s]].bigEndian # big
                              ELSE nextHandle = MaxHandle

OpenHandle(s, big) ==
  /\ phase = "running"
  /\ s \notin DOMAIN siteHandles
  /\ ~OpenRefused(s, big)
  /\ siteHandles' = [t \in DOMAIN siteHandles \cup {s} |->
                       IF t = s THEN nextHandle ELSE siteHandles[t]]
  /\ handles' = [h \in Opened \cup {nextHandle} |->
                   IF h = nextHandle THEN NewHandle(big) ELSE handles[h]]
  /\ nextHandle' = nextHandle + 1
  /\ UNCHANGED <<declared, injections, now, line, events, phase>>

(* PortInit: repeating a configuration is accepted, changing it is not.    *)
InitRefused(p, baud) ==
  baud \notin Bauds \/ line[p] \notin {NoBaud, baud}

PortInit(p, baud) ==
  /\ phase = "running"
  /\ ~InitRefused(p, baud)
  /\ line' = [line EXCEPT ![p] = baud]
  /\ UNCHANGED <<declared, injections, now, siteHandles, handles, nextHandle,
                 events, phase>>

(* Mutant: one entry per call.                                             *)
OneEntryEnd(h, p) ==
  LET next == handles[h].cursors[p] + 1
  IN  IF next \in DOMAIN injections[p] /\ injections[p][next].time <= now
      THEN next ELSE next - 1

(* receive: everything pending at the cursor that is due, in one packet.   *)
DueEnd(h, p) ==
  LET cursor == handles[h].cursors[p]
      late   == {i \in DOMAIN injections[p] :
                   i > cursor /\ injections[p][i].time > now}
  IN  IF late = {} THEN Len(injections[p])
      ELSE (CHOOSE i \in late : \A j \in late : i <= j) - 1

Pending(h, p) ==
  LET due == SubSeq(injections[p], handles[h].cursors[p] + 1, DueEnd(h, p))
  IN  FlattenSeq([i \in DOMAIN due |-> due[i].bytes])

ReceiveRefused(h, p) ==
  \/ line[p] = NoBaud
  \/ h \notin Opened
  \/ h \in Opened /\ Len(Pending(h, p)) > BufferBytes

Transfer(direction, h, p, bytes) ==
  [direction |-> direction, time |-> now, handle |-> h, port |-> p, bytes |-> bytes]

Receive(h, p) ==
  /\ phase = "running"
  /\ ~ReceiveRefused(h, p)
  /\ handles' = [handles EXCEPT ![h].receive = Pending(h, p),
                                ![h].cursors[p] = DueEnd(h, p),
                                ![h].active = "receive"]
  /\ events' = IF Pending(h, p) = <<>> THEN events
               ELSE Append(events, Transfer("rx", h, p, Pending(h, p)))
  /\ UNCHANGED <<declared, injections, now, line, siteHandles, nextHandle, phase>>

(* buffer_range, for a buffer of the given length.                         *)
OutOfRange(offset, length, available) ==
  offset < 0 \/ length < 0 \/ offset + length > available

TransmitRefused(h, p, length) ==
  line[p] = NoBaud \/ h \notin Opened \/ OutOfRange(0, length, BufferBytes)

Transmit(h, p, length) ==
  /\ phase = "running"
  /\ ~TransmitRefused(h, p, length)
  /\ events' = Append(events,
                 Transfer("tx", h, p, SubSeq(handles[h].transmit, 1, length)))
  /\ UNCHANGED <<declared, injections, now, line, siteHandles, handles,
                 nextHandle, phase>>

(* Store text at offset of h's transmit buffer, which becomes the active   *)
(* one: SetString, and the last step of every other setter.                *)
WriteRefused(h, offset, length) ==
  h \notin Opened \/ OutOfRange(offset, length, BufferBytes)

SetString(h, offset, text) ==
  /\ phase = "running"
  /\ ~WriteRefused(h, offset, Len(text))
  /\ handles' = [handles EXCEPT
                   ![h].transmit = [i \in 1..BufferBytes |->
                      IF i \in (offset + 1)..(offset + Len(text))
                      THEN text[i - offset] ELSE @[i]],
                   ![h].active = "transmit"]
  /\ UNCHANGED <<declared, injections, now, line, siteHandles, nextHandle,
                 events, phase>>

Digits(value, length) == [i \in 1..length |-> (value \div Weight[i - 1]) % Radix]

(* Mutant: the handle's byte order is ignored.                             *)
EncodeLittle(value, length, big) == Digits(value, length)

(* The low bytes of a word, most significant byte first or last.           *)
Encode(value, length, big) ==
  IF big THEN Reverse(Digits(value, length)) ELSE Digits(value, length)

(* SetInteger and SetUnsignedInteger; SetFloat writes a word's bits.       *)
SetInteger(h, offset, length, value) ==
  /\ length \in 1..WordBytes
  /\ h \in Opened
  /\ SetString(h, offset, Encode(value % WordSize, length, handles[h].bigEndian))

CallRefused ==
  /\ phase = "running"
  /\ \/ \E s \in Sites, big \in BOOLEAN : OpenRefused(s, big)
     \/ \E p \in Ports, baud \in Bauds : InitRefused(p, baud)
     \/ \E h \in 1..(MaxHandle - 1), p \in Ports : ReceiveRefused(h, p)
     \/ \E h \in 1..(MaxHandle - 1), p \in Ports, n \in 0..(BufferBytes + 1) :
          TransmitRefused(h, p, n) \/ WriteRefused(h, 0, n)
  /\ phase' = "failed"
  /\ UNCHANGED <<declared, injections, now, line, siteHandles, handles,
                 nextHandle, events>>

Next ==
  \/ Elapse
  \/ \E s \in Sites, big \in BOOLEAN : OpenHandle(s, big)
  \/ \E p \in Ports, baud \in Bauds : PortInit(p, baud)
  \/ \E h \in Opened, p \in Ports : Receive(h, p)
  \/ \E h \in Opened, p \in Ports, n \in 0..BufferBytes : Transmit(h, p, n)
  \/ \E h \in Opened, offset \in 0..BufferBytes :
       \/ \E text \in Seq(Bytes) : SetString(h, offset, text)
       \/ \E n \in 1..WordBytes, v \in Integer32 : SetInteger(h, offset, n, v)
  \/ CallRefused

Spec == Init /\ [][Next]_vars

-----------------------------------------------------------------------------
(* Calls that only read: an integer getter on a window of a byte buffer.   *)
(* GetUnsignedInteger, too, returns its bits as a signed word.             *)
ValueOf(digits) ==
  LET sum[n \in 0..Len(digits)] ==
        IF n = 0 THEN 0 ELSE sum[n - 1] + digits[n] * Weight[n - 1]
  IN  sum[Len(digits)]

Decode(bytes, big) == ValueOf(IF big THEN Reverse(bytes) ELSE bytes)

SignExtended(raw, length) ==
  IF raw >= Weight[length] \div 2 THEN raw - Weight[length] ELSE raw

GetInteger(buffer, offset, length, big) ==
  SignExtended(Decode(SubSeq(buffer, offset + 1, offset + length), big), length)

GetUnsignedInteger(buffer, offset, length, big) ==
  SignExtended(Decode(SubSeq(buffer, offset + 1, offset + length), big), WordBytes)

-----------------------------------------------------------------------------
(* A handle is owned by exactly one call site, zero is never a handle, and *)
(* the counter never gives one out twice.                                  *)
HandlesHaveOneOwner ==
  /\ \A s, t \in DOMAIN siteHandles : siteHandles[s] = siteHandles[t] => s = t
  /\ Opened = {siteHandles[s] : s \in DOMAIN siteHandles}
  /\ Opened = 1..(nextHandle - 1)

(* No handle has read ahead of time: nothing behind its cursor lies in the *)
(* future.                                                                 *)
CursorsAreDue ==
  \A h \in Opened, p \in Ports :
    /\ handles[h].cursors[p] <= Len(injections[p])
    /\ \A i \in 1..handles[h].cursors[p] : injections[p][i].time <= now

(* What a setter stored in the transmit buffer, the getters of the same    *)
(* width and byte order read from a receive buffer that got those bytes: a *)
(* value that fits comes back unchanged, any other modulo the width, and   *)
(* nothing outside the window has changed.                                 *)
WordsReadBack ==
  [][\A h \in Opened, n \in 1..WordBytes :
     \A offset \in 0..(BufferBytes - n), v \in Integer32 :
       handles'[h] # handles[h] /\ SetInteger(h, offset, n, v) =>
         LET buffer == handles'[h].transmit
             big    == handles[h].bigEndian
             half   == Weight[n] \div 2
         IN  /\ v \in (-half)..(half - 1) => GetInteger(buffer, offset, n, big) = v
             /\ (v - GetInteger(buffer, offset, n, big)) % Weight[n] = 0
             /\ v \in 0..(2 * half - 1) \/ n = WordBytes =>
                  GetUnsignedInteger(buffer, offset, n, big) = v
             /\ \A i \in 1..BufferBytes \ ((offset + 1)..(offset + n)) :
                  buffer[i] = handles[h].transmit[i]]_vars

(* The bytes the events report as received by h from p. *)
Taken(h, p) ==
  FlattenSeq([i \in DOMAIN events |->
                LET e == events[i]
                IN  IF e.direction = "rx" /\ e.handle = h /\ e.port = p
                    THEN e.bytes ELSE <<>>])

Link == INSTANCE SerialLink
          WITH Readers <- 1..(MaxHandle - 1), Lines <- Ports,
               taken <- [h \in 1..(MaxHandle - 1) |-> [p \in Ports |-> Taken(h, p)]]

(* Reception, as the trace's events show it, is that of SerialLink.        *)
ReceptionIsExact == Link!Spec

(* A call withholds nothing: when it returns, the handle has everything    *)
(* that was declared for the port until now, also when it returns nothing. *)
ReadsAreComplete ==
  [][\A h \in Opened, p \in Ports :
       Receive(h, p) => Taken(h, p)' \in Link!Arrived(p, now)]_vars
=============================================================================
