--------------------------- MODULE MCVirtualSerial --------------------------
(***************************************************************************)
(* VirtualSerial with three interchangeable call sites but only two        *)
(* handles, two ports, bytes of one bit, words of two bytes and buffers of *)
(* two.  The scenarios declare entries out of time order, at equal times,  *)
(* on both ports, empty, together larger than the buffer, and one too      *)
(* large on its own.                                                       *)
(***************************************************************************)
EXTENDS VirtualSerial

CONSTANT MaxEvents

Rx(p, t, b) == [port |-> p, time |-> t, bytes |-> b]

MCScenarios ==
  { <<Rx(1, 1, <<1>>), Rx(1, 0, <<0, 1>>), Rx(2, 1, <<0>>)>>,
    <<Rx(1, 1, <<1>>), Rx(1, 0, <<0>>), Rx(2, 1, <<0>>), Rx(2, 1, <<1>>), Rx(2, 0, <<>>)>>,
    <<Rx(2, 0, <<0, 1, 0>>)>> }

MCSymmetry == Permutations(Sites)

Texts == {<<>>, <<1>>}

NothingSent == \A i \in DOMAIN events : events[i].direction = "rx"

(* Bounds: MaxEvents transfers, of which only the last is a transmission;  *)
(* setters on the first handle only; port 2 has one baud rate.             *)
MCNext ==
  /\ NothingSent
  /\ \/ Elapse
     \/ \E s \in Sites, big \in BOOLEAN : OpenHandle(s, big)
     \/ \E p \in Ports, baud \in Bauds : (p = 2 => baud = 9600) /\ PortInit(p, baud)
     \/ \E h \in Opened, p \in Ports : Receive(h, p)
     \/ \E h \in Opened, p \in Ports, n \in {0, BufferBytes} : Transmit(h, p, n)
     \/ \E h \in Opened \cap {1}, offset \in 0..(BufferBytes - 1) :
          \/ \E text \in Texts : SetString(h, offset, text)
          \/ \E n \in 1..WordBytes, v \in Integer32 : SetInteger(h, offset, n, v)
     \/ CallRefused
  /\ Len(events') <= MaxEvents

MCSpec == Init /\ [][MCNext]_vars
=============================================================================
