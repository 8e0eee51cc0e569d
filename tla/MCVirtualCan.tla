---------------------------- MODULE MCVirtualCan ----------------------------
(***************************************************************************)
(* VirtualCan with at most three handles.  Every kind can be opened at one *)
(* call site, receivers or nodes at two, nodes and groups with several     *)
(* configurations.  Of the two scenarios, one has standard frames for raw  *)
(* receivers and the DBC message, out of time order, at equal times, off   *)
(* the grid, and one too short for the message; the other has J1939        *)
(* frames to a node, to everyone, to another node, of the wrong group and  *)
(* too long for the group that wants it.                                   *)
(***************************************************************************)
EXTENDS VirtualCan

CONSTANTS c1, c2, speed, MaxTransfers, MaxWork

Extended(i) == [id |-> i, extended |-> TRUE]
Standard(i) == [id |-> i, extended |-> FALSE]

PDU1 == 234 * 256
PDU2 == 255 * 256 + 1

MCConfigs ==
  [receive  |-> {[bus |-> 0, match |-> 5, mask |-> 3, extended |-> FALSE, big |-> TRUE],
                 [bus |-> 0, match |-> 5, mask |-> 0, extended |-> FALSE, big |-> TRUE],
                 [bus |-> 0, match |-> EncodeIdentifier(6, PDU1, 255, 0), mask |-> 255,
                  extended |-> TRUE, big |-> TRUE]},
   transmit |-> {[big |-> b] : b \in BOOLEAN},
   message  |-> {[message |-> speed]},
   node     |-> {[bus |-> 0, address |-> 1], [bus |-> 0, address |-> 2],
                 [bus |-> 1, address |-> 1]},
   rxGroup  |-> {[pgn |-> PDU1, source |-> AnySource, limit |-> 1],
                 [pgn |-> PDU2, source |-> 1, limit |-> 1]},
   txGroup  |-> {[pgn |-> p, priority |-> 6, length |-> 2] : p \in {PDU1, PDU2}},
   dtc      |-> {[fault |-> 1]}]

Rx(t, b, i, n) == [time |-> t, bus |-> b, extended |-> i.extended, id |-> i.id,
                   bytes |-> Zeros(n)]

MCScenarios ==
  { <<Rx(4, 0, Standard(5), 1), Rx(0, 0, Standard(6), 1), Rx(2, 0, Standard(5), 2),
      Rx(0, 0, Standard(5), 1), Rx(0, 1, Standard(5), 1)>>,
    <<Rx(4, 0, Extended(EncodeIdentifier(6, PDU1, 255, 2)), 1),
      Rx(0, 0, Extended(EncodeIdentifier(3, PDU1, 1, 2)), 1),
      Rx(0, 0, Extended(EncodeIdentifier(6, PDU1, 2, 1)), 2),
      Rx(2, 1, Extended(EncodeIdentifier(6, PDU2, 0, 1)), 1)>> }

MCBound     == speed :> None
MCModuleOf  == speed :> speed
MCDlc       == speed :> 1
MCIdentity  == speed :> Standard(5)
MCDirection == speed :> "any"
MCSignals   == {[message |-> speed, start |-> s, width |-> 2, big |-> b] :
                  s \in {1}, b \in BOOLEAN}
MCIdentifiers == {Standard(5)}

(* Bounds.  MaxTransfers transfers, of which only the last is sent; if     *)
(* fields are set, to one of two values, at most MaxWork of both.  With    *)
(* extended frames, one transfer and one field less, and bus 0 initialised *)
(* only once; with standard frames, one handle less.  The kinds and        *)
(* formats of each scenario, opened in a fixed order; the second node is   *)
(* the one with address 2.  Bus 1 is initialised by nodes and the module   *)
(* only.  A call is refused at the start.                                  *)
Order == <<"receive", "transmit", "message", "node", "rxGroup", "txGroup", "dtc">>

Rank(kind) == CHOOSE n \in DOMAIN Order : Order[n] = kind

OpensInOrder(site) ==
  /\ site[2] \in IF declared[1].extended
                THEN {"receive", "node", "rxGroup", "txGroup", "dtc"}
                ELSE {"receive", "transmit", "message"}
  /\ site[1] = c2 =>
       /\ site[2] = IF declared[1].extended THEN "node" ELSE "receive"
       /\ <<c1, site[2]>> \in DOMAIN siteHandles
  /\ \A s \in DOMAIN siteHandles : Rank(s[2]) <= Rank(site[2])

Less == IF declared[1].extended THEN 1 ELSE 0

MCNext ==
  /\ Next
  /\ \A e \in DOMAIN transfers : transfers[e].direction = "rx"
  /\ Len(transfers') <= MaxTransfers - Less
  /\ \A s \in DOMAIN siteHandles' \ DOMAIN siteHandles : OpensInOrder(s)
  /\ \A h \in DOMAIN handles' : handles'[h].kind = "receive" =>
       handles'[h].config.extended = declared[1].extended
  /\ \A s \in DOMAIN siteHandles' : s[2] = "node" =>
       (handles'[siteHandles'[s]].config.address = 2 <=> s[1] = c2)
  /\ \A h \in DOMAIN writes' :
       \A w \in DOMAIN writes'[h] : writes'[h][w].bits[1] # writes'[h][w].bits[2]
  /\ LET set == MapThenSumSet(LAMBDA h : Len(writes'[h]), DOMAIN writes')
     IN  /\ set > 0 => Len(transfers') + set <= MaxWork
         /\ set <= MaxWork - Less
  /\ nextHandle' < MaxHandle + Less
  /\ 1 \in DOMAIN buses' => buses'[1] = None
  /\ declared[1].extended /\ DOMAIN buses' = DOMAIN buses => buses' = buses
  /\ phase' = "failed" => handles = <<>>

MCSpec == Init /\ [][MCNext]_vars
=============================================================================
