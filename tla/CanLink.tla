------------------------------ MODULE CanLink ------------------------------
(***************************************************************************)
(* What the virtual CAN adapter promises of reception.  A reader is deaf   *)
(* until the script has said what it listens to, which is then settled.    *)
(* Of the declared frames it gets those it wants, each once, in time order *)
(* and in declaration order among equal times, one per call; and a call    *)
(* finds no frame only if all that are due have been taken.  What one      *)
(* reader takes is not lost to another.                                    *)
(***************************************************************************)
EXTENDS Arrivals, Sequences

CONSTANTS Readers, LastTick, Grain, Nothing

VARIABLES
  declared,   \* the frames, in declaration order
  now,        \* base tick; a tick is Grain units of the frames' time
  wants,      \* per reader: the set of frames it listens to
  taken,      \* per reader: the frames it has got
  offer       \* per reader: the frame the next call would get

vars == <<declared, now, wants, taken, offer>>

Content(f) == [bus |-> f.bus, extended |-> f.extended, id |-> f.id, bytes |-> f.bytes]

(* The frame that follows the first n of a set declared up to tick t.      *)
Following(n, set, t) ==
  LET due == {i \in DOMAIN declared : declared[i].time <= t * Grain /\ declared[i] \in set}
  IN  IF n < Cardinality(due)
      THEN Content(declared[CHOOSE i \in due :
                              Cardinality({j \in due : Earlier(declared, j, i)}) = n])
      ELSE Nothing

Offers ==
  [r \in Readers |-> LET set == wants[r] IN Following(Len(taken[r]), set, now)]

Init ==
  /\ now = 0
  /\ wants = [r \in Readers |-> {}]
  /\ taken = [r \in Readers |-> <<>>]
  /\ offer = Offers

Tick ==
  /\ now < LastTick
  /\ now' = now + 1
  /\ UNCHANGED <<declared, wants, taken>>

(* Deaf readers begin to listen.                                           *)
Listen ==
  /\ DOMAIN wants' = Readers
  /\ \A r \in Readers : wants[r] # {} => wants'[r] = wants[r]
  /\ UNCHANGED <<declared, now, taken>>

Take(r) ==
  /\ offer[r] # Nothing
  /\ taken' = [taken EXCEPT ![r] = Append(@, offer[r])]
  /\ UNCHANGED <<declared, now, wants>>

Next ==
  /\ Tick \/ Listen \/ \E r \in Readers : Take(r)
  /\ offer' = Offers'

Spec == Init /\ [][Next]_vars
=============================================================================
