------------------------------ MODULE CallFold ------------------------------
(***************************************************************************)
(* The fold of the I/O of transitively called functions into their callers *)
(* (effective_root_io in src/schedule.rs): a depth-first walk with a cache *)
(* of finished functions and a stack of active ones.  The recursion of the *)
(* code is the explicit stack here, one frame per active call.             *)
(***************************************************************************)
EXTENDS Project

CONSTANT Unscripted     \* callees that have no script I/O summary

ASSUME CallFoldAssumption == Unscripted \cap Functions = {}

VARIABLES
  calls,          \* direct callees of each function
  directReads, directWrites,
  incomplete,     \* functions whose direct I/O has an analysis error
  cached,         \* functions whose fold has finished ...
  foldReads, foldWrites,                          \* ... and its result
  stack           \* frames [fn, todo, reads, writes], the active one last

directVars == <<calls, directReads, directWrites, incomplete>>
foldVars   == <<cached, foldReads, foldWrites, stack>>

Frame == [fn : Functions, todo : SUBSET (Functions \cup Unscripted),
          reads : SUBSET Channels, writes : SUBSET Channels]

CallFoldTypeOK ==
  /\ cached \subseteq Functions
  /\ foldReads \in [Functions -> SUBSET Channels]
  /\ foldWrites \in [Functions -> SUBSET Channels]
  /\ stack \in Seq(Frame)
  /\ \A i, j \in 1..Len(stack) : i # j => stack[i].fn # stack[j].fn

CallFoldInit ==
  /\ cached = {}
  /\ foldReads = [f \in Functions |-> {}]
  /\ foldWrites = [f \in Functions |-> {}]
  /\ stack = <<>>

Active == {stack[i].fn : i \in 1..Len(stack)}
Top    == stack[Len(stack)]
Below  == SubSeq(stack, 1, Len(stack) - 1)

(* The next callee of the active frame, in name order. *)
IsNextCallee(c) ==
  /\ stack # <<>>
  /\ c \in Top.todo
  /\ \A d \in Top.todo : c <= d

(* A function that is neither cached nor active and whose direct I/O is    *)
(* complete gets a frame.                                                  *)
Enterable(f) ==
  /\ f \in Functions \ (cached \cup Active)
  /\ f \notin incomplete

FrameFor(f) == [fn |-> f, todo |-> calls[f],
                reads |-> directReads[f], writes |-> directWrites[f]]

EnterRoot(f) ==
  /\ stack = <<>>
  /\ Enterable(f)
  /\ stack' = <<FrameFor(f)>>
  /\ UNCHANGED <<directVars, cached, foldReads, foldWrites>>

EnterCallee(c) ==
  /\ IsNextCallee(c)
  /\ Enterable(c)
  /\ stack' = Append(stack, FrameFor(c))
  /\ UNCHANGED <<directVars, cached, foldReads, foldWrites>>

(* Mutant: the callee's writes are not those of the caller. *)
MergeReads(c) ==
  /\ IsNextCallee(c)
  /\ c \in cached
  /\ stack' = Append(Below, [Top EXCEPT !.todo = @ \ {c},
                                        !.reads = @ \cup foldReads[c]])
  /\ UNCHANGED <<directVars, cached, foldReads, foldWrites>>

(* The result of a finished callee extends the active frame. *)
MergeCallee(c) ==
  /\ IsNextCallee(c)
  /\ c \in cached
  /\ stack' = Append(Below, [Top EXCEPT !.todo = @ \ {c},
                                        !.reads = @ \cup foldReads[c],
                                        !.writes = @ \cup foldWrites[c]])
  /\ UNCHANGED <<directVars, cached, foldReads, foldWrites>>

Leave ==
  /\ stack # <<>>
  /\ Top.todo = {}
  /\ stack' = Below
  /\ cached' = cached \cup {Top.fn}
  /\ foldReads' = [foldReads EXCEPT ![Top.fn] = Top.reads]
  /\ foldWrites' = [foldWrites EXCEPT ![Top.fn] = Top.writes]
  /\ UNCHANGED directVars

(* Mutant: every function seen before is taken for a call cycle.           *)
RefusedOnceSeen(f) == f \in cached \cup Unscripted \cup Active \cup incomplete

(* Mutant: a call cycle is not noticed.                                    *)
RefusedUnlessActive(f) ==
  /\ f \notin cached
  /\ f \in Unscripted \cup incomplete

(* The walk cannot continue into f: it has no summary, is already active   *)
(* (a call cycle) or its analysis is incomplete.                           *)
Refused(f) ==
  /\ f \notin cached
  /\ f \in Unscripted \cup Active \cup incomplete
=============================================================================
