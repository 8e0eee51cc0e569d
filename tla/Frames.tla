-------------------------------- MODULE Frames --------------------------------
(***************************************************************************)
(* What scripts may rely on of functions and their variables: a stack of   *)
(* frames, of which only the top one is ever worked on. A call pushes a    *)
(* frame of its own, a return and an error pop it and leave the caller's   *)
(* as it was. Statics belong to a function, not to a frame.                *)
(***************************************************************************)
EXTENDS Integers, Sequences

CONSTANTS NoValue,     \* an Out that was not assigned
          Unit,        \* what a call answers that assigned no Out
          ParametersOf(_)

VARIABLES stack,       \* frames [fn, locals, out], the running one last
          statics,     \* [<<function, name>> -> value]
          returned     \* what the last call answered
framesVars == <<stack, statics, returned>>

Depth == Len(stack)
Top   == stack[Depth]
Callers == SubSeq(stack, 1, Depth - 1)
IsFrame(f) == DOMAIN f = {"fn", "locals", "out"}

Init == Depth = 1 /\ Top.locals = <<>> /\ Top.out = NoValue /\ statics = <<>> /\ returned = NoValue

\* The running function works on its own frame and on its own statics, which
\* stay once they are initialised.
Work == /\ Len(stack') = Depth /\ IsFrame(Top')
        /\ SubSeq(stack', 1, Depth - 1) = Callers
        /\ Top'.fn = Top.fn
        /\ DOMAIN statics \subseteq DOMAIN statics'
        /\ \A k \in DOMAIN statics' :
              k[1] # Top.fn => k \in DOMAIN statics /\ statics'[k] = statics[k]
        /\ returned' = returned

\* A call starts with nothing but its parameters.
Call == /\ Len(stack') = Depth + 1 /\ IsFrame(Top')
        /\ SubSeq(stack', 1, Depth) = stack
        /\ DOMAIN Top'.locals = ParametersOf(Top'.fn) /\ Top'.out = NoValue
        /\ UNCHANGED <<statics, returned>>

\* A return answers what the callee last assigned to its Out.
Return == /\ Depth > 1 /\ stack' = Callers
          /\ returned' = IF Top.out = NoValue THEN Unit ELSE Top.out
          /\ UNCHANGED statics

\* An error that leaves a callee answers nothing.
Abandon == Depth > 1 /\ stack' = Callers /\ UNCHANGED <<statics, returned>>

\* The scheduler starts the next script; the evaluator does it on the frame
\* the previous one left.
Start == /\ Depth = 1 /\ Len(stack') = 1 /\ IsFrame(Top')
         /\ Top'.locals = Top.locals /\ Top'.out = Top.out
         /\ UNCHANGED <<statics, returned>>

Next == Work \/ Call \/ Return \/ Abandon \/ Start
Spec == Init /\ [][Next]_framesVars
=============================================================================
