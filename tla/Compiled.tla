------------------------------- MODULE Compiled -------------------------------
(***************************************************************************)
(* A program compiled and run by the VM, held to what the tree walker      *)
(* makes of its source.                                                    *)
(***************************************************************************)
EXTENDS Compile, Verify, Vm
CONSTANT Programs
VARIABLES source,       \* the program
          meaning       \* what the walker makes of it
vars == <<source, meaning, vmVars>>
Walker == INSTANCE Walk

Init == /\ source \in Programs
        /\ meaning = Walker!Outcome(source)
        /\ image = ImageOf(source)
        /\ Load
Next == Step /\ UNCHANGED <<source, meaning>>
Spec == Init /\ [][Next]_vars /\ WF_vars(Next)

-----------------------------------------------------------------------------
\* Where the compiler is known to mean something else (README, section 6).
\* A value that is built in the register of the variable it replaces.
InPlace == {"and", "or", "catch", "catchreturn", "try", "do", "if"}
ReadsDestination(s) ==
  /\ s.op \in {"var", "assign", "setif"} /\ Len(s.ps) = 1 /\ s.e[1].op \in InPlace
  /\ Name(s.ps[1]) \in WalkScope(s.e[1])
\* A left operand is the variable's own register, which the right one writes.
OperandReassigned(e) ==
  e.op \in {"add", "index"} /\ e.e[1].op = "name" /\ e.e[1].id \in AssignedNames(<<e.e[2]>>)
\* Deferred blocks belong to the frame, and may not leave it.
DeferOfBlock(s) == \E b \in ToSet(Bodies(s)) : \E t \in ToSet(b) : t.op = "defer"
Leaving == {"return", "break", "continue", "try", "catchreturn"}
DeferLeaves(s) == s.op = "defer" /\ \E t \in WalkBody(s.b[1]) : t.op \in Leaving
\* A name a function takes from outside and declares again in a block of its
\* own is not captured.
DeclaredInside(s) ==
  Boundary(s) /\ \E x \in DeclaredNames(s.b[1]) \ OwnDeclaredNames(s.b[1]) :
                    \E t \in WalkBody(s.b[1]) : t.op = "defer" /\ x \in FreeNames(<<>>, t.b[1])
Narrowed(program) ==
  \E s \in NodesOf(program) : \/ ReadsDestination(s) \/ OperandReassigned(s)
                              \/ DeferOfBlock(s) \/ DeferLeaves(s) \/ DeclaredInside(s)

-----------------------------------------------------------------------------
Same == outcome = [k |-> meaning.k, v |-> meaning.v] /\ out = meaning.out

\* What a compiled body prints and answers is what the walker prints and
\* answers: jumps, boxes, captured variables, windows, defers and exceptions
\* included.  Left out are the narrowed forms, and the runs that read a
\* register nothing wrote, lost a box or met a body the compiler refused.
\* Every run ends, those included.
Agrees == <>(Over /\ (strayed = {} /\ ~Narrowed(source) => Same))

\* The verifier finds nothing to refuse in what the compiler emits, and no body
\* runs on into the next, which the verifier does not look at.
Verified == stack # <<>> /\ Len(stack) = 1 /\ Top.ip = 0 => Accepted(image)
=============================================================================
