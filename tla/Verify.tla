------------------------------- MODULE Verify -------------------------------
(***************************************************************************)
(* The structural check of a finished image (compiler_bc/verify.py): what  *)
(* each instruction's operands may name in the frame and the tables.       *)
(***************************************************************************)
EXTENDS Values

\* The operands that name a register, the windows of L slots <<base, count>>,
\* the jump target and the table entry; an empty window's base is not read.
Registers(ins) ==
  CASE ins.op \in {"i8", "lnil", "lunset", "gget", "jf", "jt", "jnerr", "defer_reg", "return"} -> {ins.a}
    [] ins.op \in {"move", "not", "iter", "itnext"} -> {ins.a, ins.b}
    [] ins.op \in {"add", "getidx", "setidx"} -> {ins.a, ins.b, ins.c}
    [] ins.op \in {"list", "plist"} -> {ins.a} \cup (IF ins.c = 0 THEN {} ELSE {ins.b})
    [] ins.op \in {"closure", "call"} -> {ins.a}
    [] OTHER -> {}
CapturesOf(image, ins) == Len(image[ins.b].captures)
Windows(image, ins) ==
  CASE ins.op = "return" -> {<<ins.a, 1>>}
    [] ins.op = "call" -> {<<ins.a, ins.b + 1>>}
    [] ins.op \in {"list", "plist"} -> {<<ins.b, ins.c>>}
    [] ins.op = "closure" -> IF CapturesOf(image, ins) = 0 THEN {} ELSE {<<ins.c, CapturesOf(image, ins)>>}
    [] OTHER -> {}
JumpTargets(ins) == CASE ins.op \in {"jmp", "jf", "jt", "jnerr"} -> {ins.b}
                      [] ins.op = "itnext" -> {ins.c}
                      [] OTHER -> {}

CheckRegister(fn, r) == IF r < 0 THEN -r <= fn.nparams + Len(fn.captures) ELSE r < fn.nlocals
CheckWindow(fn, w)   == w[1] >= 0 /\ w[1] + w[2] <= fn.nlocals
CheckJump(fn, to)    == to \in 0..Len(fn.code)
CheckIndex(image, ins) == /\ ins.op = "closure" => ins.b \in DOMAIN image
                          /\ ins.op = "gget" => ins.b \in DOMAIN GlobalSlots

VerifyRegion(image, fn) ==
  \A i \in DOMAIN fn.code :
     /\ CheckIndex(image, fn.code[i])
     /\ \A r \in Registers(fn.code[i]) : CheckRegister(fn, r)
     /\ \A to \in JumpTargets(fn.code[i]) : CheckJump(fn, to)
     /\ \A w \in Windows(image, fn.code[i]) : CheckWindow(fn, w)
VerifyImage(image) == \A f \in DOMAIN image : VerifyRegion(image, image[f])

\* What an image is before it is verified: operands are numbers, counts are not
\* negative, a box is a list of one, and the program's own body takes nothing.
Instructions == [op : STRING, a : Int, b : Int, c : Int]
Decoded(image) ==
  /\ image \in Seq([code : Seq(Instructions), nlocals : Nat, nparams : Nat, captures : Seq(STRING)])
  /\ \A f \in DOMAIN image : \A i \in DOMAIN image[f].code :
       LET ins == image[f].code[i]
       IN  /\ ins.op = "call" => ins.b >= 0
           /\ ins.op = "list" => ins.c >= 0
           /\ ins.op = "plist" => ins.c = 1
  /\ Len(image) > 0 /\ image[Len(image)].nparams = 0 /\ image[Len(image)].captures = <<>>

\* What the verifier leaves to the lowering: a body ends in an instruction that
\* goes nowhere else, and no jump leads past it.
BodiesEnd(image) ==
  \A f \in DOMAIN image :
     LET code == image[f].code
     IN  /\ Len(code) > 0 /\ code[Len(code)].op \in {"return", "jmp", "trap"}
         /\ \A i \in DOMAIN code : \A to \in JumpTargets(code[i]) : to < Len(code)

\* What a run may count on (VmProofs).
Accepted(image) == Decoded(image) /\ VerifyImage(image) /\ BodiesEnd(image)
=============================================================================
