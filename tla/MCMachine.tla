----------------------------- MODULE MCMachine -----------------------------
(* Small instances of Machine for TLC: programs that put a value in each   *)
(* of registers 2 and 4 and then execute one or two instructions, and one  *)
(* program with every argument list.                                       *)
EXTENDS Machine

I(op, rs, rt, rd, extra) == [op |-> op, rs |-> rs, rt |-> rt, rd |-> rd, extra |-> extra]

LoadConstant(r, v) == <<I("LUI", 0, r, 0, v \div 16), I("ORI", r, r, 0, v % 16)>>

Values == {0, 1, 31, 36, 77, 128, 200, 255}

Single ==
    {I(op, 2, 4, 5, 3) : op \in ThreeReg}
    \cup {I(op, 2, 5, 0, x) : op \in Immediate, x \in {1, 7, 8}}
    \cup {I(op, 2, 4, 5, 0) : op \in {"MULT", "MULTU", "DIV", "DIVU", "MTHI", "MTLO", "RES", "UNIMP"}}
    \cup {I(op, 2, 4, 5, 1) : op \in {"BEQ", "BNE", "BGEZ", "BGEZAL", "BLTZ", "BLTZAL", "BGTZ", "BLEZ",
                                      "J", "JAL", "JR", "JALR"}}
    \cup {I(op, 2, 4, 0, x) : op \in {"LB", "LBU", "LH", "LHU", "LW", "LWL", "LWR", "SB", "SH", "SW", "SWL", "SWR"},
                              x \in {0, 1}}

Call == I("SYSCALL", 0, 0, 0, 0)

Strings == {<<>>, <<2>>, <<2, 3>>, <<3, 1>>}

MCRuns ==
    {<<LoadConstant(2, v) \o LoadConstant(4, w) \o <<i, Call>>, <<<<2>>>> >> : v, w \in Values, i \in Single}
    \cup {<<LoadConstant(2, v) \o <<I("LW", 2, 4, 0, 0), i, Call>>, <<<<2, 3>>>> >> : v \in {36, 77}, i \in Single}
    \cup {<< <<Call>>, a>> : a \in BoundedSeq(Strings, 2)}

MCGarbage == {<<>>, <<3>>, [k \in 1 .. 17 |-> 3]}
MCFrames  == <<2, 0, 4>>
MCGP      == {0, 2, 4, 5, 29, 31}
=============================================================================
