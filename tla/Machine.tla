------------------------------ MODULE Machine ------------------------------
(***************************************************************************)
(* The simulated MIPS processor (machine/mips_sim.cc, machine.cc) over     *)
(* UserMemory, running one user process: the arguments the kernel leaves   *)
(* on its stack, its instructions, and what the kernel sees at a trap.     *)
(*                                                                         *)
(* The program is a sequence of decoded instructions in virtual page 0;    *)
(* what they do when the program jumps out of that page or stores into it  *)
(* depends on encodings, and is outside the model.                         *)
(***************************************************************************)
EXTENDS UserMemory

CONSTANTS
    Runs,          \* pairs of a program, a sequence of instructions
                   \* [op, rs, rt, rd, extra], and its arguments
    Garbage,       \* what may follow a string in a kernel buffer
    Frames,        \* the process's page table: frames in the order of the pages
    GP,            \* the general purpose registers in use, numbered as in the code
    RESULT_REG, ARGC, ARGV, STACK_REG, RET_ADDR_REG

Instruction == [op : STRING, rs : GP, rt : GP, rd : GP, extra : Nat]

(* A process has frames of its own; its arguments are strings that         *)
(* SaveArgs can have found in its father.                                  *)
ASSUME MachineAssumption ==
    /\ Frames \in Seq(0 .. NUM_PHYS_PAGES - 1) /\ Len(Frames) * PAGE_SIZE <= WordSize
    /\ \A i, j \in DOMAIN Frames : Frames[i] = Frames[j] => i = j
    /\ {0, RESULT_REG, ARGC, ARGV, STACK_REG, RET_ADDR_REG} \subseteq GP
    /\ ARGC # ARGV /\ ARGC # STACK_REG /\ ARGV # STACK_REG
    /\ Garbage \subseteq Seq(Byte)
    /\ \A r \in Runs :
         /\ r[1] \in Seq(Instruction)
         /\ r[2] \in Seq(Seq(Byte \ {NUL})) /\ Len(r[2]) < MAX_ARG_COUNT
         /\ \A k \in DOMAIN r[2] : Len(r[2][k]) < MAX_ARG_LENGTH

VARIABLES
    program, args,  \* the program and the arguments it was given
    m,              \* memory and page table, see UserMemory
    reg,            \* registers[0 .. 31]
    hi, lo, pc, nextPc,
    load,           \* LOAD_REG and LOAD_VALUE_REG: a load that is still to land
    badVAddr,       \* BAD_VADDR_REG
    mode            \* start, user, kernel (in the handler of a system call), abort

cpuVars == <<reg, hi, lo, pc, nextPc, load, badVAddr>>
vars    == <<program, args, m, cpuVars, mode>>

NoLoad == [reg |-> 0, value |-> 0]

TranslationEntry(page, frame) ==
    [virtualPage |-> page, physicalPage |-> frame, valid |-> TRUE, readOnly |-> FALSE]

(* AddressSpace leaves the frames of a process as they were; frames are    *)
(* never used twice, so the stack is zero.  Register values are left over  *)
(* from whoever ran before.                                                *)
Init ==
    /\ \E r \in Runs : program = r[1] /\ args = r[2]
    /\ m = [main  |-> [a \in 0 .. NUM_PHYS_PAGES * PAGE_SIZE - 1 |-> 0],
            table |-> [i \in DOMAIN Frames |-> TranslationEntry(i - 1, Frames[i])],
            tlb   |-> FALSE, dirty |-> {}]
    /\ reg = [r \in GP |-> 0] /\ hi = 0 /\ lo = 0 /\ pc = 0 /\ nextPc = 0
    /\ load = NoLoad /\ badVAddr = 0
    /\ mode = "start"

Top == Len(Frames) * PAGE_SIZE - 16     \* InitRegisters' stack pointer

Written(rest) == WriteArgs(m, args, rest, Top)

(* StartProcess2: InitRegisters, and WriteArgs into the new stack.  What   *)
(* arguments do that reach down to the code is outside the model.          *)
Start(rest) ==
    LET sp == ArgvAddress(args, Top)
        w  == Written(rest)
    IN  /\ mode = "start" /\ sp >= PAGE_SIZE
        /\ w.e = "NONE" /\ m' = w.m
        /\ reg' = [r \in GP |-> CASE r = ARGC -> Len(args) [] r = ARGV -> sp
                                  [] r = STACK_REG -> U(sp - 16) [] OTHER -> 0]
        /\ pc' = 0 /\ nextPc' = 4 /\ hi' = 0 /\ lo' = 0 /\ load' = NoLoad /\ badVAddr' = 0
        /\ mode' = "user"
        /\ UNCHANGED <<program, args>>

(* An empty string took WriteStringToUser past the end of the stack. *)
StartFails(rest) ==
    /\ mode = "start" /\ ArgvAddress(args, Top) >= PAGE_SIZE
    /\ Written(rest).e # "NONE"
    /\ mode' = "abort" /\ UNCHANGED <<program, args, m, cpuVars>>

-----------------------------------------------------------------------------
Sign(w) == S(w) < 0
Low(x)  == x % Span(2)                 \* extra & 0xFFFF
Bits    == 4 * ByteBits
Asr(w, n) == U(S(w) \div 2 ^ n)        \* >> on an int

(* The instructions that compute one register from others: a = rs, b = rt, *)
(* x = extra.                                                              *)
Sum(op, a, b, x) ==
    U(CASE op \in {"ADD", "ADDU"} -> a + b [] op \in {"ADDI", "ADDIU"} -> a + x [] op \in {"SUB", "SUBU"} -> a - b)

(* The places of a word's ones, and the word with ones in some places. *)
Ones(w) == {k \in 0 .. Bits - 1 : (w \div 2 ^ k) % 2 = 1}
WithOnes(places) == CHOOSE w \in Word : Ones(w) = places

Logic(op, a, b, x) ==
    LET p == Ones(a)
        q == Ones(IF op \in {"ANDI", "ORI", "XORI"} THEN Low(x) ELSE b)
    IN  WithOnes(CASE op \in {"AND", "ANDI"} -> p \cap q
                   [] op \in {"OR", "ORI"}   -> p \cup q
                   [] op \in {"XOR", "XORI"} -> (p \ q) \cup (q \ p)
                   [] op = "NOR"             -> (0 .. Bits - 1) \ (p \cup q))

(* SRL and SRLV shift an int, so they are SRA and SRAV. *)
Shift(op, a, b, x) ==
    CASE op = "SLL" -> U(b * 2 ^ x) [] op = "SLLV" -> U(b * 2 ^ (a % Bits))
      [] op \in {"SRA", "SRL"}      -> Asr(b, x)
      [] op \in {"SRAV", "SRLV"}    -> Asr(b, a % Bits)

Compare(op, a, b, x) ==
    IF CASE op = "SLT" -> S(a) < S(b) [] op = "SLTI" -> S(a) < S(x) [] op = "SLTU" -> a < b [] op = "SLTIU" -> a < x
    THEN 1 ELSE 0

Sums     == {"ADD", "ADDU", "ADDI", "ADDIU", "SUB", "SUBU"}
Logics   == {"AND", "ANDI", "OR", "ORI", "XOR", "XORI", "NOR"}
Shifts   == {"SLL", "SLLV", "SRA", "SRAV", "SRL", "SRLV"}
Compares == {"SLT", "SLTI", "SLTU", "SLTIU"}
Immediate == {"ADDI", "ADDIU", "ANDI", "ORI", "XORI", "LUI", "SLTI", "SLTIU"}
ThreeReg  == ((Sums \cup Logics \cup Shifts \cup Compares) \ Immediate) \cup {"MFHI", "MFLO"}

Result(op, a, b, x) ==
    CASE op \in Sums   -> Sum(op, a, b, x)     [] op \in Logics   -> Logic(op, a, b, x)
      [] op \in Shifts -> Shift(op, a, b, x)   [] op \in Compares -> Compare(op, a, b, x)
      [] op = "LUI"  -> U(x * Span(2))
      [] op = "MFHI" -> hi                     [] op = "MFLO" -> lo

Overflows(op, a, b, x) ==
    \/ op = "ADD"  /\ Sign(a) = Sign(b) /\ Sign(U(a + b)) # Sign(a)
    \/ op = "ADDI" /\ Sign(a) = Sign(x) /\ Sign(U(a + x)) # Sign(x)
    \/ op = "SUB"  /\ Sign(a) # Sign(b) /\ Sign(U(a - b)) # Sign(a)

Complement_NoCarry(p) == [lo |-> U(-p.lo), hi |-> WordSize - 1 - p.hi]

(* The two's complement of a double word, with the carry out of its low    *)
(* half.                                                                   *)
Complement(p) == [lo |-> U(-p.lo), hi |-> U(WordSize - 1 - p.hi + (IF p.lo = 0 THEN 1 ELSE 0))]

(* A turn of Mult's loop: b is added where a has a one, and shifted.  The  *)
(* early exits, for a zero and after the last one of a, change nothing.    *)
MultTurn(z, one) ==
    LET sum == U(z.lo + z.bLo)
    IN  [lo  |-> IF one THEN sum ELSE z.lo,
         hi  |-> IF one THEN U(z.hi + z.bHi + (IF sum < z.bLo THEN 1 ELSE 0)) ELSE z.hi,
         bHi |-> U(2 * z.bHi + (IF Sign(z.bLo) THEN 1 ELSE 0)),
         bLo |-> U(2 * z.bLo)]

MultLoop(a, b) ==
    LET z[i \in 0 .. Bits] ==
            IF i = 0 THEN [lo |-> 0, hi |-> 0, bHi |-> 0, bLo |-> b]
            ELSE MultTurn(z[i - 1], (a \div 2 ^ (i - 1)) % 2 = 1)
    IN  z[Bits]

(* Mult: shift and add over the bits of a, on magnitudes, with the carry   *)
(* and the complement done by hand on two words.                           *)
Mult(a, b, signedArith) ==
    LET p == MultLoop(IF signedArith /\ Sign(a) THEN U(-a) ELSE a,
                      IF signedArith /\ Sign(b) THEN U(-b) ELSE b)
    IN  IF signedArith /\ Sign(a) # Sign(b) /\ a # 0 /\ b # 0
        THEN Complement(p) ELSE p

(* HI and LO after a division: C truncates towards zero, and a zero       *)
(* divisor gives zeros.                                                    *)
Divide(signedArith, a, b) ==
    LET sa == IF signedArith THEN S(a) ELSE a
        sb == IF signedArith THEN S(b) ELSE b
        q  == (IF sa < 0 THEN -sa ELSE sa) \div (IF sb < 0 THEN -sb ELSE sb)
        sq == IF (sa < 0) = (sb < 0) THEN q ELSE -q
    IN  IF b = 0 THEN [hi |-> 0, lo |-> 0] ELSE [hi |-> U(sa - sb * sq), lo |-> U(sq)]

-----------------------------------------------------------------------------
(* The end of ExecInstruction: registers r, a new delayed load, next PC. *)
Landed(r) == [r EXCEPT ![load.reg] = load.value, ![0] = 0]

Retire(r, newLoad, pcAfter) ==
    /\ reg' = Landed(r) /\ load' = newLoad
    /\ pc' = nextPc /\ nextPc' = pcAfter
    /\ UNCHANGED <<program, args, badVAddr, mode>>

PcAfter == U(nextPc + 4)

(* SetExceptionHandlers: every handler but that of system calls is         *)
(* DefaultHandler, which fails an assertion.                               *)
Handler(et) == IF et = "SYSCALL" THEN "kernel" ELSE "abort"

(* RaiseException up to the handler. *)
RaiseException_Early(et, va) ==
    /\ badVAddr' = va
    /\ mode' = Handler(et)
    /\ UNCHANGED <<program, args, m, hi, lo, pc, nextPc, reg, load>>

RaiseException(et, va) ==
    /\ badVAddr' = va
    /\ reg' = Landed(reg) /\ load' = NoLoad
    /\ mode' = Handler(et)
    /\ UNCHANGED <<program, args, m, hi, lo, pc, nextPc>>

(* Instruction::Decode gives every I-format instruction a sign-extended    *)
(* 16-bit field; shift amounts and jump targets are taken as they are.     *)
RegisterFormat == ThreeReg \cup {"JR", "JALR", "SYSCALL", "MTHI", "MTLO", "MULT", "MULTU", "DIV", "DIVU"}
JumpFormat     == {"J", "JAL"}

Decode(i) ==
    IF i.op \notin RegisterFormat \cup JumpFormat /\ 2 * i.extra >= Span(2)
    THEN [i EXCEPT !.extra = @ + WordSize - Span(2)]
    ELSE i

(* FetchInstruction.  The code is in page 0. *)
Fetched == ReadMem(m, pc, 4)
Instr   == Decode(program[pc \div 4 + 1])
Running(ops) ==
    /\ mode = "user" /\ Fetched.e = "NONE"
    /\ pc \div 4 + 1 \in DOMAIN program /\ Instr.op \in ops

FetchFails == mode = "user" /\ Fetched.e # "NONE" /\ RaiseException(Fetched.e, pc)

Compute ==
    LET i == Instr
        a == reg[i.rs]
        b == reg[i.rt]
    IN  /\ Running(Immediate \cup ThreeReg)
        /\ IF Overflows(i.op, a, b, i.extra)
           THEN RaiseException("OVERFLOW", 0)
           ELSE /\ Retire([reg EXCEPT ![IF i.op \in Immediate THEN i.rt ELSE i.rd] =
                                Result(i.op, a, b, i.extra)], NoLoad, PcAfter)
                /\ UNCHANGED <<m, hi, lo>>

(* The smallest integer divided by -1 ends the simulator itself. *)
MultDiv ==
    LET op == Instr.op
        a  == reg[Instr.rs]
        b  == reg[Instr.rt]
        z  == CASE op \in {"MULT", "MULTU"} -> Mult(a, b, op = "MULT")
                [] op \in {"DIV", "DIVU"}   -> Divide(op = "DIV", a, b)
                [] op = "MTHI" -> [hi |-> a, lo |-> lo]
                [] op = "MTLO" -> [hi |-> hi, lo |-> a]
    IN  /\ Running({"MULT", "MULTU", "DIV", "DIVU", "MTHI", "MTLO"})
        /\ IF op = "DIV" /\ a = WordSize \div 2 /\ b = WordSize - 1
           THEN mode' = "abort" /\ UNCHANGED <<program, args, m, cpuVars>>
           ELSE hi' = z.hi /\ lo' = z.lo /\ Retire(reg, NoLoad, PcAfter) /\ UNCHANGED m

Taken(op, a, b) ==
    CASE op = "BEQ" -> a = b                    [] op = "BNE" -> a # b
      [] op \in {"BGEZ", "BGEZAL"} -> ~Sign(a)  [] op \in {"BLTZ", "BLTZAL"} -> Sign(a)
      [] op = "BGTZ" -> S(a) > 0                [] op = "BLEZ" -> S(a) <= 0
      [] OTHER -> TRUE

(* Jumps stay in the segment given by the top four bits of the PC. *)
Target(i, a) ==
    CASE i.op \in {"J", "JAL"}   -> PcAfter - (PcAfter % (WordSize \div 16)) + 4 * i.extra
      [] i.op \in {"JR", "JALR"} -> a
      [] OTHER                   -> U(nextPc + 4 * i.extra)

(* A link register is written before the test or the target is read. *)
Branch ==
    LET i == Instr
        link == IF i.op = "JALR" THEN i.rd ELSE RET_ADDR_REG
        r == IF i.op \in {"BGEZAL", "BLTZAL", "JAL", "JALR"} THEN [reg EXCEPT ![link] = PcAfter] ELSE reg
    IN  /\ Running({"BEQ", "BNE", "BGEZ", "BGEZAL", "BLTZ", "BLTZAL", "BGTZ", "BLEZ",
                    "J", "JAL", "JR", "JALR"})
        /\ Retire(r, NoLoad, IF Taken(i.op, r[i.rs], r[i.rt]) THEN Target(i, r[i.rs]) ELSE PcAfter)
        /\ UNCHANGED <<m, hi, lo>>

Address(i) == U(reg[i.rs] + i.extra)
Size(op)   == CASE op \in {"LB", "LBU", "SB"} -> 1 [] op \in {"LH", "LHU", "SH"} -> 2 [] OTHER -> 4

(* LWL, LWR, SWL and SWR insist on an aligned address, so of their four    *)
(* cases only the first is left: LWL loads and SWL stores the word, LWR    *)
(* loads its top byte, into the register as it will be when a pending load *)
(* has landed, and SWR stores a low byte as the top one.                   *)
AssertFails(i) == i.op \in {"LWL", "LWR", "SWL", "SWR"} /\ Address(i) % 4 # 0

LoadValue(i, value) ==
    LET range == Span(Size(i.op))
        part  == value % range
        old   == IF load.reg = i.rt THEN load.value ELSE reg[i.rt]
    IN  CASE i.op \in {"LB", "LH"} /\ 2 * part >= range -> U(part - range)
          [] i.op = "LWR" -> old - (old % ByteSize) + (part \div Span(3))
          [] OTHER -> part

StoreValue(i, value) ==
    IF i.op = "SWR" THEN (value % Span(3)) + U(reg[i.rt] * Span(3)) ELSE reg[i.rt]

Load ==
    LET i   == Instr
        got == ReadMem(m, Address(i), Size(i.op))
    IN  /\ Running({"LB", "LBU", "LH", "LHU", "LW", "LWL", "LWR"})
        /\ \/ /\ AssertFails(i)
              /\ mode' = "abort" /\ UNCHANGED <<program, args, m, cpuVars>>
           \/ /\ ~AssertFails(i) /\ got.e # "NONE"
              /\ RaiseException(got.e, Address(i))
           \/ /\ got.e = "NONE"
              /\ Retire(reg, [reg |-> i.rt, value |-> LoadValue(i, got.value)], PcAfter)
              /\ UNCHANGED <<m, hi, lo>>

Store ==
    LET i   == Instr
        old == IF i.op = "SWR" THEN ReadMem(m, Address(i), 4).value ELSE 0
        e   == Translate(m, Address(i), Size(i.op), TRUE).e
    IN  /\ Running({"SB", "SH", "SW", "SWL", "SWR"})
        /\ Address(i) \div PAGE_SIZE # 0
        /\ \/ /\ AssertFails(i)
              /\ mode' = "abort" /\ UNCHANGED <<program, args, m, cpuVars>>
           \/ /\ ~AssertFails(i) /\ e # "NONE"
              /\ RaiseException(e, Address(i))
           \/ /\ e = "NONE"
              /\ m' = WriteMem(m, Address(i), Size(i.op), StoreValue(i, old)).m
              /\ Retire(reg, NoLoad, PcAfter)
              /\ UNCHANGED <<hi, lo>>

Trap ==
    /\ Running({"SYSCALL", "RES", "UNIMP"})
    /\ RaiseException(IF Instr.op = "SYSCALL" THEN "SYSCALL" ELSE "ILLEGAL_INSTR", 0)

(* SyscallHandler leaves a result and increments the PC. *)
Return(result) ==
    /\ mode = "kernel"
    /\ reg' = [reg EXCEPT ![RESULT_REG] = result]
    /\ pc' = nextPc /\ nextPc' = PcAfter
    /\ mode' = "user"
    /\ UNCHANGED <<program, args, m, hi, lo, load, badVAddr>>

Next ==
    \/ \E rest \in Garbage : Start(rest) \/ StartFails(rest)
    \/ FetchFails \/ Compute \/ MultDiv \/ Branch \/ Load \/ Store \/ Trap
    \/ \E result \in {0, WordSize - 1} : Return(result)

Spec == Init /\ [][Next]_vars

-----------------------------------------------------------------------------
(* MULT and MULTU leave the double-length product in HI and LO, for every  *)
(* sign and with carries out of the low word (Mult, mips_sim.cc:87-155).   *)
MultIsProduct ==
    [][Running({"MULT", "MULTU"}) =>
        LET a == reg[Instr.rs]
            b == reg[Instr.rt]
            product == IF Instr.op = "MULT" THEN S(a) * S(b) ELSE a * b
        IN  hi' * WordSize + lo' = product % (WordSize * WordSize)]_vars

(* A program finds its arguments where register 5 points, each ended by a  *)
(* '\0' although WriteStringToUser writes none, and can hand them to Exec  *)
(* again (WriteArgs, SaveArgs; transfer.cc:68-79).  Two kinds of strings   *)
(* are damaged: empty ones and those with a '\n'.                          *)
ArgsArrive ==
    [][mode = "start" /\ mode' = "user" /\ (\A k \in DOMAIN args : args[k] # <<>> /\ ~Contains(args[k], NEWLINE))
        => SaveArgs(m', reg'[ARGV]) = [n \in DOMAIN args |-> Append(args[n], NUL)]]_vars

(* Nothing is written outside the frames of the process, and a frame that  *)
(* was written has the dirty bit of its page set (MMU::Translate).         *)
StoresAreRecorded ==
    \A a \in DOMAIN m.main : m.main[a] # 0 =>
        \E i \in m.dirty : m.table[i].physicalPage = a \div PAGE_SIZE

(* A value loaded by the instruction before a system call is in its        *)
(* register when the kernel reads the call's arguments, and is not loaded  *)
(* again over the result (RaiseException's DelayedLoad, machine.cc:130).   *)
KernelSeesLoads ==
    [][mode = "user" /\ mode' = "kernel" =>
        load' = NoLoad /\ (load.reg # 0 => reg'[load.reg] = load.value)]_vars
=============================================================================
