---------------------------- MODULE UserMemory ----------------------------
(***************************************************************************)
(* User memory as the machine and the kernel see it: the MMU               *)
(* (machine/mmu.cc), the copies between kernel and user memory             *)
(* (userprog/transfer.cc) and the command-line arguments                   *)
(* (userprog/args.cc), as operators on a memory                            *)
(*   m = [main, table, tlb, dirty]:                                        *)
(* mainMemory, the page table or the TLB as a sequence of entries, which   *)
(* of the two it is, and the entries whose dirty bit is set.  The use bit, *)
(* which nothing reads, is left out.                                       *)
(*                                                                         *)
(* A byte has ByteBits bits and a word four bytes, so that addresses,      *)
(* alignment and overflow are those of the code, in small numbers.         *)
(***************************************************************************)
EXTENDS Integers, Sequences, FiniteSets, SequencesExt

CONSTANTS
    ByteBits,        \* 8 in the code
    PAGE_SIZE, NUM_PHYS_PAGES, MAX_ARG_COUNT, MAX_ARG_LENGTH

ASSUME MemoryAssumption ==
    /\ ByteBits \in Nat \ {0} /\ PAGE_SIZE \in Nat \ {0} /\ PAGE_SIZE % 4 = 0
    /\ NUM_PHYS_PAGES \in Nat /\ MAX_ARG_COUNT \in Nat \ {0} /\ MAX_ARG_LENGTH \in Nat \ {0}

Span(n)  == 2 ^ (n * ByteBits)       \* the number of values of n bytes
ByteSize == Span(1)
WordSize == Span(4)
Byte == 0 .. ByteSize - 1
Word == 0 .. WordSize - 1
U(x) == x % WordSize                                        \* (unsigned) x
S(w) == IF w >= WordSize \div 2 THEN w - WordSize ELSE w    \* (int) w

NUL     == 0   \* '\0'
NEWLINE == 1   \* '\n'

-----------------------------------------------------------------------------
(* MMU::RetrievePageEntry: an exception, or the index of the entry. *)
RetrievePageEntry(m, vpn) ==
    LET hits == {i \in DOMAIN m.table : m.table[i].valid /\ m.table[i].virtualPage = vpn}
    IN  IF m.tlb
        THEN IF hits = {} THEN [e |-> "PAGE_FAULT"] ELSE [e |-> "NONE", i |-> Min(hits)]
        ELSE IF vpn >= Len(m.table) THEN [e |-> "ADDRESS_ERROR"]
        ELSE IF ~m.table[vpn + 1].valid THEN [e |-> "PAGE_FAULT"]
        ELSE [e |-> "NONE", i |-> vpn + 1]

Marked_Reads(m, i, writing) == IF writing THEN m ELSE [m EXCEPT !.dirty = @ \cup {i}]

Marked(m, i, writing) == IF writing THEN [m EXCEPT !.dirty = @ \cup {i}] ELSE m

(* MMU::Translate: an exception, or the physical address and the memory    *)
(* with the dirty bit set when writing.                                    *)
Translate(m, va, size, writing) ==
    LET found == RetrievePageEntry(m, va \div PAGE_SIZE)
        entry == m.table[found.i]
    IN  IF va % size # 0 THEN [e |-> "ADDRESS_ERROR"]
        ELSE IF found.e # "NONE" THEN [e |-> found.e]
        ELSE IF entry.readOnly /\ writing THEN [e |-> "READ_ONLY"]
        ELSE IF entry.physicalPage >= NUM_PHYS_PAGES THEN [e |-> "BUS_ERROR"]
        ELSE [e  |-> "NONE",
              pa |-> entry.physicalPage * PAGE_SIZE + (va % PAGE_SIZE),
              m  |-> Marked(m, found.i, writing)]

(* MMU::ReadMem, little-endian.  A single byte is a signed char. *)
ReadMem(m, va, size) ==
    LET t == Translate(m, va, size, FALSE)
        byte(k) == m.main[t.pa + k]
    IN  IF t.e # "NONE" THEN [e |-> t.e]
        ELSE [e |-> "NONE",
              value |-> CASE size = 1 -> U(IF byte(0) >= ByteSize \div 2 THEN byte(0) - ByteSize
                                           ELSE byte(0))
                          [] size = 2 -> byte(0) + byte(1) * ByteSize
                          [] size = 4 -> byte(0) + byte(1) * ByteSize
                                         + byte(2) * Span(2) + byte(3) * Span(3)]

(* MMU::WriteMem *)
WriteMem(m, va, size, value) ==
    LET t == Translate(m, va, size, TRUE)
    IN  IF t.e # "NONE" THEN [e |-> t.e]
        ELSE [e |-> "NONE",
              m |-> [t.m EXCEPT !.main = [a \in DOMAIN m.main |->
                        IF a \in t.pa .. t.pa + size - 1
                        THEN (value \div Span(a - t.pa)) % ByteSize ELSE m.main[a]]]]

-----------------------------------------------------------------------------
(* The copies of transfer.cc.  They assert every access: an exception in   *)
(* one of them ends the kernel.                                            *)

ByteAt(m, va) == ReadMem(m, va, 1).value % ByteSize

ReadBufferFromUser(m, va, byteCount) ==
    [k \in 1 .. byteCount |-> ByteAt(m, va + k - 1)]

checkEndString(c) == c # NUL /\ c # NEWLINE

(* What the loop stores: up to and including the first '\0' or '\n', at    *)
(* most maxByteCount bytes.                                                *)
ReadStringFromUser(m, va, maxByteCount) ==
    LET ends == {k \in 1 .. maxByteCount : k = maxByteCount \/ ~checkEndString(ByteAt(m, va + k - 1))}
    IN  ReadBufferFromUser(m, va, Min(ends))

(* What a copy writes: the addresses, with the byte written at each.  A    *)
(* byte is written on its own.                                             *)
WriteBufferToUser(buffer, va) == [v \in va .. va + Len(buffer) - 1 |-> buffer[v - va + 1]]

(* A do-while loop: it never writes the '\0', and the empty string takes   *)
(* it past the end, where rest, whatever the buffer held, is written.      *)
WriteStringToUser(string, rest, va) ==
    WriteBufferToUser(IF string = <<>> THEN <<NUL>> \o rest ELSE string, va)

Over(f, g) == [x \in DOMAIN f \cup DOMAIN g |-> IF x \in DOMAIN f THEN f[x] ELSE g[x]]

(* The memory after the bytes of `image' are written, or an exception.  No *)
(* two pages have the same frame.                                          *)
Copied(m, image) ==
    LET at(v)   == Translate(m, v, 1, TRUE)
        from(a) == CHOOSE v \in DOMAIN image : at(v).pa = a
    IN  IF \E v \in DOMAIN image : at(v).e # "NONE" THEN [e |-> "ASSERT"]
        ELSE [e |-> "NONE",
              m |-> [m EXCEPT !.main  = Over([a \in {at(v).pa : v \in DOMAIN image} |-> image[from(a)]], @),
                              !.dirty = @ \cup UNION {at(v).m.dirty : v \in DOMAIN image}]]

-----------------------------------------------------------------------------
(* The number of pointers before the null, -1 when there are too many. *)
CountArgsToSave(m, va) ==
    LET nulls == {c \in 0 .. MAX_ARG_COUNT - 1 : ReadMem(m, va + 4 * c, 4).value = 0}
    IN  IF nulls = {} THEN -1 ELSE Min(nulls)

(* SaveArgs: the kernel's copies of the strings. *)
SaveArgs(m, va) ==
    [k \in 1 .. CountArgsToSave(m, va) |->
        ReadStringFromUser(m, ReadMem(m, va + 4 * (k - 1), 4).value, MAX_ARG_LENGTH)]

ArgAddress_NoNul(args, sp, k) == sp - Cardinality(UNION {{i} \X (1 .. Len(args[i])) : i \in 1 .. k})

(* The address WriteArgs gives to argument k: below sp there is a byte for *)
(* each character of the arguments up to k, and one for each '\0'.         *)
ArgAddress(args, sp, k) == sp - Cardinality(UNION {{i} \X (0 .. Len(args[i])) : i \in 1 .. k})

(* The strings WriteArgs writes, from the first to the last, downwards:    *)
(* where two overlap, the later one stays.                                 *)
ArgStrings(args, rest, sp) ==
    LET image(k) == WriteStringToUser(args[k], rest, ArgAddress(args, sp, k))
        over(v)  == {k \in DOMAIN args : v \in DOMAIN image(k)}
    IN  [v \in UNION {DOMAIN image(k) : k \in DOMAIN args} |-> image(Max(over(v)))[v]]

(* argv, from address va on: the bytes of the addresses, and of the null. *)
ArgPointers(args, sp, va) ==
    LET word(k) == IF k \in DOMAIN args THEN ArgAddress(args, sp, k) ELSE 0
    IN  [v \in va .. va + 4 * Len(args) + 3 |->
            (word((v - va) \div 4 + 1) \div Span((v - va) % 4)) % ByteSize]

(* argv is below the strings, aligned. *)
ArgvAddress(args, sp) ==
    LET low == ArgAddress(args, sp, Len(args))
    IN  low - (low % 4) - (4 * Len(args) + 4)

WriteArgs(m, args, rest, sp) ==
    Copied(m, Over(ArgStrings(args, rest, sp), ArgPointers(args, sp, ArgvAddress(args, sp))))
=============================================================================
