------------------------------ MODULE TeenyJVM ------------------------------
(***************************************************************************)
(* The bytecode interpreter of src/java-virtual-machine/jvm.c.             *)
(*                                                                         *)
(* execute() runs one method: a dispatch loop over the byte array          *)
(* method->code.code with a program counter, an int32_t operand stack of   *)
(* max_stack slots and a stack pointer, and a locals array of max_locals   *)
(* slots.  invokestatic recurses into execute(); here the C call stack is  *)
(* the variable `frames`, the suspended caller sitting at its invokestatic *)
(* until the callee returns.  The heap (heap.c, not in this repository) is *)
(* an append-only sequence of int32_t arrays whose slot 0 holds the length.*)
(*                                                                         *)
(* Abstractions.  A frame's operand stack is the sequence of its live      *)
(* slots stack[0..stack_p-1]; the zeroing of popped slots is not kept,     *)
(* because no handler reads a slot at or above stack_p.  A C access        *)
(* outside the stack, the locals, the code or a heap block is undefined    *)
(* behaviour: the model stops with status "ub" instead of guessing what    *)
(* memory it touches.  Words are W-bit two's complement (W = 16 for TLC,   *)
(* the width of sipush's immediate); every bit-width-dependent detail      *)
(* (wraparound, the x86 shift-count mask, INT_MIN) is expressed in W.      *)
(***************************************************************************)
EXTENDS Integers, Sequences, FiniteSets, Bitwise

CONSTANTS
    Methods,    \* constant-pool index -> [code, max_stack, max_locals, nparams]
    ConstPool,  \* constant-pool index -> the CONSTANT_Integer loaded by ldc
    Entries,    \* the calls execute(method, locals) the run starts with
    W,          \* bits of an int32_t word in the model
    MaxDepth    \* nested execute() activations the native C stack can hold

ASSUME W = 16 /\ MaxDepth \in Nat \ {0}

VARIABLES
    frames,   \* the activations of execute(), innermost last
    heap,     \* heap_t: handle h is heap[h + 1], a function 0..len -> word
    out,      \* the ints printed by invokevirtual (System.out.println)
    status,   \* "running", "returned", or how the process stopped
    result,   \* optional_value_t returned by the outermost execute()
    entry     \* the call the run started with (fixed)

vars == <<frames, heap, out, status, result, entry>>

-----------------------------------------------------------------------------
(* Opcodes, with the names of the i_* enumeration of jvm.h.                *)
i_nop == 0
i_iconst_m1 == 2
i_iconst_0 == 3
i_iconst_5 == 8
i_bipush == 16
i_sipush == 17
i_ldc == 18
i_iload == 21
i_aload == 25
i_iload_0 == 26
i_iload_3 == 29
i_aload_0 == 42
i_aload_3 == 45
i_iaload == 46
i_istore == 54
i_astore == 58
i_istore_0 == 59
i_istore_3 == 62
i_astore_0 == 75
i_astore_3 == 78
i_iastore == 79
i_dup == 89
i_iadd == 96
i_isub == 100
i_imul == 104
i_idiv == 108
i_irem == 112
i_ineg == 116
i_ishl == 120
i_ishr == 122
i_iushr == 124
i_iand == 126
i_ior == 128
i_ixor == 130
i_iinc == 132
i_ifeq == 153
i_ifne == 154
i_iflt == 155
i_ifge == 156
i_ifgt == 157
i_ifle == 158
i_if_icmpeq == 159
i_if_icmple == 164
i_goto == 167
i_ireturn == 172
i_areturn == 176
i_return == 177
i_getstatic == 178
i_invokevirtual == 182
i_invokestatic == 184
i_newarray == 188
i_arraylength == 190

\* The `case a ... b:` ranges of execute()'s switch.
IaddToIxor == i_iadd .. i_ixor
IconstRange == i_iconst_m1 .. i_iconst_5
IfRange == i_ifeq .. i_if_icmple
ILoadN == i_iload_0 .. i_iload_3
AloadN == i_aload_0 .. i_aload_3
IStoreN == i_istore_0 .. i_istore_3
AstoreN == i_astore_0 .. i_astore_3

Handled ==
    IaddToIxor \cup IconstRange \cup IfRange \cup ILoadN \cup AloadN
    \cup IStoreN \cup AstoreN
    \cup {i_bipush, i_getstatic, i_invokevirtual, i_sipush, i_iload, i_istore,
          i_iinc, i_ldc, i_goto, i_invokestatic, i_nop, i_dup, i_newarray,
          i_arraylength, i_iastore, i_iaload, i_aload, i_astore, i_areturn,
          i_ireturn, i_return}

-----------------------------------------------------------------------------
(* W-bit two's-complement words and the C conversions applied to them.    *)
Modulus == 2 ^ W
MinInt == -(2 ^ (W - 1))
MaxInt == 2 ^ (W - 1) - 1
Word == MinInt .. MaxInt

\* Variant with a bug: arithmetic that never wraps (a wider intermediate).
WrapMissing(x) == x

\* The wraparound gcc produces for int arithmetic that overflows.
Wrap(x) == ((x - MinInt) % Modulus) + MinInt
\* (unsigned) a
Unsigned(a) == a % Modulus
\* (signed char) byte
SignedByte(b) == IF b >= 128 THEN b - 256 ELSE b
\* (int16_t) / (signed short) ((b1 << 8) | b2)
SignedShort(b1, b2) == LET v == b1 * 256 + b2 IN IF v >= 32768 THEN v - 65536 ELSE v

AbsVal(x) == IF x < 0 THEN -x ELSE x
\* Variant with a bug: division that rounds toward minus infinity.
CDivFloor(a, b) == a \div b

\* C's `/` truncates toward zero.
CDiv(a, b) == IF (a < 0) = (b < 0) THEN AbsVal(a) \div AbsVal(b)
                                   ELSE -(AbsVal(a) \div AbsVal(b))
CRem(a, b) == a - b * CDiv(a, b)

\* x86 sal/sar/shr use the count modulo the word width (a C shift by a
\* count outside 0..31 is undefined; this is what the build executes).
ShiftCount(b) == b % W

\* add_to_xor: the result of a two-operand opcode of i_iadd..i_ixor.  The
\* long/float/double opcodes of that range reach `default` and yield 0.  A
\* zero divisor is skipped by idiv (result stays 0); irem falls through
\* into the i_ineg case.
BinOp(op, a, b) ==
    CASE op = i_iadd  -> Wrap(a + b)
      [] op = i_isub  -> Wrap(a - b)
      [] op = i_imul  -> Wrap(a * b)
      [] op = i_idiv  -> IF b # 0 THEN CDiv(a, b) ELSE 0
      [] op = i_irem  -> IF b # 0 THEN CRem(a, b) ELSE Wrap(-a)
      [] op = i_ishl  -> Wrap(a * 2 ^ ShiftCount(b))
      [] op = i_ishr  -> a \div 2 ^ ShiftCount(b)
      [] op = i_iushr -> Wrap(Unsigned(a) \div 2 ^ ShiftCount(b))
      [] op = i_iand  -> Wrap(Unsigned(a) & Unsigned(b))
      [] op = i_ior   -> Wrap(Unsigned(a) | Unsigned(b))
      [] op = i_ixor  -> Wrap(Unsigned(a) ^^ Unsigned(b))
      [] OTHER        -> 0

\* jump: the comparison of each conditional branch; ifeq..ifle compare
\* with 0, if_icmpeq..if_icmple compare the two popped operands.
Holds(op, a, b) ==
    LET rel == (op - i_ifeq) % 6 IN
    CASE rel = 0 -> a = b
      [] rel = 1 -> a # b
      [] rel = 2 -> a < b
      [] rel = 3 -> a >= b
      [] rel = 4 -> a > b
      [] rel = 5 -> a <= b

\* Variant with a bug: the offset taken from the next instruction.
BranchTargetNextInstr(pc, offset) == pc + offset + 3

\* `*pc += offset - 1` followed by the loop's `pc++`.
BranchTarget(pc, offset) == pc + offset

-----------------------------------------------------------------------------
(* Decoding the instruction at the current frame's pc.                     *)
Top == frames[Len(frames)]
Meth == Methods[Top.m]
Code == Meth.code
Opc == Code[Top.pc + 1]                 \* method->code.code[pc]
Imm(k) == Code[Top.pc + 1 + k]          \* method->code.code[pc + k]
Stk == Top.stack
Sp == Len(Stk)                          \* stack_p
StackAt(o) == Stk[Sp + o + 1]           \* stack[stack_p + o]
Pop(n) == SubSeq(Stk, 1, Sp - n)

\* The encoded width of an instruction: how far pc moves past it.
Width(op) ==
    CASE op \in {i_bipush, i_ldc, i_iload, i_istore, i_aload, i_astore,
                 i_newarray}                                         -> 2
      [] op \in {i_sipush, i_iinc, i_goto, i_getstatic, i_invokevirtual,
                 i_invokestatic} \cup IfRange                        -> 3
      [] OTHER                                                       -> 1

\* Variant with a bug: ineg handled like the two-operand opcodes.
ArithSlotsNoNeg(op) == {-2, -1}

\* add_to_xor reads stack[stack_p - 1] for ineg, else the top two slots.
ArithSlots(op) == IF op = i_ineg THEN {-1} ELSE {-2, -1}

\* invokestatic's operand: the method index, high byte first.
CallIndex == Imm(1) * 256 + Imm(2)
Callee == Methods[CallIndex]

\* The slots the callee's parameters are copied from, when it exists.
CallParams ==
    IF CallIndex \in DOMAIN Methods THEN -Callee.nparams .. -1 ELSE {}

\* The offsets o of the slots stack[stack_p + o] a handler reads or writes.
StackSlots(op) ==
    CASE op \in IaddToIxor                              -> ArithSlots(op)
      [] op \in IconstRange \cup ILoadN \cup AloadN
                \cup {i_bipush, i_sipush, i_ldc, i_iload, i_aload} -> {0}
      [] op \in IStoreN \cup AstoreN \cup {i_istore, i_astore,
                i_newarray, i_arraylength, i_ireturn, i_areturn} -> {-1}
      [] op \in i_ifeq .. i_ifle                        -> {-1}
      [] op \in IfRange                                 -> {-2, -1}
      [] op \in {i_invokevirtual, i_dup}                -> {-1, 0}
      [] op = i_iastore                                 -> {-3, -2, -1}
      [] op = i_iaload                                  -> {-2, -1}
      [] op = i_invokestatic                            -> CallParams
      [] OTHER                                          -> {}

\* The locals slot a handler reads or writes.
LocalSlots(op) ==
    CASE op \in {i_iload, i_istore, i_aload, i_astore, i_iinc} -> {Imm(1)}
      [] op \in ILoadN  -> {op - i_iload_0}
      [] op \in AloadN  -> {op - i_aload_0}
      [] op \in IStoreN -> {op - i_istore_0}
      [] op \in AstoreN -> {op - i_astore_0}
      [] OTHER          -> {}

ValidHandle(h) == h \in 0 .. Len(heap) - 1
\* arr[index + 1] lies inside the malloc'd block of array h.
InBlock(h, i) == ValidHandle(h) /\ i + 1 \in DOMAIN heap[h + 1]

\* The accesses the handler makes to the constant pool and the heap.
ObjectsOK(op) ==
    CASE op = i_ldc         -> Imm(1) \in DOMAIN ConstPool
      [] op = i_newarray    -> StackAt(-1) >= 0
      [] op = i_arraylength -> ValidHandle(StackAt(-1))
      [] op = i_iaload      -> InBlock(StackAt(-2), StackAt(-1))
      [] op = i_iastore     -> InBlock(StackAt(-3), StackAt(-2))
      [] op = i_invokestatic ->
            IF CallIndex \in DOMAIN Methods
            THEN Callee.nparams <= Callee.max_locals ELSE TRUE
      [] OTHER              -> TRUE

\* Every memory access of the handler stays inside its object.
Safe ==
    /\ Top.pc + Width(Opc) <= Len(Code)
    /\ \A o \in StackSlots(Opc) : Sp + o \in 0 .. Meth.max_stack - 1
    /\ \A i \in LocalSlots(Opc) : i \in 0 .. Meth.max_locals - 1
    /\ ObjectsOK(Opc)

Running == status = "running"
\* The loop condition pc < code_length; pc is a size_t, so a negative branch
\* target is a huge pc and also ends the loop.
AtInstr == Top.pc \in 0 .. Len(Code) - 1

\* A handled instruction whose accesses are all in bounds.
Exec(ops) == Running /\ AtInstr /\ Opc \in ops /\ Safe

SetTop(f) == frames' = [frames EXCEPT ![Len(frames)] = f]

NoValue == [has_value |-> FALSE, value |-> 0]

-----------------------------------------------------------------------------
Init ==
    \E e \in Entries :
        /\ entry = e
        /\ frames = << [m |-> e[1], pc |-> 0, stack |-> << >>,
                        locals |-> [i \in 0 .. Methods[e[1]].max_locals - 1 |->
                                      IF i < Len(e[2]) THEN e[2][i + 1] ELSE 0]] >>
        /\ heap = << >>
        /\ out = << >>
        /\ status = "running"
        /\ result = NoValue

\* idiv or irem of INT_MIN by -1: the x86 idiv instruction raises SIGFPE.
DivTraps == Opc \in {i_idiv, i_irem} /\ StackAt(-2) = MinInt /\ StackAt(-1) = -1

AddToXor ==
    /\ Exec(IaddToIxor)
    /\ ~DivTraps
    /\ SetTop([Top EXCEPT
                 !.stack = IF Opc = i_ineg
                           THEN Append(Pop(1), Wrap(-StackAt(-1)))
                           ELSE Append(Pop(2), BinOp(Opc, StackAt(-2), StackAt(-1))),
                 !.pc = @ + 1])
    /\ UNCHANGED <<heap, out, status, result, entry>>

ArithTrap ==
    /\ Exec({i_idiv, i_irem})
    /\ DivTraps
    /\ status' = "sigfpe"
    /\ UNCHANGED <<frames, heap, out, result, entry>>

\* i_const, bi_push, si_push and ldc push a constant.
ConstValue(op) ==
    CASE op \in IconstRange -> op - i_iconst_0
      [] op = i_bipush      -> SignedByte(Imm(1))
      [] op = i_sipush      -> SignedShort(Imm(1), Imm(2))
      [] op = i_ldc         -> Wrap(ConstPool[Imm(1)])

PushConst ==
    /\ Exec(IconstRange \cup {i_bipush, i_sipush, i_ldc})
    /\ SetTop([Top EXCEPT !.stack = Append(@, ConstValue(Opc)),
                          !.pc = @ + Width(Opc)])
    /\ UNCHANGED <<heap, out, status, result, entry>>

\* i_load, i_iload_nums, aload, aload_nums.
Load ==
    /\ Exec(ILoadN \cup AloadN \cup {i_iload, i_aload})
    /\ \E i \in LocalSlots(Opc) :
          SetTop([Top EXCEPT !.stack = Append(@, Top.locals[i]),
                             !.pc = @ + Width(Opc)])
    /\ UNCHANGED <<heap, out, status, result, entry>>

\* i_store, i_istore_nums, astore, astore_nums.
Store ==
    /\ Exec(IStoreN \cup AstoreN \cup {i_istore, i_astore})
    /\ \E i \in LocalSlots(Opc) :
          SetTop([Top EXCEPT !.locals[i] = StackAt(-1),
                             !.stack = Pop(1),
                             !.pc = @ + Width(Opc)])
    /\ UNCHANGED <<heap, out, status, result, entry>>

IInc ==
    /\ Exec({i_iinc})
    /\ SetTop([Top EXCEPT !.locals[Imm(1)] = Wrap(@ + SignedByte(Imm(2))),
                          !.pc = @ + 3])
    /\ UNCHANGED <<heap, out, status, result, entry>>

Jump ==
    /\ Exec(IfRange)
    /\ LET two == Opc >= i_if_icmpeq
           a == IF two THEN StackAt(-2) ELSE StackAt(-1)
           b == IF two THEN StackAt(-1) ELSE 0
       IN SetTop([Top EXCEPT
                    !.stack = Pop(IF two THEN 2 ELSE 1),
                    !.pc = IF Holds(Opc, a, b)
                           THEN BranchTarget(@, SignedShort(Imm(1), Imm(2)))
                           ELSE @ + 3])
    /\ UNCHANGED <<heap, out, status, result, entry>>

GoTo ==
    /\ Exec({i_goto})
    /\ SetTop([Top EXCEPT !.pc = BranchTarget(@, SignedShort(Imm(1), Imm(2)))])
    /\ UNCHANGED <<heap, out, status, result, entry>>

\* getstatic System.out pushes nothing: the PrintStream is never on the stack.
GetStatic ==
    /\ Exec({i_getstatic})
    /\ SetTop([Top EXCEPT !.pc = @ + 3])
    /\ UNCHANGED <<heap, out, status, result, entry>>

\* invoke_virtual: println of the top of the stack.
InvokeVirtual ==
    /\ Exec({i_invokevirtual})
    /\ out' = Append(out, StackAt(-1))
    /\ SetTop([Top EXCEPT !.stack = Pop(1), !.pc = @ + 3])
    /\ UNCHANGED <<heap, status, result, entry>>

Nop ==
    /\ Exec({i_nop})
    /\ SetTop([Top EXCEPT !.pc = @ + 1])
    /\ UNCHANGED <<heap, out, status, result, entry>>

Dup ==
    /\ Exec({i_dup})
    /\ SetTop([Top EXCEPT !.stack = Append(@, StackAt(-1)), !.pc = @ + 1])
    /\ UNCHANGED <<heap, out, status, result, entry>>

\* newarray: a block of count + 1 words, slot 0 the count, added to the heap.
NewArray ==
    /\ Exec({i_newarray})
    /\ LET count == StackAt(-1) IN
       heap' = Append(heap, [i \in 0 .. count |-> IF i = 0 THEN count ELSE 0])
    /\ SetTop([Top EXCEPT !.stack = Append(Pop(1), Len(heap)), !.pc = @ + 2])
    /\ UNCHANGED <<out, status, result, entry>>

ArrayLength ==
    /\ Exec({i_arraylength})
    /\ SetTop([Top EXCEPT !.stack = Append(Pop(1), heap[StackAt(-1) + 1][0]),
                          !.pc = @ + 1])
    /\ UNCHANGED <<heap, out, status, result, entry>>

\* Variant with a bug: element i written to arr[i], not arr[i + 1].
IAStoreUnshifted ==
    /\ Exec({i_iastore})
    /\ heap' = [heap EXCEPT ![StackAt(-3) + 1][StackAt(-2)] = StackAt(-1)]
    /\ SetTop([Top EXCEPT !.stack = Pop(3), !.pc = @ + 1])
    /\ UNCHANGED <<out, status, result, entry>>

IAStore ==
    /\ Exec({i_iastore})
    /\ heap' = [heap EXCEPT ![StackAt(-3) + 1][StackAt(-2) + 1] = StackAt(-1)]
    /\ SetTop([Top EXCEPT !.stack = Pop(3), !.pc = @ + 1])
    /\ UNCHANGED <<out, status, result, entry>>

IALoad ==
    /\ Exec({i_iaload})
    /\ SetTop([Top EXCEPT
                 !.stack = Append(Pop(2), heap[StackAt(-2) + 1][StackAt(-1) + 1]),
                 !.pc = @ + 1])
    /\ UNCHANGED <<heap, out, status, result, entry>>

RoomForCall == Len(frames) < MaxDepth

\* Variant with a bug: the arguments are copied in reverse order.
CalleeLocalsReversed(callee, n) ==
    [i \in 0 .. callee.max_locals - 1 |-> IF i < n THEN Stk[Sp - i] ELSE 0]

\* new_locals[idx] = stack[stack_p - (num_params - idx)]: the deepest
\* argument becomes local 0; the other locals are memset to 0.
CalleeLocals(callee, n) ==
    [i \in 0 .. callee.max_locals - 1 |-> IF i < n THEN Stk[Sp - n + i + 1] ELSE 0]

InvokeStatic ==
    /\ Exec({i_invokestatic})
    /\ CallIndex \in DOMAIN Methods
    /\ RoomForCall
    /\ frames' = Append([frames EXCEPT ![Len(frames)].stack = Pop(Callee.nparams)],
                        [m |-> CallIndex, pc |-> 0, stack |-> << >>,
                         locals |-> CalleeLocals(Callee, Callee.nparams)])
    /\ UNCHANGED <<heap, out, status, result, entry>>

\* assert(new_method != false) fails: the process aborts.
CallAbort ==
    /\ Exec({i_invokestatic})
    /\ CallIndex \notin DOMAIN Methods
    /\ status' = "abort"
    /\ UNCHANGED <<frames, heap, out, result, entry>>

\* One activation too many for the native stack: the process is killed.
CallOverflow ==
    /\ Exec({i_invokestatic})
    /\ CallIndex \in DOMAIN Methods
    /\ ~RoomForCall
    /\ status' = "overflow"
    /\ UNCHANGED <<frames, heap, out, result, entry>>

\* The activation returns res.  The outermost one ends the run; otherwise
\* the caller finishes its invokestatic: it pushes a value, if there is
\* one, and moves pc past the 3-byte instruction.
Caller == frames[Len(frames) - 1]

ResultFits(res) ==
    IF Len(frames) > 1 /\ res.has_value
    THEN Len(Caller.stack) < Methods[Caller.m].max_stack
    ELSE TRUE

\* Variant with a bug: the caller's pc is not moved past its invokestatic.
FinishNoAdvance(res) ==
    IF Len(frames) = 1
    THEN /\ frames' = << >>
         /\ status' = "returned"
         /\ result' = res
    ELSE /\ frames' = Append(SubSeq(frames, 1, Len(frames) - 2),
                             [Caller EXCEPT
                                !.stack = IF res.has_value THEN Append(@, res.value) ELSE @])
         /\ UNCHANGED <<status, result>>

Finish(res) ==
    IF Len(frames) = 1
    THEN /\ frames' = << >>
         /\ status' = "returned"
         /\ result' = res
    ELSE /\ frames' = Append(SubSeq(frames, 1, Len(frames) - 2),
                             [Caller EXCEPT
                                !.stack = IF res.has_value THEN Append(@, res.value) ELSE @,
                                !.pc = @ + 3])
         /\ UNCHANGED <<status, result>>

\* The value an activation returns: ireturn/areturn yield stack[stack_p - 1],
\* return and running off the end of the code yield no value.
ReturnValue ==
    IF AtInstr /\ Opc \in {i_ireturn, i_areturn}
    THEN [has_value |-> TRUE, value |-> StackAt(-1)]
    ELSE NoValue

ReturnInstr == AtInstr /\ Opc \in {i_ireturn, i_areturn, i_return} /\ Safe

Return ==
    /\ Running
    /\ ReturnInstr \/ ~AtInstr
    /\ ResultFits(ReturnValue)
    /\ Finish(ReturnValue)
    /\ UNCHANGED <<heap, out, entry>>

-----------------------------------------------------------------------------
(* The ways the process stops other than returning from the outermost call. *)

\* default: fprintf(stderr, "Unhandled value!"); exit(1)
Unhandled ==
    /\ Running /\ AtInstr
    /\ Opc \notin Handled
    /\ status' = "unhandled"
    /\ UNCHANGED <<frames, heap, out, result, entry>>

\* A handler reads or writes outside the code, the stack, the locals, the
\* constant pool or a heap block, or the callee's value is pushed onto a
\* full caller stack.
UndefinedAccess ==
    /\ Running
    /\ \/ AtInstr /\ Opc \in Handled /\ ~Safe
       \/ (ReturnInstr \/ ~AtInstr) /\ ~ResultFits(ReturnValue)
    /\ status' = "ub"
    /\ UNCHANGED <<frames, heap, out, result, entry>>

\* The process has stopped; nothing changes any more.
Halted ==
    /\ ~Running
    /\ UNCHANGED vars

Next ==
    \/ AddToXor \/ ArithTrap \/ PushConst \/ Load \/ Store \/ IInc
    \/ Jump \/ GoTo \/ GetStatic \/ InvokeVirtual \/ Nop \/ Dup
    \/ NewArray \/ ArrayLength \/ IAStore \/ IALoad
    \/ InvokeStatic \/ CallAbort \/ CallOverflow \/ Return
    \/ Unhandled \/ UndefinedAccess \/ Halted

\* One thread runs the dispatch loop; it always takes its next step.
Spec == Init /\ [][Next]_vars /\ WF_vars(Next)

-----------------------------------------------------------------------------
Statuses == {"running", "returned", "sigfpe", "abort", "overflow", "unhandled", "ub"}

\* Each frame's locals array has the max_locals slots of its method.
FrameTypeOK(f) ==
    /\ f.m \in DOMAIN Methods
    /\ f.pc \in Int
    /\ f.stack \in Seq(Word)
    /\ f.locals \in [0 .. Methods[f.m].max_locals - 1 -> Word]

TypeOK ==
    /\ \A i \in DOMAIN frames : FrameTypeOK(frames[i])
    /\ Len(frames) <= MaxDepth
    /\ \A h \in DOMAIN heap : 0 \in DOMAIN heap[h] /\ \A i \in DOMAIN heap[h] : heap[h][i] \in Word
    /\ out \in Seq(Word)
    /\ status \in Statuses
    /\ result \in [has_value : BOOLEAN, value : Word]
    /\ (status = "running") => (frames # << >>)
    /\ (status = "returned") => (frames = << >>)

-----------------------------------------------------------------------------
(* Properties of the interpreter on any program.                           *)

\* Every array's length word (slot 0 of its block, read by arraylength) still
\* equals the length it was allocated with: iastore and iaload address
\* element i as arr[i + 1] and never touch the length word.
ArrayLengthStable ==
    \A h \in DOMAIN heap : heap[h][0] = Cardinality(DOMAIN heap[h]) - 1

\* The outermost execute() eventually returns: the program neither traps,
\* aborts, exhausts the native stack, meets an unhandled opcode, makes an
\* out-of-bounds access, nor loops forever.
Completes == <>(status = "returned")

=============================================================================
