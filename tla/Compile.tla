------------------------------ MODULE Compile ------------------------------
(***************************************************************************)
(* The TeenyBASIC-to-x86 compiler of src/assembly-compiler: compiler.c's   *)
(* main prints the header of basic_main (frame pointer, NUM_VARS stack     *)
(* slots), compiles the parsed program with compile_ast (compile.c) and    *)
(* prints the footer.  compile_ast folds the constant subexpressions of    *)
(* print, if and while expressions in place (compute_folds), emits the     *)
(* code that computes an expression into %rdi (with check_power_two        *)
(* turning `e * 2^k` into a shift), stores LET values in the variable's    *)
(* slot, and numbers the labels of IF and WHILE from two global counters.  *)
(*                                                                         *)
(* The AST is a store of nodes, because compute_folds rewrites nodes in    *)
(* place and passes pointers back: a node's address is its path in the     *)
(* tree the parser built (<< >> the root, then the child's position).     *)
(* A variable is its index name - 'A' + 1.  An emitted instruction is a   *)
(* record, not its text; Run gives each the meaning it has on x86-64.      *)
(***************************************************************************)
EXTENDS Integers, SequencesExt

CONSTANTS
    Sources,   \* the parsed programs: node stores rooted at << >>
    Xs,        \* what the slot of variable X may hold when nothing set it
    MaxSteps,  \* instructions Run executes before it calls a run endless
    MaxIters   \* while iterations Exec allows before it does

VARIABLES
    source,    \* the AST as the parser built it
    store,     \* the AST nodes as compile_ast leaves them
    folded,    \* print node -> where its local `expression` ended up
    code,      \* the instructions printed so far
    status     \* "parsed", "compiled", or "trap" (SIGFPE in the compiler)

vars == <<source, store, folded, code, status>>

ArithOps == {"+", "-", "*", "/"}
CmpOps == {"<", ">", "="}
X == 24

\* C's / on value_t: truncates toward zero.
CQuot(a, b) ==
    IF (a >= 0) = (b > 0) \/ a = 0 THEN (IF a < 0 THEN -a ELSE a) \div (IF b < 0 THEN -b ELSE b)
    ELSE -((IF a < 0 THEN -a ELSE a) \div (IF b < 0 THEN -b ELSE b))

\* left_val op= right_val in compute_folds.
Apply(op, a, b) ==
    CASE op = "+" -> a + b
      [] op = "-" -> a - b
      [] op = "*" -> a * b
      [] op = "/" -> CQuot(a, b)

-----------------------------------------------------------------------------
(* compute_folds                                                           *)

\* Variant with a bug: *node is not replaced by the folded child.
FoldedPtrKept(n, left) == n

\* *node = left: the folded node is the left operand, now holding the value.
FoldedPtr(n, left) == left

\* compute_folds(&n) on store s: the store afterwards, where the caller's
\* pointer then points, and whether a constant division by zero trapped.
\* Children are folded through copies of the child pointers (left, right),
\* so the node's own left and right fields are never updated.
RECURSIVE ComputeFolds(_, _)
ComputeFolds(s, n) ==
    LET op == s[n].op
        l0 == s[n].left
        r0 == s[n].right
        L == IF s[l0].type = "BIN" THEN ComputeFolds(s, l0)
             ELSE [st |-> s, ptr |-> l0, trap |-> FALSE]
        R == IF L.st[r0].type = "BIN" THEN ComputeFolds(L.st, r0)
             ELSE [st |-> L.st, ptr |-> r0, trap |-> FALSE]
        s2 == R.st
        left == L.ptr
        right == R.ptr
    IN IF L.trap \/ R.trap THEN [st |-> s2, ptr |-> n, trap |-> TRUE]
       ELSE IF s2[left].type = "NUM" /\ s2[right].type = "NUM" /\ op \in ArithOps
       THEN IF op = "/" /\ s2[right].value = 0
            THEN [st |-> s2, ptr |-> n, trap |-> TRUE]
            ELSE [st |-> [s2 EXCEPT ![left].value =
                              Apply(op, s2[left].value, s2[right].value)],
                  ptr |-> FoldedPtr(n, left), trap |-> FALSE]
       ELSE [st |-> s2, ptr |-> n, trap |-> FALSE]

\* The fold compile_ast applies to a PRINT, IF or WHILE expression.
FoldExpr(s, e) ==
    IF s[e].type = "BIN" THEN ComputeFolds(s, e) ELSE [st |-> s, ptr |-> e, trap |-> FALSE]

-----------------------------------------------------------------------------
(* compile_ast and check_power_two                                         *)

\* check_power_two: the right operand is a constant above 1 with one bit set.
PowerOfTwo(v) == v > 1 /\ \E k \in 1 .. v : 2 ^ k = v

\* Variant with a bug: the shift count is one short.
Log2OffByOne(v) == (CHOOSE k \in 1 .. v : 2 ^ k = v) - 1

\* shifted_right = log2(value), exact for a power of two.
Log2(v) == CHOOSE k \in 1 .. v : 2 ^ k = v

\* Variant with a bug: the operands are popped the other way round.
PopOperandsSwapped == << [i |-> "pop_rdi"], [i |-> "pop_rcx"] >>

\* pop %rcx, then pop %rdi: rdi gets the left operand, rcx the right one.
PopOperands == << [i |-> "pop_rcx"], [i |-> "pop_rdi"] >>

\* The instructions for op applied to %rdi and %rcx; a comparison only
\* sets the flags.
OpCode(op) ==
    CASE op \in CmpOps -> << [i |-> "cmp"] >>
      [] op = "+" -> << [i |-> "addq"] >>
      [] op = "-" -> << [i |-> "subq"] >>
      [] op = "*" -> << [i |-> "imulq"] >>
      [] op = "/" -> << [i |-> "mov_rdi_rax"], [i |-> "cqto"], [i |-> "idiv_rcx"],
                       [i |-> "mov_rax_rdi"] >>

\* -0x%x(%rbp) of a variable: (var - 'A' + 1) * sizeof(value_t).
Slot(var) == var * 8

\* compile_ast on an expression node: code leaving its value in %rdi.
RECURSIVE Emit(_, _)
Emit(s, n) ==
    CASE s[n].type = "NUM" -> << [i |-> "movq_imm", v |-> s[n].value] >>
      [] s[n].type = "VAR" -> << [i |-> "movq_load", v |-> Slot(s[n].var)] >>
      [] s[n].type = "BIN" ->
           LET r == s[n].right IN
           IF s[r].type = "NUM" /\ s[n].op = "*" /\ PowerOfTwo(s[r].value)
           THEN Emit(s, s[n].left) \o << [i |-> "shlq", v |-> Log2(s[r].value)] >>
           ELSE Emit(s, s[n].left) \o << [i |-> "push"] >>
                \o Emit(s, r) \o << [i |-> "push"] >>
                \o PopOperands \o OpCode(s[n].op)

Label(kind, k) == [i |-> "label", v |-> [l |-> kind, n |-> k]]
Jump(j, kind, k) == [i |-> j, v |-> [l |-> kind, n |-> k]]

\* The two jumps after an IF or WHILE condition: to `yes` when it holds,
\* to `no` otherwise; none for an operator that is not a comparison.
CondJumps(op, yes, no, k) ==
    CASE op = "<" -> << Jump("jl", yes, k), Jump("jge", no, k) >>
      [] op = ">" -> << Jump("jg", yes, k), Jump("jle", no, k) >>
      [] op = "=" -> << Jump("je", yes, k), Jump("jne", no, k) >>
      [] OTHER -> << >>

EndIfLabel(cur, now) == cur

\* compile_ast(n) from compiler state c = [st, code, ifl, whl, trap,
\* folded]: ifl and whl are if_local and while_local, trap a SIGFPE in
\* compute_folds (which ends the compiler), folded where each PRINT's
\* local `expression` points after folding.
RECURSIVE CompileAst(_, _), CompileSeq(_, _, _)
CompileAst(c, n) ==
    LET s == c.st
        t == s[n].type
        Emitted(c1, ins) == [c1 EXCEPT !.code = @ \o ins]
    IN
    IF c.trap THEN c
    ELSE CASE t \in {"NUM", "VAR", "BIN"} -> Emitted(c, Emit(s, n))
      [] t = "PRINT" ->
           LET f == FoldExpr(s, s[n].expr)
           IN IF f.trap THEN [c EXCEPT !.st = f.st, !.trap = TRUE]
              ELSE [c EXCEPT !.st = f.st,
                             !.code = @ \o Emit(f.st, f.ptr) \o << [i |-> "call_print_int"] >>,
                             !.folded = (n :> f.ptr) @@ @]
      [] t = "SEQ" -> CompileSeq(c, s[n].stmts, 1)
      [] t = "LET" ->
           Emitted(CompileAst(c, s[n].value), << [i |-> "movq_store", v |-> Slot(s[n].var)] >>)
      [] t = "IF" ->
           LET k == c.ifl + 1
               f == FoldExpr(s, s[n].cond)
               c1 == [c EXCEPT !.ifl = k, !.st = f.st]
               c2 == CompileAst(Emitted(c1, Emit(f.st, f.ptr)
                                    \o CondJumps(s[s[n].cond].op, "IF",
                                                 IF s[n].hasElse THEN "ELSE" ELSE "END_IF", k)
                                    \o << Label("IF", k) >>),
                                s[n].then)
               c3 == Emitted(c2, << Jump("jmp", "END_IF", EndIfLabel(k, c2.ifl)), Label("ELSE", k) >>)
               c4 == IF s[n].hasElse THEN CompileAst(c3, s[n].else) ELSE c3
           IN IF f.trap THEN [c EXCEPT !.st = f.st, !.trap = TRUE]
              ELSE Emitted(c4, << Label("END_IF", k) >>)
      [] t = "WHILE" ->
           LET k == c.whl + 1
               f == FoldExpr(s, s[n].cond)
               c1 == [c EXCEPT !.whl = k, !.st = f.st]
               c2 == CompileAst(Emitted(c1, << Label("START_WHILE", k) >> \o Emit(f.st, f.ptr)
                                    \o CondJumps(s[s[n].cond].op, "WHILE", "WHILE_END", k)
                                    \o << Label("WHILE", k) >>),
                                s[n].body)
           IN IF f.trap THEN [c EXCEPT !.st = f.st, !.trap = TRUE]
              ELSE Emitted(c2, << Jump("jmp", "START_WHILE", k), Label("WHILE_END", k) >>)
CompileSeq(c, stmts, i) ==
    IF i > Len(stmts) THEN c ELSE CompileSeq(CompileAst(c, stmts[i]), stmts, i + 1)

-----------------------------------------------------------------------------
(* compiler.c                                                              *)

NUM_VARS == 26

\* Variant with a bug: the slots are sized as ints.
FrameSizeInt == NUM_VARS * 4

\* subq $NUM_VARS * sizeof(value_t), %rsp
FrameSize == NUM_VARS * 8

\* header() and footer().
Header == << [i |-> "push_rbp"], [i |-> "mov_rsp_rbp"], [i |-> "subq_rsp", v |-> FrameSize] >>
Footer == << [i |-> "leave"], [i |-> "ret"] >>

Init ==
    /\ source \in Sources
    /\ store = source
    /\ folded = << >>
    /\ code = Header
    /\ status = "parsed"

\* main after header(): compile_ast(ast), which returns true, free_ast and
\* footer(); a SIGFPE in compute_folds kills the compiler instead.
Main ==
    /\ status = "parsed"
    /\ LET c == CompileAst([st |-> store, code |-> code, ifl |-> 0, whl |-> 0,
                            trap |-> FALSE, folded |-> << >>], << >>)
       IN IF c.trap
          THEN /\ status' = "trap"
               /\ store' = c.st
               /\ UNCHANGED <<code, folded>>
          ELSE /\ store' = c.st
               /\ folded' = c.folded
               /\ code' = c.code \o Footer
               /\ status' = "compiled"
    /\ UNCHANGED source

\* The compiler has exited.
Stopped ==
    /\ status # "parsed"
    /\ UNCHANGED vars

Next == Main \/ Stopped

Spec == Init /\ [][Next]_vars /\ WF_vars(Main)

-----------------------------------------------------------------------------
(* The meaning of the emitted code on x86-64.  basic_main is entered by a  *)
(* call, so %rsp is 8 past a 16-byte boundary; the caller's %rbp and the   *)
(* return address sit above it.  X's slot holds whatever the stack held;   *)
(* any other slot that nothing stored to is unknown, and reading it stops  *)
(* the run with "undef".  Only cmp sets the flags the jumps read: every    *)
(* conditional jump compile_ast emits directly follows one.               *)

EntryRsp == -8
CallerRbp == 4096
XSlot == EntryRsp - 8 - Slot(X)

Machine0(v) ==
    [pc |-> 1, reg |-> [rdi |-> 0, rcx |-> 0, rax |-> 0, rdx |-> 0],
     rsp |-> EntryRsp, rbp |-> CallerRbp, mem |-> (XSlot :> v),
     lt |-> FALSE, eq |-> FALSE, out |-> << >>, stop |-> "none", sound |-> TRUE]

CondJumpOps == {"jl", "jge", "jg", "jle", "je", "jne"}

Taken(j, m) ==
    CASE j = "jl" -> m.lt
      [] j = "jge" -> ~m.lt
      [] j = "jg" -> ~m.lt /\ ~m.eq
      [] j = "jle" -> m.lt \/ m.eq
      [] j = "je" -> m.eq
      [] j = "jne" -> ~m.eq
      [] j = "jmp" -> TRUE

\* One instruction.  sound records the frame discipline: variable slots
\* lie inside the frame, print_int is called with %rsp 16-byte aligned,
\* and ret finds the caller's %rsp and %rbp restored.
Step(c, m) ==
    LET ins == c[m.pc]
        r == m.reg
        nx == [m EXCEPT !.pc = @ + 1]
        Set(x, val) == [nx EXCEPT !.reg[x] = val]
        Push(val) == [nx EXCEPT !.rsp = @ - 8, !.mem = ((m.rsp - 8) :> val) @@ @]
        Pop(x) == [Set(x, m.mem[m.rsp]) EXCEPT !.rsp = @ + 8]
        Addr == m.rbp - ins.v
        InFrame == Addr >= m.rsp
        IsTarget(k) == c[k].i = "label" /\ c[k].v = ins.v
    IN CASE ins.i = "push_rbp" -> Push(m.rbp)
         [] ins.i = "mov_rsp_rbp" -> [nx EXCEPT !.rbp = m.rsp]
         [] ins.i = "subq_rsp" -> [nx EXCEPT !.rsp = @ - ins.v]
         [] ins.i = "movq_imm" -> Set("rdi", ins.v)
         [] ins.i = "movq_load" ->
              IF Addr \in DOMAIN m.mem
              THEN [Set("rdi", m.mem[Addr]) EXCEPT !.sound = @ /\ InFrame]
              ELSE [m EXCEPT !.stop = "undef"]
         [] ins.i = "movq_store" ->
              [nx EXCEPT !.mem = (Addr :> r.rdi) @@ @, !.sound = @ /\ InFrame]
         [] ins.i = "push" -> Push(r.rdi)
         [] ins.i = "pop_rcx" -> Pop("rcx")
         [] ins.i = "pop_rdi" -> Pop("rdi")
         [] ins.i = "addq" -> Set("rdi", r.rdi + r.rcx)
         [] ins.i = "subq" -> Set("rdi", r.rdi - r.rcx)
         [] ins.i = "imulq" -> Set("rdi", r.rdi * r.rcx)
         [] ins.i = "shlq" -> Set("rdi", r.rdi * 2 ^ ins.v)
         [] ins.i = "mov_rdi_rax" -> Set("rax", r.rdi)
         [] ins.i = "cqto" -> Set("rdx", IF r.rax < 0 THEN -1 ELSE 0)
         [] ins.i = "idiv_rcx" ->
              IF r.rcx = 0 THEN [m EXCEPT !.stop = "trap"]
              ELSE [nx EXCEPT !.reg.rax = CQuot(r.rax, r.rcx),
                              !.reg.rdx = r.rax - CQuot(r.rax, r.rcx) * r.rcx]
         [] ins.i = "mov_rax_rdi" -> Set("rdi", r.rax)
         [] ins.i = "cmp" -> [nx EXCEPT !.lt = r.rdi < r.rcx, !.eq = r.rdi = r.rcx]
         [] ins.i \in CondJumpOps \cup {"jmp"} ->
              IF ~Taken(ins.i, m) THEN nx
              ELSE IF \E k \in DOMAIN c : IsTarget(k)
              THEN [m EXCEPT !.pc = CHOOSE k \in DOMAIN c : IsTarget(k)]
              ELSE [m EXCEPT !.stop = "badjump"]
         [] ins.i = "label" -> nx
         [] ins.i = "call_print_int" ->
              [nx EXCEPT !.out = Append(@, r.rdi), !.sound = @ /\ m.rsp % 16 = 0]
         [] ins.i = "leave" -> [nx EXCEPT !.rsp = m.rbp + 8, !.rbp = m.mem[m.rbp]]
         [] ins.i = "ret" ->
              [m EXCEPT !.stop = "ret",
                        !.sound = @ /\ m.rsp = EntryRsp /\ m.rbp = CallerRbp]

\* At most n instructions from m, split in halves so that the recursion
\* is only log n deep; a stopped machine stays as it is.
RECURSIVE Steps(_, _, _)
Steps(c, m, n) ==
    CASE m.stop # "none" -> m
      [] m.pc > Len(c) -> [m EXCEPT !.stop = "ret"]
      [] n = 1 -> Step(c, m)
      [] OTHER -> Steps(c, Steps(c, m, n \div 2), n - n \div 2)

\* The code run for at most fuel instructions.
Run(c, m, fuel) ==
    LET r == Steps(c, m, fuel) IN
    IF r.stop = "none" THEN [r EXCEPT !.stop = "diverge"] ELSE r

\* basic_main run with v in X's slot.
Output(c, v) == Run(c, Machine0(v), MaxSteps)

-----------------------------------------------------------------------------
(* TeenyBASIC's meaning of a program: what it prints and how it stops.     *)

\* The value of expression n under env (variable -> value): ok is FALSE,
\* with why, for a division by zero or a variable nothing set.
RECURSIVE Eval(_, _, _)
Eval(s, n, env) ==
    CASE s[n].type = "NUM" -> [ok |-> TRUE, val |-> s[n].value, why |-> "none"]
      [] s[n].type = "VAR" ->
           IF s[n].var \in DOMAIN env THEN [ok |-> TRUE, val |-> env[s[n].var], why |-> "none"]
           ELSE [ok |-> FALSE, val |-> 0, why |-> "undef"]
      [] s[n].type = "BIN" ->
           LET a == Eval(s, s[n].left, env)
               b == Eval(s, s[n].right, env)
           IN CASE ~a.ok -> a
                [] ~b.ok -> b
                [] s[n].op = "/" /\ b.val = 0 -> [ok |-> FALSE, val |-> 0, why |-> "trap"]
                [] s[n].op \in ArithOps -> [ok |-> TRUE, val |-> Apply(s[n].op, a.val, b.val), why |-> "none"]
                [] OTHER -> [ok |-> TRUE, val |-> a.val, why |-> "none"]

\* Whether the comparison at node n holds under env.
Holds(s, n, env) ==
    LET a == Eval(s, s[n].left, env).val
        b == Eval(s, s[n].right, env).val
    IN CASE s[n].op = "<" -> a < b
         [] s[n].op = ">" -> a > b
         [] s[n].op = "=" -> a = b

\* Statement n run from st = [env, out, stop, iters]; ex gives the
\* expression each PRINT prints (its expr field, or where folding put it).
RECURSIVE Exec(_, _, _, _), ExecSeq(_, _, _, _, _)
Exec(s, ex, n, st) ==
    LET t == s[n].type
        Stop(why) == [st EXCEPT !.stop = why]
        Cond == LET a == Eval(s, s[s[n].cond].left, st.env)
                    b == Eval(s, s[s[n].cond].right, st.env)
                IN IF ~a.ok THEN a ELSE b
    IN
    IF st.stop # "none" THEN st
    ELSE CASE t = "PRINT" ->
              LET e == Eval(s, ex[n], st.env)
              IN IF e.ok THEN [st EXCEPT !.out = Append(@, e.val)] ELSE Stop(e.why)
      [] t = "SEQ" -> ExecSeq(s, ex, s[n].stmts, 1, st)
      [] t = "LET" ->
              LET e == Eval(s, s[n].value, st.env)
              IN IF e.ok THEN [st EXCEPT !.env = (s[n].var :> e.val) @@ @] ELSE Stop(e.why)
      [] t = "IF" ->
              IF ~Cond.ok THEN Stop(Cond.why)
              ELSE IF Holds(s, s[n].cond, st.env) THEN Exec(s, ex, s[n].then, st)
              ELSE IF s[n].hasElse THEN Exec(s, ex, s[n].else, st)
              ELSE st
      [] t = "WHILE" ->
              IF ~Cond.ok THEN Stop(Cond.why)
              ELSE IF ~Holds(s, s[n].cond, st.env) THEN st
              ELSE IF st.iters >= MaxIters THEN Stop("diverge")
              ELSE Exec(s, ex, n, Exec(s, ex, s[n].body, [st EXCEPT !.iters = @ + 1]))
ExecSeq(s, ex, stmts, i, st) ==
    IF i > Len(stmts) THEN st ELSE ExecSeq(s, ex, stmts, i + 1, Exec(s, ex, stmts[i], st))

\* What running the program with v in X must print, and how it ends.
Meaning(s, ex, v) ==
    LET r == Exec(s, ex, << >>, [env |-> (X :> v), out |-> << >>, stop |-> "none", iters |-> 0])
    IN [out |-> r.out, stop |-> IF r.stop = "none" THEN "ret" ELSE r.stop]

Prints(s) == {n \in DOMAIN s : s[n].type = "PRINT"}
SourceExprs(s) == [n \in Prints(s) |-> s[n].expr]

\* The observable part of a run of the code.
Observed(c, v) == LET r == Output(c, v) IN [out |-> r.out, stop |-> r.stop]

-----------------------------------------------------------------------------
LabelKinds == {"IF", "ELSE", "END_IF", "START_WHILE", "WHILE", "WHILE_END"}

Plain == {"push_rbp", "mov_rsp_rbp", "push", "pop_rcx", "pop_rdi", "addq", "subq", "imulq",
          "mov_rdi_rax", "cqto", "idiv_rcx", "mov_rax_rdi", "cmp", "call_print_int", "leave",
          "ret"}

\* An instruction compile_ast, header() or footer() can print.
InstrOK(x) ==
    \/ x.i \in Plain /\ DOMAIN x = {"i"}
    \/ DOMAIN x = {"i", "v"} /\
       \/ x.i = "movq_imm" /\ x.v \in Int
       \/ x.i = "shlq" /\ x.v \in 1 .. 63
       \/ x.i \in {"movq_load", "movq_store"} /\ x.v \in {8 * k : k \in 1 .. NUM_VARS}
       \/ x.i = "subq_rsp" /\ x.v \in Nat
       \/ x.i \in {"label", "jmp"} \cup CondJumpOps /\ x.v \in [l : LabelKinds, n : Nat]

TypeOK ==
    /\ DOMAIN store = DOMAIN source
    /\ DOMAIN folded \subseteq Prints(source)
    /\ \A n \in DOMAIN folded : folded[n] \in DOMAIN store
    /\ \A k \in DOMAIN code : InstrOK(code[k])
    /\ status \in {"parsed", "compiled", "trap"}

\* Each label compile_ast prints is printed once (the assembler rejects a
\* program that defines one twice).
LabelsUnique(c) ==
    \A a, b \in DOMAIN c : c[a].i = "label" /\ c[b].i = "label" /\ c[b].v = c[a].v => a = b

ConstantFoldsToNum ==
    status = "compiled" =>
        \A n \in Prints(source) :
            (\A q \in DOMAIN source : IsPrefix(source[n].expr, q) => source[q].type # "VAR")
                => /\ store[folded[n]].type = "NUM"
                   /\ store[folded[n]].value = Eval(source, source[n].expr, << >>).val

\* The stack frame header() and footer() build is sound for the code
\* between them: every variable slot compile_ast addresses off %rbp lies
\* inside the NUM_VARS * sizeof(value_t) bytes below it, every call
\* print_int is made with %rsp 16-byte aligned, and ret returns with the
\* caller's %rsp and %rbp.
FrameDiscipline ==
    status = "compiled" => \A v \in Xs : Output(code, v).sound

\* Compiling keeps the meaning of the program: the compiled program prints
\* what the source prints and stops the same way for every value of X, and
\* the compiler dies in compute_folds only on a program every run of which
\* divides by zero.
CompilePreservesMeaning ==
    LET M(v) == Meaning(source, SourceExprs(source), v) IN
    /\ status = "trap" => \A v \in Xs : M(v).stop = "trap"
    /\ status = "compiled" => \A v \in Xs : M(v).stop # "diverge" => Observed(code, v) = M(v)
=============================================================================
