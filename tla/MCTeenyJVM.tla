---------------------------- MODULE MCTeenyJVM ----------------------------
(***************************************************************************)
(* Bytecode for TeenyJVM as javac emits it for small static methods, the   *)
(* calls the runs start with, and what the Java source of each method      *)
(* means: the reference the interpreter's output is checked against.       *)
(***************************************************************************)
EXTENDS TeenyJVM, TLC, SequencesExt

\* A method record as class-file parsing yields it.
M(code, stack, locals, params) ==
    [code |-> code, max_stack |-> stack, max_locals |-> locals, nparams |-> params]

(* static int fact(int n) { if (n <= 1) return 1; return n * fact(n - 1); } *)
Fact == M(<<26, 4, 163, 0, 5, 4, 172, 26, 26, 4, 100, 184, 0, 2, 104, 172>>, 3, 1, 1)

(* static void printFact(int n) { System.out.println(fact(n)); }           *)
PrintFact == M(<<178, 0, 7, 26, 184, 0, 2, 182, 0, 8, 177>>, 2, 1, 1)

(* static void squares(int n) {                                            *)
(*   int[] a = new int[n];                                                 *)
(*   for (int i = 0; i < n; i++) a[i] = i * i;                             *)
(*   int s = 0;                                                            *)
(*   for (int i = 0; i < a.length; i++) s += a[i];                         *)
(*   System.out.println(s); System.out.println(a.length); }                *)
Squares == M(<< 26, 188, 10, 76, 3, 61, 28, 26, 162, 0, 15,
                43, 28, 28, 28, 104, 79, 132, 2, 1, 167, 255, 242,
                3, 61, 3, 62, 29, 43, 190, 162, 0, 15,
                28, 43, 29, 46, 96, 61, 132, 3, 1, 167, 255, 241,
                178, 0, 7, 28, 182, 0, 8, 178, 0, 7, 43, 190, 182, 0, 8, 177 >>,
             4, 4, 1)

(* static int[] mkarr(int n) { return new int[n]; }                        *)
MkArr == M(<<26, 188, 10, 176>>, 1, 1, 1)

(* static void printLen(int n) { System.out.println(mkarr(n).length); }    *)
PrintLen == M(<<178, 0, 7, 26, 184, 0, 5, 190, 182, 0, 8, 177>>, 2, 1, 1)

(* static int misc(int x) {                                                *)
(*   int t = -300 + -6 + 1000;  t = t + t;  (a nop)                        *)
(*   int u = t; u -= 5;  int[] a = new int[2];  return x * u + a.length; } *)
Misc == M(<< 17, 254, 212, 16, 250, 96, 18, 20, 96, 89, 96, 0,
             54, 5, 132, 5, 251, 21, 5, 26, 104, 5, 188, 10,
             58, 4, 25, 4, 190, 96, 172 >>, 2, 6, 1)

(* static int test(int a, int b) { return a <cond> b ? 1 : 0; } for the    *)
(* twelve conditional branches; ifeq..ifle compare a with 0.               *)
BranchTest(k) ==
    IF k < 6 THEN M(<<26, i_ifeq + k, 0, 5, 3, 172, 4, 172>>, 1, 2, 2)
             ELSE M(<<26, 27, i_ifeq + k, 0, 5, 3, 172, 4, 172>>, 2, 2, 2)

(* static int op(int a, int b) { return a <op> b; }  (-a for ineg)         *)
ArithOps == <<i_iadd, i_isub, i_imul, i_idiv, i_irem, i_ineg,
              i_ishl, i_ishr, i_iushr, i_iand, i_ior, i_ixor>>
ArithTest(j) ==
    IF ArithOps[j] = i_ineg THEN M(<<26, 116, 172>>, 1, 2, 2)
                            ELSE M(<<26, 27, ArithOps[j], 172>>, 2, 2, 2)

(* static void minusOne() { int[] a = new int[3]; a[-1] = 9; }             *)
MinusOne == M(<<6, 188, 10, 75, 42, 2, 16, 9, 79, 177>>, 3, 1, 0)

(* static int mix(int a, int b, int c) { return (a - b) / c; }            *)
Mix == M(<<26, 27, 100, 28, 108, 172>>, 2, 3, 3)

(* static void printMix(int x) { System.out.println(mix(x, 5, 2)); }       *)
(* Three arguments: the first pushed must become local 0.                  *)
PrintMix == M(<<178, 0, 7, 26, 8, 5, 184, 0, 9, 182, 0, 8, 177>>, 4, 1, 1)

(* Programs that stop abnormally.  TeenyJVM has no verifier, so a class  *)
(* file with a wrong max_stack or a truncated instruction is also input.  *)

(* static void oob() { int[] a = new int[2]; System.out.println(a.length); *)
(*                     a[2] = 1; System.out.println(7); }                  *)
Oob == M(<< 5, 188, 10, 75, 178, 0, 7, 42, 190, 182, 0, 8,
            42, 5, 4, 79, 178, 0, 7, 16, 7, 182, 0, 8, 177 >>, 3, 1, 0)

(* static void printDiv(int a, int b) { System.out.println(a / b); }       *)
PrintDiv == M(<<178, 0, 7, 26, 27, 108, 182, 0, 8, 177>>, 2, 2, 2)

(* static void longOp() { System.out.println(5); long x = 0L; }           *)
LongOp == M(<<178, 0, 7, 16, 5, 182, 0, 8, 9, 63, 177>>, 2, 2, 0)

(* static void callMissing() { System.out.println(1); missing(); }        *)
(* where missing() is not in the class file.                               *)
CallMissing == M(<<178, 0, 7, 4, 182, 0, 8, 184, 0, 99, 177>>, 2, 0, 0)

(* static void negArr() { System.out.println(3); int[] a = new int[-1]; } *)
NegArr == M(<<178, 0, 7, 6, 182, 0, 8, 2, 188, 10, 75, 177>>, 2, 1, 0)

(* invokestatic fact with nothing on the stack to pass.                    *)
BadCall == M(<<184, 0, 2, 177>>, 1, 0, 0)

(* An invokestatic whose index bytes are cut off by the end of the code.   *)
Truncated == M(<<184, 0>>, 0, 0, 0)

(* static int seven() { return 7; }, and a caller declaring max_stack 0.   *)
Seven == M(<<16, 7, 172>>, 1, 0, 0)
NoRoom == M(<<184, 0, 66, 177>>, 0, 0, 0)

FactIdx == 2
PrintFactIdx == 3
SquaresIdx == 4
MkArrIdx == 5
PrintLenIdx == 6
MiscIdx == 7
MixIdx == 9
PrintMixIdx == 1
BranchIdx(k) == 10 + k
ArithIdx(j) == 30 + j
MinusOneIdx == 50
OobIdx == 60
PrintDivIdx == 61
LongOpIdx == 62
CallMissingIdx == 63
BadCallIdx == 64
TruncatedIdx == 65
SevenIdx == 66
NoRoomIdx == 67
NegArrIdx == 68

\* The one-operator methods, and the programs whose result Expected gives.
ArithIdxs == {ArithIdx(j) : j \in 1 .. 12}
ProgramIdxs == {PrintFactIdx, SquaresIdx, PrintLenIdx, MiscIdx, PrintMixIdx}
               \cup {BranchIdx(k) : k \in 0 .. 11}

MCMethods ==
    (FactIdx :> Fact) @@ (PrintFactIdx :> PrintFact) @@ (SquaresIdx :> Squares)
    @@ (MkArrIdx :> MkArr) @@ (PrintLenIdx :> PrintLen) @@ (MiscIdx :> Misc)
    @@ (MixIdx :> Mix) @@ (PrintMixIdx :> PrintMix)
    @@ [i \in {BranchIdx(k) : k \in 0 .. 11} |-> BranchTest(i - 10)]
    @@ [i \in {ArithIdx(j) : j \in 1 .. 12} |-> ArithTest(i - 30)]
    @@ (MinusOneIdx :> MinusOne)
    @@ (OobIdx :> Oob) @@ (PrintDivIdx :> PrintDiv) @@ (LongOpIdx :> LongOp)
    @@ (CallMissingIdx :> CallMissing) @@ (BadCallIdx :> BadCall)
    @@ (TruncatedIdx :> Truncated) @@ (SevenIdx :> Seven) @@ (NoRoomIdx :> NoRoom)
    @@ (NegArrIdx :> NegArr)

MCConstPool == 20 :> 1000

MCMaxDepth == 12

MCW == 16

-----------------------------------------------------------------------------
(* The meaning of the Java source, with ints of W bits.                    *)
ToSigned(u) == IF u > MaxInt THEN u - Modulus ELSE u

RECURSIVE JavaFact(_)
JavaFact(n) == IF n <= 1 THEN 1 ELSE ToSigned((n * JavaFact(n - 1)) % Modulus)

RECURSIVE SumSquares(_)
SumSquares(n) == IF n = 0 THEN 0 ELSE (n - 1) * (n - 1) + SumSquares(n - 1)

JavaCond(k, a, b) ==
    LET y == IF k < 6 THEN 0 ELSE b IN
    CASE k % 6 = 0 -> a = y
      [] k % 6 = 1 -> a # y
      [] k % 6 = 2 -> a < y
      [] k % 6 = 3 -> a >= y
      [] k % 6 = 4 -> a > y
      [] k % 6 = 5 -> a <= y

Bit(x, i) == ((x % Modulus) \div 2 ^ i) % 2

\* Bitwise combination of two words, bit by bit.
RECURSIVE BitsBelow(_, _, _, _)
BitsBelow(f(_, _), a, b, i) ==
    IF i = 0 THEN 0
    ELSE 2 ^ (i - 1) * f(Bit(a, i - 1), Bit(b, i - 1)) + BitsBelow(f, a, b, i - 1)
BitAnd(x, y) == x * y
BitOr(x, y) == IF x + y > 0 THEN 1 ELSE 0
BitXor(x, y) == (x + y) % 2

\* JLS 15.17.2: the quotient rounds toward zero; Integer.MIN_VALUE / -1 is
\* Integer.MIN_VALUE; a zero divisor throws ArithmeticException.
JavaQuot(a, b) ==
    IF a = MinInt /\ b = -1 THEN MinInt
    ELSE CHOOSE q \in Word : LET r == a - q * b IN
                              /\ AbsVal(r) < AbsVal(b)
                              /\ (r = 0 \/ (r < 0) = (a < 0))

\* JLS 15.17.2: integer division by zero throws ArithmeticException.
JavaThrows(op, b) == op \in {i_idiv, i_irem} /\ b = 0

\* The value the Java method returns when it does not throw.
JavaArith(op, a, b) ==
    LET s == b % W           \* JLS 15.19: only the low bits of the distance
    IN CASE op = i_iadd  -> ToSigned((a + b) % Modulus)
         [] op = i_isub  -> ToSigned((a - b) % Modulus)
         [] op = i_imul  -> ToSigned((a * b) % Modulus)
         [] op = i_idiv  -> JavaQuot(a, b)
         [] op = i_irem  -> a - b * JavaQuot(a, b)
         [] op = i_ineg  -> ToSigned((-a) % Modulus)
         [] op = i_ishl  -> ToSigned((a * 2 ^ s) % Modulus)
         [] op = i_ishr  -> ToSigned((a \div 2 ^ s) % Modulus)
         [] op = i_iushr -> ToSigned((a % Modulus) \div 2 ^ s)
         [] op = i_iand  -> ToSigned(BitsBelow(BitAnd, a, b, W))
         [] op = i_ior   -> ToSigned(BitsBelow(BitOr, a, b, W))
         [] op = i_ixor  -> ToSigned(BitsBelow(BitXor, a, b, W))

\* What the run started with entry e prints and returns, per the Java source.
Expected(e) ==
    LET m == e[1]
        x == e[2][1]
    IN CASE m = PrintFactIdx -> [out |-> <<JavaFact(x)>>, result |-> NoValue]
         [] m = SquaresIdx   -> [out |-> <<ToSigned(SumSquares(x) % Modulus), x>>,
                                 result |-> NoValue]
         [] m = PrintLenIdx  -> [out |-> <<x>>, result |-> NoValue]
         [] m = MiscIdx      -> [out |-> << >>,
                                 result |-> [has_value |-> TRUE,
                                             value |-> ToSigned((x * 1383 + 2) % Modulus)]]
         [] m = PrintMixIdx  -> [out |-> <<JavaQuot(ToSigned((x - 5) % Modulus), 2)>>,
                                 result |-> NoValue]
         [] m \in {BranchIdx(k) : k \in 0 .. 11} ->
                [out |-> << >>,
                 result |-> [has_value |-> TRUE,
                             value |-> IF JavaCond(m - 10, x, e[2][2]) THEN 1 ELSE 0]]

-----------------------------------------------------------------------------
Small == {-1, 0, 1}

ProgramEntries ==
    {<<PrintFactIdx, <<n>>>> : n \in 0 .. 9}
    \cup {<<SquaresIdx, <<n>>>> : n \in 0 .. 4}
    \cup {<<PrintLenIdx, <<n>>>> : n \in 0 .. 2}
    \cup {<<MiscIdx, <<x>>>> : x \in {-3, 0, 7, 32767}}
    \cup {<<PrintMixIdx, <<x>>>> : x \in {-32768, -7, 1, 32767}}
    \cup {<<BranchIdx(k), <<a, b>>>> : k \in 0 .. 11, a \in Small, b \in Small}

\* Operands at the edges of the word: the extremes, around zero, shift
\* distances below, at and above the width.
EdgeA == {-32768, -7, -1, 0, 1, 5, 32767}
EdgeB == {-17, -1, 1, 3, 15, 16, 32767}


ArithEntries ==
    {<<ArithIdx(j), <<a, b>>>> : j \in 1 .. 12, a \in EdgeA, b \in EdgeB}
    \ {<<ArithIdx(j), <<-32768, -1>>>> : j \in {4, 5}}

DivZeroEntries == {<<ArithIdx(j), <<a, 0>>>> : j \in {4, 5}, a \in {-7, 5}}

MinByMinusOneEntries == {<<ArithIdx(4), <<-32768, -1>>>>}

\* Both division edges, for the division run.
DivisionEdgeEntries == DivZeroEntries \cup MinByMinusOneEntries

MinusOneEntries == {<<MinusOneIdx, << >>>>}

\* The division edges and the store at index -1, for the edges run.
JavaEdgeEntries == DivisionEdgeEntries \cup MinusOneEntries

FaultEntries ==
    {<<PrintFactIdx, <<n>>>> : n \in 11 .. 12}
    \cup {<<PrintDivIdx, ab>> : ab \in {<<7, 2>>, <<-32768, -1>>}}
    \cup {<<m, << >>>> : m \in {OobIdx, LongOpIdx, CallMissingIdx, BadCallIdx,
                               TruncatedIdx, NoRoomIdx, NegArrIdx}}

\* The javac-compiled programs, the arithmetic methods and the faults.
JVMEntries == ProgramEntries \cup ArithEntries \cup FaultEntries

-----------------------------------------------------------------------------
\* When the program returns, it has printed and returned what its Java
\* source means: checks the decoding, the branch offsets, the recursion
\* through invokestatic and the heap arrays of execute() end to end.  The
\* add_to_xor methods are ArithMatchesJava's.
OutputCorrect ==
    (status = "returned" /\ entry[1] \in ProgramIdxs) =>
        /\ out = Expected(entry).out
        /\ result = Expected(entry).result

\* The int returned by `return a <op> b` (one of the add_to_xor methods) is
\* the value the JLS defines, and a division by zero does not return at all
\* (it throws ArithmeticException).
ArithMatchesJava ==
    (status = "returned" /\ entry[1] \in ArithIdxs) =>
        LET op == ArithOps[entry[1] - 30]
            a == entry[2][1]
            b == entry[2][2]
        IN /\ ~JavaThrows(op, b)
           /\ result.has_value
           /\ result.value = JavaArith(op, a, b)

\* An idiv or irem method ends as its Java source does (JLS 15.17.2-3): once
\* the process has stopped it has returned exactly when Java returns, and
\* then with Java's quotient or remainder.  Where Java throws
\* ArithmeticException the interpreter must not hand back a value, and where
\* Java returns (MIN / -1 included) the process must not die.
DivisionEndsAsJava ==
    (status # "running" /\ entry[1] \in ArithIdxs) =>
        /\ (status = "returned") = ~JavaThrows(ArithOps[entry[1] - 30], entry[2][2])
        /\ ArithMatchesJava

\* At the edges of its operands an int instruction ends as Java's does:
\* idiv and irem as DivisionEndsAsJava says, and iastore at index -1
\* leaves the array's length word alone, where Java throws
\* ArrayIndexOutOfBoundsException and stores nothing.
EdgesEndAsJava == DivisionEndsAsJava /\ ArrayLengthStable

\* execute() returns for every program that javac compiled and that Java
\* runs to its end and that fits in MaxDepth activations: printFact(11)
\* fills them exactly and still returns.  The faults (printFact(12)
\* overflowing the native stack, the traps, the malformed methods) are
\* not claimed to return.
ReturnsWhenJavaDoes ==
    entry \in ProgramEntries \cup ArithEntries
              \cup {<<PrintFactIdx, <<11>>>>, <<PrintDivIdx, <<7, 2>>>>}
        => Completes
=============================================================================
