------------------------------ MODULE MCCompile ------------------------------
(***************************************************************************)
(* The programs compile_ast is checked on, as the parser builds them (one  *)
(* node per position, nothing shared):                                     *)
(*   - every `PRINT e` with e an expression tree of depth at most MCDepth  *)
(*     over + - * / whose leaves are X or a constant of MCNums;            *)
(*   - a handful of programs with LET, IF (nested, with and without ELSE), *)
(*     WHILE and SEQUENCE, over X, Z and the unset variable Y.             *)
(***************************************************************************)
EXTENDS Compile, TLC

MCDepth == 2

\* 0 for division by zero, 2 for check_power_two, -3 for truncation.
MCNums == {-3, 0, 2}

\* -7 / 2 truncates to -3 where floor division gives -4; -7 runs a loop
\* four times and takes the other branch of every IF from 1.
MCXs == {-7, 1}

MCMaxSteps == 400
MCMaxIters == 8

Y == 25
Z == 26

Leaves(p) == {p :> [type |-> "NUM", value |-> v] : v \in MCNums}
             \cup {p :> [type |-> "VAR", var |-> X]}

\* The node stores of the expression trees rooted at p of depth <= d.
RECURSIVE Trees(_, _)
Trees(p, d) ==
    Leaves(p) \cup
    IF d = 0 THEN {}
    ELSE {(p :> [type |-> "BIN", op |-> o, left |-> Append(p, 1), right |-> Append(p, 2)])
            @@ l @@ r :
          o \in ArithOps, l \in Trees(Append(p, 1), d - 1), r \in Trees(Append(p, 2), d - 1)}

PrintStores == {(<< >> :> [type |-> "PRINT", expr |-> << 1 >>]) @@ t : t \in Trees(<< 1 >>, MCDepth)}

\* Programs written as nested records, and the store the parser builds.
Num(v) == [type |-> "NUM", value |-> v]
Var(x) == [type |-> "VAR", var |-> x]
Bin(o, a, b) == [type |-> "BIN", op |-> o, l |-> a, r |-> b]
Pr(e) == [type |-> "PRINT", e |-> e]
Let(x, e) == [type |-> "LET", var |-> x, e |-> e]
Seq2(a, b) == [type |-> "SEQ", ss |-> << a, b >>]
Seq3(a, b, c) == [type |-> "SEQ", ss |-> << a, b, c >>]
If(c, a) == [type |-> "IF", c |-> c, a |-> << a >>]
IfElse(c, a, b) == [type |-> "IF", c |-> c, a |-> << a, b >>]
While(c, b) == [type |-> "WHILE", c |-> c, b |-> b]

RECURSIVE ToStore(_, _), StmtsStore(_, _, _)
StmtsStore(ss, p, k) ==
    IF k = 0 THEN << >> ELSE ToStore(ss[k], Append(p, k)) @@ StmtsStore(ss, p, k - 1)
ToStore(t, p) ==
    LET P(k) == Append(p, k) IN
    CASE t.type \in {"NUM", "VAR"} -> p :> t
      [] t.type = "BIN" ->
           (p :> [type |-> "BIN", op |-> t.op, left |-> P(1), right |-> P(2)])
           @@ ToStore(t.l, P(1)) @@ ToStore(t.r, P(2))
      [] t.type = "PRINT" -> (p :> [type |-> "PRINT", expr |-> P(1)]) @@ ToStore(t.e, P(1))
      [] t.type = "LET" ->
           (p :> [type |-> "LET", var |-> t.var, value |-> P(1)]) @@ ToStore(t.e, P(1))
      [] t.type = "SEQ" ->
           (p :> [type |-> "SEQ", stmts |-> [k \in DOMAIN t.ss |-> P(k)]])
           @@ StmtsStore(t.ss, p, Len(t.ss))
      [] t.type = "IF" ->
           (p :> [type |-> "IF", cond |-> P(1), then |-> P(2), hasElse |-> Len(t.a) = 2,
                  else |-> P(3)])
           @@ ToStore(t.c, P(1)) @@ ToStore(t.a[1], P(2))
           @@ (IF Len(t.a) = 2 THEN ToStore(t.a[2], P(3)) ELSE << >>)
      [] t.type = "WHILE" ->
           (p :> [type |-> "WHILE", cond |-> P(1), body |-> P(2)])
           @@ ToStore(t.c, P(1)) @@ ToStore(t.b, P(2))

Programs ==
  {
    \* An IF inside the IF branch of an IF with an ELSE.
    Seq2(IfElse(Bin("<", Var(X), Num(0)),
                IfElse(Bin("<", Var(X), Num(-5)), Pr(Num(1)), Pr(Num(2))),
                Pr(Num(3))),
         Pr(Num(4))),
    \* A loop counting in the last slot, Z.
    Seq3(Let(Z, Num(0)),
         While(Bin("<", Var(X), Num(0)),
               Seq2(Let(X, Bin("+", Var(X), Num(2))), Let(Z, Bin("+", Var(Z), Num(1))))),
         Seq2(Pr(Var(Z)), Pr(Var(X)))),
    \* A loop inside an IF, after an IF without ELSE, using = and >.
    Seq2(If(Bin("=", Var(X), Num(1)), Pr(Bin("*", Var(X), Num(4)))),
         IfElse(Bin(">", Var(X), Num(0)),
                Pr(Bin("-", Num(0), Var(X))),
                While(Bin(">", Num(0), Var(X)), Let(X, Bin("/", Var(X), Num(2)))))),
    \* A loop whose condition has a constant subexpression to fold.
    Seq2(While(Bin("<", Var(X), Bin("-", Bin("*", Num(2), Num(3)), Num(5))),
               Let(X, Bin("+", Var(X), Num(2)))),
         Pr(Var(X))),
    \* A division by zero only one value of X reaches.
    Seq2(If(Bin(">", Var(X), Num(0)), Pr(Bin("/", Num(1), Num(0)))), Pr(Num(5))),
    \* A variable nothing set.
    Seq2(Pr(Num(6)), Pr(Var(Y)))
  }

MCSources == PrintStores \cup {ToStore(t, << >>) : t \in Programs}
=============================================================================
