------------------------------ MODULE LelyaExpr ------------------------------
(***************************************************************************)
(* Expressions of Lelya: the machine's integers, and the code compile_expr *)
(* makes of an expression (apps/nawlang/compiler.c).                       *)
(*                                                                         *)
(* An expression is the sequence of its tokens; a token is a pair of its   *)
(* class and its value.  The argument of a math_* call is one token: the   *)
(* compiler keeps it as text.                                              *)
(***************************************************************************)
EXTENDS Integers, Sequences

CONSTANT Bits   \* the width of the machine's int

ASSUME BitsAssumption == Bits \in Nat \ {0, 1}

-----------------------------------------------------------------------------
(* Integers *)

Half == LET power[n \in 0 .. Bits - 1] == IF n = 0 THEN 1 ELSE 2 * power[n - 1]
        IN  power[Bits - 1]
Ints == (0 - Half) .. (Half - 1)
Wrap(n) == ((n + Half) % (2 * Half)) - Half

\* C's division drops the fraction; TLA+'s rounds down.
Quotient(a, b) ==
    LET magnitude(n) == IF n < 0 THEN 0 - n ELSE n
        q == magnitude(a) \div magnitude(b)
    IN  IF (a < 0) = (b < 0) THEN q ELSE 0 - q

Truth(p) == IF p THEN 1 ELSE 0

IntValue(n) == [type |-> "int", int_value |-> n, str_value |-> <<>>]
StrValue(s) == [type |-> "str", int_value |-> 0, str_value |-> s]
Stops(how) == [type |-> how, int_value |-> 0, str_value |-> <<>>]

\* What vm_run does with the operands a and b of a binary operator: a value, or
\* "error" for the message that ends the run, or "trap" for the processor's divide
\* exception, which the kernel has no handler for.
Apply(op, a, b) ==
    LET x == a.int_value
        y == b.int_value
    IN  IF a.type # "int" \/ b.type # "int" \/ (op = "/" /\ y = 0) THEN Stops("error")
        ELSE IF op = "/" /\ Quotient(x, y) \notin Ints THEN Stops("trap")
        ELSE IntValue(CASE op = "+"  -> Wrap(x + y)
                        [] op = "-"  -> Wrap(x - y)
                        [] op = "*"  -> Wrap(x * y)
                        [] op = "/"  -> Quotient(x, y)
                        [] op = "==" -> Truth(x = y)
                        [] op = "!=" -> Truth(x # y)
                        [] op = "<"  -> Truth(x < y)
                        [] op = ">"  -> Truth(x > y)
                        [] op = "<=" -> Truth(x <= y)
                        [] op = ">=" -> Truth(x >= y))

\* The operators of parse_term, parse_expr and parse_compare, tightest first.
Operators == << {"*", "/"}, {"+", "-"}, {"==", "!=", "<=", ">=", "<", ">"} >>
AllOperators == UNION {Operators[level] : level \in 1 .. 3}

-----------------------------------------------------------------------------
(* The math_* functions and their number of arguments *)

MAX_NATIVE_ARGS == 3

UnaryMath == {"math_eval", "math_sqrt", "math_sin", "math_cos", "math_tan",
              "math_abs", "math_arg", "math_conj", "math_norm"}
BinaryMath == {"math_add", "math_sub", "math_mul", "math_div", "math_pow"}
MathArity ==
    [f \in UnaryMath \cup BinaryMath \cup {"math_quad"} |->
        IF f \in UnaryMath THEN 1 ELSE IF f \in BinaryMath THEN 2 ELSE 3]

IsCall(tokens, i) ==
    /\ i < Len(tokens)
    /\ tokens[i][1] = "name" /\ tokens[i][2] \in DOMAIN MathArity
    /\ tokens[i + 1][1] = "("

-----------------------------------------------------------------------------
(* The code of an expression *)

Instr(op, arg) == [op |-> op, arg |-> arg]

Class(tokens, i) == IF i <= Len(tokens) THEN tokens[i][1] ELSE "end"

\* The arguments captured from the list of the call whose name is token i.
Captured(tokens, i) ==
    LET taken(n) == \A k \in 1 .. n : /\ Class(tokens, i + 2 * k) = "text"
                                      /\ k > 1 => Class(tokens, i + 2 * k - 1) = ","
    IN  CHOOSE n \in 0 .. MAX_NATIVE_ARGS : taken(n) /\ (n = MAX_NATIVE_ARGS \/ ~taken(n + 1))

\* A piece of code, and the token parsing goes on from.
Parsed(code, next) == [code |-> code, next |-> next]

(***************************************************************************)
(* The call of a math_* function whose name is token i: its arguments are  *)
(* pushed as strings, unless the list breaks off, when 0 is pushed and     *)
(* parsing goes on from where it broke off.                                *)
(***************************************************************************)
compile_native_math_call(tokens, i) ==
    LET count == Captured(tokens, i)
        after == IF count = 0 THEN i + 2 ELSE i + 2 * count + 1
        upto == IF count > 0 /\ Class(tokens, after) = "," THEN after + 1 ELSE after
    IN  IF Class(tokens, after) = ")"
        THEN Parsed([k \in 1 .. count |-> Instr("PUSH_STR", tokens[i + 2 * k][2])]
                        \o <<Instr("NATIVE_CALL", tokens[i][2])>>,
                    after + 1)
        ELSE Parsed(<<Instr("PUSH_INT", 0)>>, upto)

\* No call is given more arguments than its function takes: those beyond are left on
\* the machine's stack.
CallsFit(tokens) ==
    \A i \in DOMAIN tokens :
        IsCall(tokens, i) =>
            Len(compile_native_math_call(tokens, i).code) <= MathArity[tokens[i][2]] + 1

(***************************************************************************)
(* parse[<<"operand", level, i>>] is the code of the operand that starts   *)
(* at token i, and the token after it; parse[<<"rest", level, i>>] that of *)
(* the operators of the level, each with its right operand, that follow.   *)
(* The operands are those of parse_factor, which is level 0, parse_term,   *)
(* parse_expr and parse_compare; parentheses hold no comparison.  ParseAt  *)
(* is one call of them, parse what the calls it makes return.  Variables   *)
(* and strings are still named; see CodeAfter in module Lelya.             *)
(***************************************************************************)
parse_factor(tokens, parse, i) ==
    LET inner == parse[<<"operand", 2, i + 1>>]
        one(op, arg) == Parsed(<<Instr(op, arg)>>, i + 1)
    IN  IF IsCall(tokens, i) THEN compile_native_math_call(tokens, i)
        ELSE CASE Class(tokens, i) = "(" ->
                    Parsed(inner.code,
                           IF Class(tokens, inner.next) = ")" THEN inner.next + 1 ELSE inner.next)
               [] Class(tokens, i) = "str" -> one("PUSH_STR", tokens[i][2])
               [] Class(tokens, i) = "num" -> one("PUSH_INT", tokens[i][2])
               [] Class(tokens, i) = "name" -> one("LOAD_VAR", tokens[i][2])
               [] OTHER -> Parsed(<<Instr("PUSH_INT", 0)>>, i)

ParseAt(tokens, parse, part, level, i) ==
    IF part = "rest"
    THEN IF level > 0 /\ Class(tokens, i) = "op" /\ tokens[i][2] \in Operators[level]
         THEN LET right == parse[<<"operand", level - 1, i + 1>>]
                  more == parse[<<"rest", level, right.next>>]
              IN  Parsed(right.code \o <<Instr(tokens[i][2], 0)>> \o more.code, more.next)
         ELSE Parsed(<<>>, i)
    ELSE IF level > 0
    THEN LET left == parse[<<"operand", level - 1, i>>]
             more == parse[<<"rest", level, left.next>>]
         IN  Parsed(left.code \o more.code, more.next)
    ELSE parse_factor(tokens, parse, i)

compile_expr(tokens) ==
    LET parse[n \in {"operand", "rest"} \X (0 .. 3) \X (1 .. Len(tokens) + 1)] ==
            ParseAt(tokens, parse, n[1], n[2], n[3])
    IN  parse[<<"operand", 3, 1>>].code
=============================================================================
