----------------------------- MODULE LelyaProofs -----------------------------
(***************************************************************************)
(* The Lelya compiler leaves no jump that leads out of its code, and the   *)
(* machine, which checks no bound, stays in that code and in its arrays    *)
(* with nothing on its stack between statements: for every text, however   *)
(* its blocks are nested or left open, and all sizes of the tables.        *)
(*                                                                         *)
(* The argument follows the compiler.  A statement's or a condition's code *)
(* has no jumps, and what it does to the stack adds up (Piece).  The code  *)
(* so far is Sound but for the jumps still to be completed: every block    *)
(* and every loop open knows its own (Frames), so that none is left when   *)
(* the outermost text ends.  A program is then a function from places in   *)
(* the code to depths of the stack which every instruction respects and    *)
(* which is 0 between items, and the machine stays below it.               *)
(***************************************************************************)
EXTENDS Lelya, Induction, SequenceTheorems, TLAPS

-----------------------------------------------------------------------------
(* Pieces of code without jumps                                            *)

\* The instructions a statement or a condition is made of: none that jumps.
LineOps == {"PUSH_INT", "PUSH_STR", "LOAD_VAR", "STORE_VAR", "PRINT", "READ_INT", "NATIVE_CALL"}
           \cup AllOperators

\* Those with arguments of A, constants the machine can hold and known functions.
Plain(A) ==
    {i \in [op : LineOps, arg : A] : /\ i.op = "PUSH_INT" => i.arg \in Ints
                                     /\ i.op = "NATIVE_CALL" => i.arg \in DOMAIN MathArity}

\* What an instruction that does not fail adds to the stack, at most.
Effect(i) ==
    IF i.op \in {"PUSH_INT", "PUSH_STR", "LOAD_VAR"} THEN 1
    ELSE IF i.op \in {"READ_INT", "JMP"} THEN 0
    ELSE IF i.op = "NATIVE_CALL" THEN 1 - MathArity[i.arg]
    ELSE -1

\* d[k] bounds what code w has on the stack when it comes to its instruction k.
Depths(w, n, d) ==
    /\ d \in [1 .. Len(w) + 1 -> Int]
    /\ d[1] = 0 /\ d[Len(w) + 1] = n
    /\ \A k \in 1 .. Len(w) : d[k] + Effect(w[k]) <= d[k + 1]

\* w is a piece of code without jumps that adds n values to the stack, at most.
Piece(w, n, A, fit) == w \in Seq(Plain(A)) /\ (fit => \E d : Depths(w, n, d))

(* The operators of the three levels are the ten binary instructions.      *)
LEMMA OperatorsAre ==
    /\ AllOperators = {"*", "/", "+", "-", "==", "!=", "<=", ">=", "<", ">"}
    /\ \A level \in 1 .. 3 : Operators[level] \subseteq AllOperators
<1>1. /\ Operators[1] = {"*", "/"} /\ Operators[2] = {"+", "-"}
      /\ Operators[3] = {"==", "!=", "<=", ">=", "<", ">"}
  BY DEF Operators
<1>2. \A level \in 1 .. 3 : level = 1 \/ level = 2 \/ level = 3
  OBVIOUS
<1>3. AllOperators = Operators[1] \cup Operators[2] \cup Operators[3]
  <2>1. AllOperators \subseteq Operators[1] \cup Operators[2] \cup Operators[3]
    BY <1>2, Zenon DEF AllOperators
  <2>2. 1 \in 1 .. 3 /\ 2 \in 1 .. 3 /\ 3 \in 1 .. 3
    OBVIOUS
  <2>3. Operators[1] \cup Operators[2] \cup Operators[3] \subseteq AllOperators
    BY <2>2, Zenon DEF AllOperators
  <2> QED
    BY <2>1, <2>3, Zenon
<1> QED
  BY <1>1, <1>2, <1>3

(* The math_* functions take one argument to three.                        *)
LEMMA ArityIs ==
    \A f \in DOMAIN MathArity : MathArity[f] \in 1 .. 3
BY DEF MathArity

(* The effect on the stack of an instruction without a jump.               *)
LEMMA EffectIs ==
    ASSUME NEW A, NEW i \in Plain(A)
    PROVE  Effect(i) \in Int
<1>1. i.op = "NATIVE_CALL" => MathArity[i.arg] \in Int
  BY ArityIs DEF Plain
<1> QED
  BY <1>1 DEF Effect

(* A sequence whose elements are in T is one of elements of T.             *)
LEMMA SequenceOf ==
    ASSUME NEW S, NEW T, NEW s \in Seq(S), \A k \in 1 .. Len(s) : s[k] \in T
    PROVE  s \in Seq(T)
OBVIOUS

(* No code at all, as an operator that does not follow leaves.             *)
LEMMA PieceEmpty ==
    ASSUME NEW A, NEW fit
    PROVE  Piece(<<>>, 0, A, fit)
<1> DEFINE d == [k \in 1 .. 1 |-> 0]
<1>1. Depths(<<>>, 0, d)
  BY DEF Depths
<1> QED
  BY <1>1 DEF Piece

(* One instruction.                                                        *)
LEMMA PieceOne ==
    ASSUME NEW A, NEW fit, NEW i \in Plain(A), NEW n \in Int, fit => Effect(i) <= n
    PROVE  Piece(<<i>>, n, A, fit)
<1> DEFINE d == [k \in 1 .. 2 |-> IF k = 1 THEN 0 ELSE n]
           w == <<i>>
<1>1. w \in Seq(Plain(A)) /\ Len(w) = 1 /\ w[1] = i
  OBVIOUS
<1> HIDE DEF w
<1>2. fit => Depths(w, n, d)
  BY <1>1, EffectIs DEF Depths
<1>3. Piece(w, n, A, fit)
  BY <1>1, <1>2 DEF Piece
<1> QED
  BY <1>3 DEF w

(* The elements of two sequences emitted one after the other.              *)
LEMMA JoinedIs ==
    ASSUME NEW S, NEW u \in Seq(S), NEW v \in Seq(S)
    PROVE  /\ u \o v \in Seq(S)
           /\ Len(u \o v) = Len(u) + Len(v)
           /\ \A k \in 1 .. Len(u) : (u \o v)[k] = u[k]
           /\ \A k \in Len(u) + 1 .. Len(u) + Len(v) : (u \o v)[k] = v[k - Len(u)]
OBVIOUS

\* Where u, which leaves m values, is followed by v.
JoinedDepths(u, v, m, d, e) ==
    [k \in 1 .. Len(u) + Len(v) + 1 |-> IF k <= Len(u) THEN d[k] ELSE m + e[k - Len(u)]]

(* What two pieces of code do to the stack adds up.                        *)
LEMMA DepthsJoin ==
    ASSUME NEW S, NEW u \in Seq(S), NEW v \in Seq(S), \A i \in S : Effect(i) \in Int,
           NEW m \in Int, NEW n \in Int, NEW d, NEW e, Depths(u, m, d), Depths(v, n, e)
    PROVE  /\ Depths(u \o v, m + n, JoinedDepths(u, v, m, d, e))
           /\ \A k \in 1 .. Len(u) + 1 : JoinedDepths(u, v, m, d, e)[k] = d[k]
           /\ \A k \in 1 .. Len(v) + 1 : JoinedDepths(u, v, m, d, e)[Len(u) + k] = m + e[k]
<1> DEFINE w == u \o v
           f == JoinedDepths(u, v, m, d, e)
<1>2. /\ w \in Seq(S) /\ Len(w) = Len(u) + Len(v)
      /\ \A k \in 1 .. Len(u) : w[k] = u[k]
      /\ \A k \in Len(u) + 1 .. Len(u) + Len(v) : w[k] = v[k - Len(u)]
  BY JoinedIs
<1> HIDE DEF w
<1>3. PICK p \in Nat : p = Len(u)
  OBVIOUS
<1>4. PICK q \in Nat : q = Len(v)
  OBVIOUS
<1>5. /\ d \in [1 .. p + 1 -> Int] /\ d[1] = 0 /\ d[p + 1] = m
      /\ \A k \in 1 .. p : d[k] + Effect(u[k]) <= d[k + 1]
  BY <1>3 DEF Depths
<1>6. /\ e \in [1 .. q + 1 -> Int] /\ e[1] = 0 /\ e[q + 1] = n
      /\ \A k \in 1 .. q : e[k] + Effect(v[k]) <= e[k + 1]
  BY <1>4 DEF Depths
<1>7. f = [k \in 1 .. p + q + 1 |-> IF k <= p THEN d[k] ELSE m + e[k - p]]
  BY <1>3, <1>4, Zenon DEF JoinedDepths
<1> HIDE DEF f
<1>8. \A k \in 1 .. p + 1 : f[k] = d[k]
  BY <1>5, <1>6, <1>7
<1>9. \A k \in 1 .. q + 1 : f[p + k] = m + e[k]
  BY <1>5, <1>6, <1>7
<1>10. \A k \in 1 .. Len(w) : f[k] + Effect(w[k]) <= f[k + 1]
  <2>1. ASSUME NEW k \in 1 .. p
        PROVE  f[k] + Effect(w[k]) <= f[k + 1]
    <3>0. k \in 1 .. p + 1 /\ k + 1 \in 1 .. p + 1
      OBVIOUS
    <3>1. f[k] = d[k] /\ f[k + 1] = d[k + 1]
      BY <1>8, <3>0, Zenon
    <3>2. w[k] = u[k]
      BY <1>2, <1>3
    <3> QED
      BY <1>5, <3>1, <3>2
  <2>2. ASSUME NEW k \in 1 .. q
        PROVE  f[p + k] + Effect(w[p + k]) <= f[p + k + 1]
    <3>1. f[p + k] = m + e[k] /\ f[p + (k + 1)] = m + e[k + 1] /\ p + k + 1 = p + (k + 1)
      BY <1>9
    <3>2. w[p + k] = v[k]
      <4>1. p + k \in Len(u) + 1 .. Len(u) + Len(v) /\ (p + k) - Len(u) = k
        BY <1>3, <1>4
      <4> QED
        BY <1>2, <4>1
    <3>3. v[k] \in S
      BY <1>4
    <3>4. Effect(v[k]) \in Int /\ e[k] \in Int /\ e[k + 1] \in Int
      BY <1>6, <3>3
    <3>5. e[k] + Effect(v[k]) <= e[k + 1]
      BY <1>6
    <3> QED
      BY <3>1, <3>2, <3>4, <3>5
  <2>3. ASSUME NEW k \in 1 .. Len(w)
        PROVE  f[k] + Effect(w[k]) <= f[k + 1]
    <3>1. k \in 1 .. p \/ (k - p \in 1 .. q /\ k = p + (k - p))
      BY <1>2, <1>3, <1>4
    <3> QED
      BY <2>1, <2>2, <3>1
  <2> QED
    BY <2>3
<1>11. f \in [1 .. Len(w) + 1 -> Int]
  <2>1. \A k \in 1 .. p + q + 1 : f[k] \in Int
    BY <1>5, <1>6, <1>7
  <2> QED
    BY <1>2, <1>3, <1>4, <1>7, <2>1
<1>12. f[1] = 0 /\ f[Len(w) + 1] = m + n
  <2>1. f[1] = d[1] /\ f[p + (q + 1)] = m + e[q + 1]
    BY <1>8, <1>9
  <2>2. Len(w) + 1 = p + (q + 1)
    BY <1>2, <1>3, <1>4
  <2> QED
    BY <1>5, <1>6, <2>1, <2>2
<1>13. Depths(w, m + n, f)
  BY <1>10, <1>11, <1>12, Zenon DEF Depths
<1> QED
  BY <1>3, <1>4, <1>8, <1>9, <1>13 DEF f, w

(* emit after emit: a piece of code followed by a piece of code is one.    *)
LEMMA PieceJoins ==
    ASSUME NEW A, NEW fit, NEW m \in Int, NEW n \in Int, NEW u, NEW v,
           Piece(u, m, A, fit), Piece(v, n, A, fit)
    PROVE  Piece(u \o v, m + n, A, fit)
<1>1. u \in Seq(Plain(A)) /\ v \in Seq(Plain(A))
  BY DEF Piece
<1>2. u \o v \in Seq(Plain(A))
  BY <1>1
<1>3. ASSUME fit
      PROVE  \E d : Depths(u \o v, m + n, d)
  <2>1. PICK d : Depths(u, m, d)
    BY <1>3 DEF Piece
  <2>2. PICK e : Depths(v, n, e)
    BY <1>3 DEF Piece
  <2>3. Depths(u \o v, m + n, JoinedDepths(u, v, m, d, e))
    BY <1>1, <2>1, <2>2, EffectIs, DepthsJoin
  <2> QED
    BY <2>3
<1> QED
  BY <1>2, <1>3, Zenon DEF Piece

-----------------------------------------------------------------------------
(* The machine's integers                                                  *)

(* The machine's integers have two halves, for every number of bits.       *)
LEMMA HalfIs ==
    Half \in Nat /\ Half >= 2
<1> DEFINE N == Bits - 1
           step == [n \in Nat |-> [t \in Nat |-> 2 * t]]
           F(power) == [n \in 0 .. Bits - 1 |-> IF n = 0 THEN 1 ELSE 2 * power[n - 1]]
           power == CHOOSE power : power = F(power)
<1>1. N \in Nat /\ N >= 1
  BY BitsAssumption
<1>2. \E f \in [0 .. N -> Nat] : Follows(f, N, 1, step)
  <2>1. step \in [Nat -> [Nat -> Nat]]
    OBVIOUS
  <2> HIDE DEF N, step
  <2> QED
    BY <1>1, <2>1, RecursionExists
<1>3. \E f : f = F(f)
  <2>1. PICK f \in [0 .. N -> Nat] : Follows(f, N, 1, step)
    BY <1>2
  <2>2. f = [n \in 0 .. N |-> IF n = 0 THEN 1 ELSE step[n][f[n - 1]]]
    BY <2>1, Zenon DEF Follows
  <2>3. ASSUME NEW n \in 0 .. N, n # 0
        PROVE  step[n][f[n - 1]] = 2 * f[n - 1]
    <3>1. n \in Nat /\ n - 1 \in 0 .. N
      BY <1>1, <2>3
    <3>2. f[n - 1] \in Nat
      BY <2>1, <3>1
    <3> QED
      BY <3>1, <3>2
  <2>4. f = F(f)
    <3> HIDE DEF step
    <3> QED
      BY <2>2, <2>3
  <2> QED
    BY <2>4, Zenon
<1>4. power = F(power)
  BY <1>3, Zenon
<1>5. Half = power[Bits - 1]
  BY Zenon DEF Half
<1> HIDE DEF power
<1>6. \A n \in 0 .. N : power[n] = IF n = 0 THEN 1 ELSE 2 * power[n - 1]
  BY <1>4
<1> DEFINE S == {n \in 0 .. N : power[n] \in Nat /\ power[n] >= 1 /\ (n >= 1 => power[n] >= 2)}
<1>7. 0 \in S
  BY <1>1, <1>6
<1>8. \A n \in 0 .. N - 1 : n \in S => n + 1 \in S
  <2>1. ASSUME NEW n \in 0 .. N - 1, n \in S
        PROVE  n + 1 \in S
    <3>1. n + 1 \in 0 .. N /\ n + 1 # 0 /\ (n + 1) - 1 = n
      BY <1>1
    <3>2. power[n + 1] = 2 * power[n]
      BY <1>6, <3>1
    <3> QED
      BY <2>1, <3>1, <3>2
  <2> QED
    BY <2>1
<1> HIDE DEF S
<1>9. 0 .. N \subseteq S
  BY <1>1, <1>7, <1>8, InductionUpTo
<1>10. N \in S
  BY <1>1, <1>9
<1> QED
  BY <1>1, <1>5, <1>10 DEF S

(* The truth values the comparisons push are integers of the machine.      *)
LEMMA ZeroIsInt ==
    0 \in Ints /\ 1 \in Ints
BY HalfIs DEF Ints

(* Arithmetic that overflows wraps around into the machine's integers.     *)
LEMMA WrapIs ==
    ASSUME NEW n \in Int
    PROVE  Wrap(n) \in Ints
BY HalfIs DEF Wrap, Ints

(* vm_run's arithmetic never yields an integer the machine cannot hold: the quotient *)
(* that would be too large is the processor's exception.                             *)
LEMMA ApplyIs ==
    ASSUME NEW op \in AllOperators, NEW a, NEW b,
           a.type = "int" => a.int_value \in Ints, b.type = "int" => b.int_value \in Ints,
           Apply(op, a, b).type = "int"
    PROVE  Apply(op, a, b).int_value \in Ints
<1>1. Ints \subseteq Int
  BY HalfIs DEF Ints
<1> DEFINE x == a.int_value
           y == b.int_value
           v == Apply(op, a, b)
<1>2. a.type = "int" /\ b.type = "int" /\ (op = "/" => Quotient(x, y) \in Ints)
  BY DEF Apply, Stops
<1>3. x \in Ints /\ y \in Ints /\ x \in Int /\ y \in Int
  BY <1>1, <1>2
<1>4. v = IntValue(CASE op = "+"  -> Wrap(x + y)
                        [] op = "-"  -> Wrap(x - y)
                        [] op = "*"  -> Wrap(x * y)
                        [] op = "/"  -> Quotient(x, y)
                        [] op = "==" -> Truth(x = y)
                        [] op = "!=" -> Truth(x # y)
                        [] op = "<"  -> Truth(x < y)
                        [] op = ">"  -> Truth(x > y)
                        [] op = "<=" -> Truth(x <= y)
                        [] op = ">=" -> Truth(x >= y))
  BY <1>2 DEF Apply, Stops
<1>5. /\ Wrap(x + y) \in Ints /\ Wrap(x - y) \in Ints /\ Wrap(x * y) \in Ints
  BY <1>3, WrapIs
<1>6. /\ Truth(x = y) \in Ints /\ Truth(x # y) \in Ints /\ Truth(x < y) \in Ints
      /\ Truth(x > y) \in Ints /\ Truth(x <= y) \in Ints /\ Truth(x >= y) \in Ints
  BY ZeroIsInt DEF Truth
<1> QED
  BY <1>2, <1>4, <1>5, <1>6, OperatorsAre DEF IntValue

-----------------------------------------------------------------------------
(* The code of an expression                                               *)

\* The values of the tokens, and 0.
ValuesOf(tokens) == {tokens[k][2] : k \in 1 .. Len(tokens)} \cup {0}

\* What ProgramsAssumption says of the expressions of a text.
Expression(tokens) ==
    /\ Len(tokens) \in Nat /\ DOMAIN tokens = 1 .. Len(tokens)
    /\ \A k \in 1 .. Len(tokens) : tokens[k][1] = "num" => tokens[k][2] \in Ints

(* compile_native_math_call captures at most MAX_NATIVE_ARGS arguments, each a text. *)
LEMMA CapturedIs ==
    ASSUME NEW tokens, NEW i
    PROVE  /\ Captured(tokens, i) \in 0 .. 3
           /\ \A k \in 1 .. Captured(tokens, i) : Class(tokens, i + 2 * k) = "text"
<1> DEFINE taken(n) == \A k \in 1 .. n : /\ Class(tokens, i + 2 * k) = "text"
                                         /\ k > 1 => Class(tokens, i + 2 * k - 1) = ","
           Fits(n) == taken(n) /\ (n = MAX_NATIVE_ARGS \/ ~taken(n + 1))
<1>1. \E n \in 0 .. 3 : Fits(n)
  <2>1. taken(0)
    <3>1. 1 .. 0 = {}
      OBVIOUS
    <3> QED
      BY <3>1, Zenon
  <2>2. MAX_NATIVE_ARGS = 3 /\ 0 + 1 = 1 /\ 1 + 1 = 2 /\ 2 + 1 = 3
    BY DEF MAX_NATIVE_ARGS
  <2>3. 0 \in 0 .. 3 /\ 1 \in 0 .. 3 /\ 2 \in 0 .. 3 /\ 3 \in 0 .. 3
    OBVIOUS
  <2> HIDE DEF taken
  <2>4. Fits(0) \/ Fits(1) \/ Fits(2) \/ Fits(3)
    BY <2>1, <2>2
  <2> QED
    BY <2>3, <2>4, Zenon
<1>2. Captured(tokens, i) = CHOOSE n \in 0 .. 3 : Fits(n)
  BY Zenon DEF Captured, MAX_NATIVE_ARGS
<1> HIDE DEF Fits
<1>3. Captured(tokens, i) \in 0 .. 3 /\ Fits(Captured(tokens, i))
  BY <1>1, <1>2, Zenon
<1> QED
  BY <1>3, Zenon DEF Fits

(* The captured arguments pushed one after the other.                      *)
LEMMA PushesPiece ==
    ASSUME NEW A, NEW fit, NEW w, NEW n \in Nat,
           w \in [1 .. n -> {i \in [op : {"PUSH_STR"}, arg : A] : TRUE}]
    PROVE  Piece(w, n, A, fit)
<1>1. \A k \in 1 .. n : w[k] \in Plain(A) /\ Effect(w[k]) = 1
  BY DEF Plain, LineOps, Effect
<1>2. w \in Seq(Plain(A)) /\ Len(w) = n
  BY <1>1
<1> DEFINE d == [k \in 1 .. n + 1 |-> k - 1]
<1>3. Depths(w, n, d)
  BY <1>1, <1>2 DEF Depths
<1> QED
  BY <1>2, <1>3 DEF Piece

(* The code of a call leaves one value, if it has no more arguments than its function *)
(* takes, and parsing goes on after the function's name.                              *)
LEMMA CallIs ==
    ASSUME NEW tokens, Expression(tokens), NEW i \in 1 .. Len(tokens), IsCall(tokens, i),
           NEW fit, fit => CallsFit(tokens)
    PROVE  /\ compile_native_math_call(tokens, i).next \in i + 1 .. Len(tokens) + 1
           /\ Piece(compile_native_math_call(tokens, i).code, 1, ValuesOf(tokens), fit)
<1> DEFINE A == ValuesOf(tokens)
           call == compile_native_math_call(tokens, i)
<1>0. PICK last \in Nat : last = Len(tokens)
  BY DEF Expression
<1>1. PICK count \in 0 .. 3 : count = Captured(tokens, i)
  BY CapturedIs
<1>2. \A k \in 1 .. count : Class(tokens, i + 2 * k) = "text"
  BY <1>1, CapturedIs
<1>3. \A j \in Int : Class(tokens, j) \in {"text", ")", ","} => j <= last
  BY <1>0 DEF Class
<1> DEFINE after == IF count = 0 THEN i + 2 ELSE i + 2 * count + 1
           upto == IF count > 0 /\ Class(tokens, after) = "," THEN after + 1 ELSE after
           pushes == [k \in 1 .. count |-> Instr("PUSH_STR", tokens[i + 2 * k][2])]
           native == Instr("NATIVE_CALL", tokens[i][2])
<1>4. call = IF Class(tokens, after) = ")"
             THEN Parsed(pushes \o <<native>>, after + 1)
             ELSE Parsed(<<Instr("PUSH_INT", 0)>>, upto)
  BY <1>1, Zenon DEF compile_native_math_call
<1>5. i + 1 <= last
  BY <1>0 DEF IsCall
<1>6. after \in i + 2 .. last + 1
  <2>1. CASE count = 0
    BY <1>5, <2>1
  <2>2. CASE count # 0
    <3>1. Class(tokens, i + 2 * count) = "text" /\ i + 2 * count \in Int
      BY <1>2, <2>2
    <3>2. i + 2 * count <= last
      BY <1>3, <3>1
    <3> QED
      BY <2>2, <3>2
  <2> QED
    BY <2>1, <2>2
<1> HIDE DEF after
<1>7. Class(tokens, after) \in {")", ","} => after <= last
  <2>1. after \in Int
    BY <1>6
  <2>2. Class(tokens, after) \in {"text", ")", ","} => after <= last
    BY <1>3, <2>1, Zenon
  <2> QED
    BY <2>2, Zenon
<1>8. upto \in i + 1 .. last + 1
  <2>1. after \in i + 1 .. last + 1
    BY <1>6
  <2>2. ASSUME Class(tokens, after) = ","
        PROVE  after + 1 \in i + 1 .. last + 1
    <3>1. after <= last
      BY <1>7, <2>2, Zenon
    <3> QED
      BY <1>6, <3>1
  <2> QED
    BY <2>1, <2>2, Zenon
<1> HIDE DEF upto
<1>9. CASE Class(tokens, after) = ")"
  <2>1. call.code = pushes \o <<native>> /\ call.next = after + 1
    BY <1>4, <1>9 DEF Parsed
  <2>2. call.next \in i + 1 .. last + 1
    BY <1>6, <1>7, <1>9, <2>1
  <2>3. \A k \in 1 .. count : tokens[i + 2 * k][2] \in A
    <3>1. ASSUME NEW k \in 1 .. count
          PROVE  i + 2 * k \in 1 .. last
      <4>1. Class(tokens, i + 2 * k) = "text" /\ i + 2 * k \in Int
        BY <1>2
      <4>2. i + 2 * k <= last
        BY <1>3, <4>1
      <4> QED
        BY <4>2
    <3> QED
      BY <1>0, <3>1 DEF ValuesOf
  <2>4. pushes \in [1 .. count -> {in_ \in [op : {"PUSH_STR"}, arg : A] : TRUE}]
    <3>1. \A k \in 1 .. count : Instr("PUSH_STR", tokens[i + 2 * k][2]) \in [op : {"PUSH_STR"}, arg : A]
      BY <2>3 DEF Instr
    <3> QED
      BY <3>1
  <2> HIDE DEF pushes, A
  <2>5. Piece(pushes, count, A, fit)
    BY <2>4, PushesPiece
  <2>6. native \in Plain(A) /\ native.op = "NATIVE_CALL" /\ native.arg = tokens[i][2]
    <3>1. tokens[i][2] \in DOMAIN MathArity /\ tokens[i][2] \in A
      BY <1>0 DEF IsCall, A, ValuesOf
    <3> QED
      BY <3>1 DEF Instr, Plain, LineOps
  <2>7. PICK arity \in 1 .. 3 : arity = MathArity[tokens[i][2]]
    BY ArityIs DEF IsCall
  <2>8. Effect(native) = 1 - arity
    BY <2>6, <2>7 DEF Effect
  <2>9. fit => count <= arity
    <3>1. Len(pushes \o <<native>>) = count + 1
      <4>1. pushes \in Seq(Plain(A)) /\ Len(pushes) = count
        BY <2>4, <2>5 DEF Piece
      <4> HIDE DEF native
      <4> QED
        BY <2>6, <4>1
    <3>2. fit => Len(call.code) <= arity + 1
      BY <1>0, <2>7 DEF CallsFit, Expression
    <3> HIDE DEF pushes, native, call
    <3> QED
      BY <2>1, <3>1, <3>2
  <2>10. Piece(<<native>>, 1 - count, A, fit)
    <3>1. fit => Effect(native) <= 1 - count
      BY <2>8, <2>9
    <3> HIDE DEF native
    <3> QED
      BY <2>6, <3>1, PieceOne
  <2>11. count + (1 - count) = 1 /\ count \in Int /\ 1 - count \in Int
    OBVIOUS
  <2> HIDE DEF pushes, native, call
  <2>12. Piece(pushes \o <<native>>, count + (1 - count), A, fit)
    BY <2>5, <2>10, <2>11, PieceJoins
  <2> QED
    BY <1>0, <2>1, <2>2, <2>11, <2>12 DEF A, call
<1>10. CASE Class(tokens, after) # ")"
  <2> DEFINE zero == Instr("PUSH_INT", 0)
  <2>1. call.code = <<zero>> /\ call.next = upto
    <3>1. call = Parsed(<<zero>>, upto)
      BY <1>4, <1>10, Zenon
    <3> HIDE DEF zero, call
    <3> QED
      BY <3>1 DEF Parsed
  <2>2. zero \in Plain(A) /\ Effect(zero) = 1
    BY ZeroIsInt DEF Instr, Plain, LineOps, ValuesOf, Effect
  <2> HIDE DEF zero
  <2>3. Piece(<<zero>>, 1, A, fit)
    BY <2>2, PieceOne
  <2> QED
    BY <1>0, <1>8, <2>1, <2>3 DEF zero
<1> QED
  BY <1>9, <1>10

\* The calls the parser may make: a part, a level and the token it begins at.
Nodes(tokens) == {"operand", "rest"} \X (0 .. 3) \X (1 .. Len(tokens) + 1)

\* The place of a node among them: what it calls has a smaller one.
Rank(tokens, n) ==
    8 * (Len(tokens) + 1 - n[3]) + n[2] + IF n[1] = "rest" THEN 0 ELSE 4

\* The calls of a rank below r.
Below(tokens, r) == {n \in Nodes(tokens) : Rank(tokens, n) < r}

\* What a call returns: a token not before its own, and code that leaves one value
\* if it is an operand, none if it is the rest of one.
Returns(tokens, n, v, fit) ==
    /\ v.next \in n[3] .. Len(tokens) + 1
    /\ Piece(v.code, IF n[1] = "rest" THEN 0 ELSE 1, ValuesOf(tokens), fit)

\* What a call returns when parse says what the calls it makes return.
NodeValue(tokens, parse, n) == ParseAt(tokens, parse, n[1], n[2], n[3])

(* A call at a token of the expression is one of those, with its rank.     *)
LEMMA NodeIs ==
    ASSUME NEW tokens, Expression(tokens),
           NEW part \in {"operand", "rest"}, NEW level \in 0 .. 3, NEW i \in 1 .. Len(tokens) + 1
    PROVE  /\ <<part, level, i>> \in Nodes(tokens)
           /\ Rank(tokens, <<part, level, i>>) =
                8 * (Len(tokens) + 1 - i) + level + IF part = "rest" THEN 0 ELSE 4
           /\ Rank(tokens, <<part, level, i>>) \in Nat
<1>0. PICK last \in Nat : last = Len(tokens)
  BY DEF Expression
<1>1. <<part, level, i>>[1] = part /\ <<part, level, i>>[2] = level /\ <<part, level, i>>[3] = i
  OBVIOUS
<1>2. Rank(tokens, <<part, level, i>>) =
         8 * (Len(tokens) + 1 - i) + level + IF part = "rest" THEN 0 ELSE 4
  BY <1>1, Zenon DEF Rank
<1> QED
  BY <1>0, <1>2 DEF Nodes

(* A call of the parser returns what it should when the calls it makes do. *)
LEMMA ParseAtReturns ==
    ASSUME NEW tokens, Expression(tokens), NEW fit, fit => CallsFit(tokens),
           NEW parse, NEW n \in Nodes(tokens),
           \A m \in Below(tokens, Rank(tokens, n)) : Returns(tokens, m, parse[m], fit)
    PROVE  Returns(tokens, n, NodeValue(tokens, parse, n), fit)
<1> DEFINE A == ValuesOf(tokens)
<1>0. PICK last \in Nat : last = Len(tokens)
  BY DEF Expression
<1>1. PICK part \in {"operand", "rest"}, level \in 0 .. 3, i \in 1 .. last + 1 :
          n = <<part, level, i>>
  BY <1>0 DEF Nodes
<1>2. n[1] = part /\ n[2] = level /\ n[3] = i
  BY <1>1
<1> DEFINE v == ParseAt(tokens, parse, part, level, i)
<1>3. NodeValue(tokens, parse, n) = v
  BY <1>2, Zenon DEF NodeValue
<1>4. Rank(tokens, n) = 8 * (last + 1 - i) + level + IF part = "rest" THEN 0 ELSE 4
  BY <1>0, <1>1, NodeIs
\* What a call made returns.
<1>5. ASSUME NEW p \in {"operand", "rest"}, NEW l \in 0 .. 3, NEW j \in i .. last + 1,
             8 * (last + 1 - j) + l + (IF p = "rest" THEN 0 ELSE 4)
               < 8 * (last + 1 - i) + level + IF part = "rest" THEN 0 ELSE 4
      PROVE  /\ parse[<<p, l, j>>].next \in j .. last + 1
             /\ Piece(parse[<<p, l, j>>].code, IF p = "rest" THEN 0 ELSE 1, A, fit)
  <2>1. j \in 1 .. last + 1
    OBVIOUS
  <2>2. <<p, l, j>> \in Below(tokens, Rank(tokens, n))
    BY <1>0, <1>4, <1>5, <2>1, NodeIs DEF Below
  <2>3. Returns(tokens, <<p, l, j>>, parse[<<p, l, j>>], fit)
    BY <2>2
  <2>4. <<p, l, j>>[1] = p /\ <<p, l, j>>[3] = j
    OBVIOUS
  <2> QED
    BY <1>0, <2>3, <2>4, Zenon DEF Returns
<1>6. SUFFICES /\ v.next \in i .. last + 1
               /\ Piece(v.code, IF part = "rest" THEN 0 ELSE 1, A, fit)
  BY <1>0, <1>2, <1>3, Zenon DEF Returns
<1> HIDE DEF A
<1>7. CASE part = "rest"
  <2>1. CASE level > 0 /\ Class(tokens, i) = "op" /\ tokens[i][2] \in Operators[level]
    <3> DEFINE op == tokens[i][2]
               right == parse[<<"operand", level - 1, i + 1>>]
               more == parse[<<"rest", level, right.next>>]
               instr == Instr(op, 0)
    <3>1. i <= last
      BY <1>0, <2>1 DEF Class
    <3>2. right.next \in i + 1 .. last + 1 /\ Piece(right.code, 1, A, fit)
      <4>1. level - 1 \in 0 .. 3 /\ i + 1 \in i .. last + 1
        BY <2>1, <3>1
      <4>2. 8 * (last + 1 - (i + 1)) + (level - 1) + 4 < 8 * (last + 1 - i) + level
        OBVIOUS
      <4> QED
        BY <1>5, <1>7, <4>1, <4>2
    <3>3. more.next \in i + 1 .. last + 1 /\ Piece(more.code, 0, A, fit)
      <4>1. PICK j \in i + 1 .. last + 1 : j = right.next
        BY <3>2
      <4>2. 8 * (last + 1 - j) + level < 8 * (last + 1 - i) + level
        OBVIOUS
      <4>3. parse[<<"rest", level, j>>].next \in j .. last + 1 /\ Piece(parse[<<"rest", level, j>>].code, 0, A, fit)
        BY <1>5, <1>7, <4>2
      <4> QED
        BY <4>1, <4>3
    <3>4. instr \in Plain(A) /\ Effect(instr) = -1
      <4>1. op \in AllOperators
        BY <2>1, OperatorsAre
      <4>2. 0 \in A
        BY DEF A, ValuesOf
      <4> HIDE DEF op
      <4> QED
        BY <4>1, <4>2, OperatorsAre DEF Instr, Plain, LineOps, Effect
    <3>5. v.code = right.code \o <<instr>> \o more.code /\ v.next = more.next
      <4>1. v = Parsed(right.code \o <<instr>> \o more.code, more.next)
        BY <1>7, <2>1, Zenon DEF ParseAt
      <4> HIDE DEF right, more, instr, v
      <4> QED
        BY <4>1 DEF Parsed
    <3> HIDE DEF right, more, instr, v
    <3>6. Piece(<<instr>>, -1, A, fit)
      BY <3>4, PieceOne
    <3>7. Piece(right.code \o <<instr>>, 1 + -1, A, fit)
      BY <3>2, <3>6, PieceJoins
    <3>8. 1 + -1 = 0 /\ 0 + 0 = 0 /\ 0 \in Int
      OBVIOUS
    <3>9. Piece(right.code \o <<instr>> \o more.code, 0, A, fit)
      BY <3>3, <3>7, <3>8, PieceJoins
    <3> QED
      BY <1>7, <3>3, <3>5, <3>9
  <2>2. CASE ~(level > 0 /\ Class(tokens, i) = "op" /\ tokens[i][2] \in Operators[level])
    <3>1. v.code = <<>> /\ v.next = i
      BY <1>7, <2>2 DEF ParseAt, Parsed
    <3> HIDE DEF v
    <3> QED
      BY <1>7, <3>1, PieceEmpty
  <2> QED
    BY <2>1, <2>2
<1>8. CASE part # "rest" /\ level > 0
  <2> DEFINE left == parse[<<"operand", level - 1, i>>]
             more == parse[<<"rest", level, left.next>>]
  <2>1. left.next \in i .. last + 1 /\ Piece(left.code, 1, A, fit)
    <3>1. level - 1 \in 0 .. 3 /\ i \in i .. last + 1
      BY <1>8
    <3>2. 8 * (last + 1 - i) + (level - 1) + 4 < 8 * (last + 1 - i) + level + 4
      OBVIOUS
    <3> QED
      BY <1>5, <1>8, <3>1, <3>2
  <2>2. more.next \in i .. last + 1 /\ Piece(more.code, 0, A, fit)
    <3>1. PICK j \in i .. last + 1 : j = left.next
      BY <2>1
    <3>2. 8 * (last + 1 - j) + level < 8 * (last + 1 - i) + level + 4
      OBVIOUS
    <3>3. parse[<<"rest", level, j>>].next \in j .. last + 1 /\ Piece(parse[<<"rest", level, j>>].code, 0, A, fit)
      BY <1>5, <1>8, <3>2
    <3> QED
      BY <3>1, <3>3
  <2>3. v.code = left.code \o more.code /\ v.next = more.next
    <3>1. v = Parsed(left.code \o more.code, more.next)
      BY <1>8, Zenon DEF ParseAt
    <3> HIDE DEF left, more, v
    <3> QED
      BY <3>1 DEF Parsed
  <2> HIDE DEF left, more, v
  <2>4. Piece(left.code \o more.code, 1 + 0, A, fit)
    BY <2>1, <2>2, PieceJoins
  <2> QED
    BY <1>8, <2>2, <2>3, <2>4
<1>9. CASE part # "rest" /\ level = 0
  <2>1. v = parse_factor(tokens, parse, i)
    BY <1>9 DEF ParseAt
  <2> HIDE DEF v
  <2> SUFFICES v.next \in i .. last + 1 /\ Piece(v.code, 1, A, fit)
    BY <1>9
  <2>2. CASE IsCall(tokens, i)
    <3>1. v = compile_native_math_call(tokens, i)
      BY <2>1, <2>2 DEF parse_factor
    <3>2. i \in 1 .. Len(tokens)
      BY <1>0, <2>2 DEF IsCall
    <3>3. v.next \in i + 1 .. Len(tokens) + 1 /\ Piece(v.code, 1, ValuesOf(tokens), fit)
      BY <2>2, <3>1, <3>2, CallIs
    <3> QED
      BY <1>0, <3>3 DEF A
  <2>3. CASE ~IsCall(tokens, i) /\ Class(tokens, i) = "("
    <3> DEFINE inner == parse[<<"operand", 2, i + 1>>]
               after == IF Class(tokens, inner.next) = ")" THEN inner.next + 1 ELSE inner.next
    <3>1. i <= last
      BY <1>0, <2>3 DEF Class
    <3>2. inner.next \in i + 1 .. last + 1 /\ Piece(inner.code, 1, A, fit)
      <4>1. 2 \in 0 .. 3 /\ i + 1 \in i .. last + 1
        BY <3>1
      <4>2. 8 * (last + 1 - (i + 1)) + 2 + 4 < 8 * (last + 1 - i) + level + 4
        BY <1>9
      <4> QED
        BY <1>5, <1>9, <4>1, <4>2
    <3>3. v = Parsed(inner.code, after)
      BY <2>1, <2>3, Zenon DEF parse_factor
    <3> HIDE DEF inner
    <3>4. v.code = inner.code /\ v.next = after
      <4> HIDE DEF after
      <4> QED
        BY <3>3 DEF Parsed
    <3>5. Class(tokens, inner.next) = ")" => inner.next <= last
      BY <1>0, <3>2 DEF Class
    <3>6. after \in i .. last + 1
      <4>1. PICK j \in i + 1 .. last + 1 : j = inner.next
        BY <3>2
      <4>2. Class(tokens, j) = ")" => j + 1 \in i .. last + 1
        BY <3>5, <4>1
      <4>3. j \in i .. last + 1
        OBVIOUS
      <4> QED
        BY <4>1, <4>2, <4>3, Zenon
    <3> QED
      BY <3>2, <3>4, <3>6
  <2>4. ASSUME NEW op \in {"PUSH_STR", "PUSH_INT", "LOAD_VAR"}, NEW arg \in A,
               op = "PUSH_INT" => arg \in Ints
        PROVE  Piece(<<Instr(op, arg)>>, 1, A, fit)
    <3> DEFINE instr == Instr(op, arg)
    <3>1. instr \in Plain(A) /\ Effect(instr) = 1
      BY <2>4 DEF Instr, Plain, LineOps, Effect
    <3> HIDE DEF instr
    <3>2. Piece(<<instr>>, 1, A, fit)
      BY <3>1, PieceOne
    <3> QED
      BY <3>2 DEF instr
  <2>5. CASE ~IsCall(tokens, i) /\ Class(tokens, i) \in {"str", "num", "name"}
    <3>1. i \in 1 .. last /\ tokens[i][2] \in A
          /\ (Class(tokens, i) = "num" => tokens[i][2] \in Ints)
      BY <1>0, <2>5 DEF Class, A, ValuesOf, Expression
    <3>2. PICK op \in {"PUSH_STR", "PUSH_INT", "LOAD_VAR"} :
             /\ v = Parsed(<<Instr(op, tokens[i][2])>>, i + 1)
             /\ op = "PUSH_INT" => Class(tokens, i) = "num"
      BY <2>1, <2>5 DEF parse_factor
    <3> DEFINE w == <<Instr(op, tokens[i][2])>>
    <3>3. Piece(w, 1, A, fit)
      BY <2>4, <3>1, <3>2
    <3>4. v = Parsed(w, i + 1)
      BY <3>2
    <3> HIDE DEF w
    <3>5. v.code = w /\ v.next = i + 1
      BY <3>4 DEF Parsed
    <3> QED
      BY <3>1, <3>3, <3>5
  <2>6. CASE ~IsCall(tokens, i) /\ Class(tokens, i) \notin {"(", "str", "num", "name"}
    <3> DEFINE w == <<Instr("PUSH_INT", 0)>>
    <3>1. v = Parsed(w, i)
      BY <2>1, <2>6 DEF parse_factor
    <3>2. Piece(w, 1, A, fit)
      <4>1. 0 \in A
        BY DEF A, ValuesOf
      <4> QED
        BY <2>4, <4>1, ZeroIsInt
    <3> HIDE DEF w
    <3>3. v.code = w /\ v.next = i
      BY <3>1 DEF Parsed
    <3> QED
      BY <3>2, <3>3
  <2> QED
    BY <2>2, <2>3, <2>5, <2>6
<1> QED
  BY <1>7, <1>8, <1>9

(* A call depends only on the calls it makes.                              *)
LEMMA ParseAtLocal ==
    ASSUME NEW tokens, Expression(tokens), NEW f, NEW g, NEW n \in Nodes(tokens),
           \A m \in Below(tokens, Rank(tokens, n)) : f[m] = g[m],
           \A m \in Below(tokens, Rank(tokens, n)) : Returns(tokens, m, f[m], FALSE)
    PROVE  NodeValue(tokens, f, n) = NodeValue(tokens, g, n)
<1>0. PICK last \in Nat : last = Len(tokens)
  BY DEF Expression
<1>1. PICK part \in {"operand", "rest"}, level \in 0 .. 3, i \in 1 .. last + 1 :
          n = <<part, level, i>>
  BY <1>0 DEF Nodes
<1>2. n[1] = part /\ n[2] = level /\ n[3] = i
  BY <1>1
<1>3. /\ NodeValue(tokens, f, n) = ParseAt(tokens, f, part, level, i)
      /\ NodeValue(tokens, g, n) = ParseAt(tokens, g, part, level, i)
  BY <1>2, Zenon DEF NodeValue
<1>4. Rank(tokens, n) = 8 * (last + 1 - i) + level + IF part = "rest" THEN 0 ELSE 4
  BY <1>0, <1>1, NodeIs
<1>5. ASSUME NEW p \in {"operand", "rest"}, NEW l \in 0 .. 3, NEW j \in i .. last + 1,
             8 * (last + 1 - j) + l + (IF p = "rest" THEN 0 ELSE 4)
               < 8 * (last + 1 - i) + level + IF part = "rest" THEN 0 ELSE 4
      PROVE  f[<<p, l, j>>] = g[<<p, l, j>>] /\ f[<<p, l, j>>].next \in j .. last + 1
  <2>1. j \in 1 .. last + 1
    OBVIOUS
  <2>2. <<p, l, j>> \in Below(tokens, Rank(tokens, n))
    BY <1>0, <1>4, <1>5, <2>1, NodeIs DEF Below
  <2>3. Returns(tokens, <<p, l, j>>, f[<<p, l, j>>], FALSE)
    BY <2>2
  <2>4. <<p, l, j>>[1] = p /\ <<p, l, j>>[3] = j
    OBVIOUS
  <2> QED
    BY <1>0, <2>2, <2>3, <2>4, Zenon DEF Returns
<1> SUFFICES ParseAt(tokens, f, part, level, i) = ParseAt(tokens, g, part, level, i)
  BY <1>3, Zenon
<1>6. CASE part = "rest" /\ level > 0 /\ Class(tokens, i) = "op" /\ tokens[i][2] \in Operators[level]
  <2>1. i <= last
    BY <1>0, <1>6 DEF Class
  <2>2. level - 1 \in 0 .. 3 /\ i + 1 \in i .. last + 1
        /\ 8 * (last + 1 - (i + 1)) + (level - 1) + 4 < 8 * (last + 1 - i) + level
    BY <1>6, <2>1
  <2>3. f[<<"operand", level - 1, i + 1>>] = g[<<"operand", level - 1, i + 1>>]
        /\ f[<<"operand", level - 1, i + 1>>].next \in i + 1 .. last + 1
    BY <1>5, <1>6, <2>2
  <2>4. PICK j \in i + 1 .. last + 1 : j = f[<<"operand", level - 1, i + 1>>].next
    BY <2>3
  <2>5. 8 * (last + 1 - j) + level < 8 * (last + 1 - i) + level
    OBVIOUS
  <2>6. f[<<"rest", level, j>>] = g[<<"rest", level, j>>]
    BY <1>5, <1>6, <2>5
  <2> QED
    BY <1>6, <2>3, <2>4, <2>6, Zenon DEF ParseAt
<1>7. CASE part = "rest" /\ ~(level > 0 /\ Class(tokens, i) = "op" /\ tokens[i][2] \in Operators[level])
  BY <1>7, Zenon DEF ParseAt
<1>8. CASE part # "rest" /\ level > 0
  <2>1. level - 1 \in 0 .. 3 /\ i \in i .. last + 1
        /\ 8 * (last + 1 - i) + (level - 1) + 4 < 8 * (last + 1 - i) + level + 4
    BY <1>8
  <2>2. f[<<"operand", level - 1, i>>] = g[<<"operand", level - 1, i>>]
        /\ f[<<"operand", level - 1, i>>].next \in i .. last + 1
    BY <1>5, <1>8, <2>1
  <2>3. PICK j \in i .. last + 1 : j = f[<<"operand", level - 1, i>>].next
    BY <2>2
  <2>4. 8 * (last + 1 - j) + level < 8 * (last + 1 - i) + level + 4
    OBVIOUS
  <2>5. f[<<"rest", level, j>>] = g[<<"rest", level, j>>]
    BY <1>5, <1>8, <2>4
  <2> QED
    BY <1>8, <2>2, <2>3, <2>5, Zenon DEF ParseAt
<1>9. CASE part # "rest" /\ level = 0
  <2>1. ParseAt(tokens, f, part, level, i) = parse_factor(tokens, f, i)
        /\ ParseAt(tokens, g, part, level, i) = parse_factor(tokens, g, i)
    BY <1>9 DEF ParseAt
  <2>2. CASE Class(tokens, i) = "("
    <3>1. i <= last
      BY <1>0, <2>2 DEF Class
    <3>2. 2 \in 0 .. 3 /\ i + 1 \in i .. last + 1
          /\ 8 * (last + 1 - (i + 1)) + 2 + 4 < 8 * (last + 1 - i) + level + 4
      BY <1>9, <3>1
    <3>3. f[<<"operand", 2, i + 1>>] = g[<<"operand", 2, i + 1>>]
      BY <1>5, <1>9, <3>2
    <3> DEFINE factor(inner) ==
                 IF IsCall(tokens, i) THEN compile_native_math_call(tokens, i)
                 ELSE Parsed(inner.code,
                             IF Class(tokens, inner.next) = ")" THEN inner.next + 1 ELSE inner.next)
    <3>4. /\ parse_factor(tokens, f, i) = factor(f[<<"operand", 2, i + 1>>])
          /\ parse_factor(tokens, g, i) = factor(g[<<"operand", 2, i + 1>>])
      BY <2>2 DEF parse_factor
    <3> QED
      BY <2>1, <3>3, <3>4, Zenon
  <2>3. CASE Class(tokens, i) # "("
    BY <2>1, <2>3 DEF parse_factor
  <2> QED
    BY <2>2, <2>3
<1> QED
  BY <1>6, <1>7, <1>8, <1>9

\* parse follows the definition of compile_expr on the nodes of a rank below r.
ParsesBelow(tokens, parse, r) ==
    \A n \in Below(tokens, r) : parse[n] = NodeValue(tokens, parse, n)

(* Where it does, it returns what it should.                               *)
LEMMA ParsesReturn ==
    ASSUME NEW tokens, Expression(tokens), NEW fit, fit => CallsFit(tokens), NEW parse,
           NEW r \in Nat, ParsesBelow(tokens, parse, r)
    PROVE  \A n \in Below(tokens, r) : Returns(tokens, n, parse[n], fit)
<1> DEFINE S == {q \in 0 .. r : \A n \in Below(tokens, q) : Returns(tokens, n, parse[n], fit)}
<1>0. \A n \in Nodes(tokens) : Rank(tokens, n) \in Nat
  <2>1. ASSUME NEW n \in Nodes(tokens)
        PROVE  Rank(tokens, n) \in Nat
    <3>1. PICK part \in {"operand", "rest"}, level \in 0 .. 3, i \in 1 .. Len(tokens) + 1 :
              n = <<part, level, i>>
      BY DEF Nodes
    <3> QED
      BY <3>1, NodeIs
  <2> QED
    BY <2>1
<1>1. 0 \in S
  <2>1. Below(tokens, 0) = {}
    BY <1>0 DEF Below
  <2> QED
    BY <2>1
<1>2. ASSUME NEW q \in 0 .. r - 1, q \in S
      PROVE  q + 1 \in S
  <2>1. ASSUME NEW n \in Below(tokens, q + 1)
        PROVE  Returns(tokens, n, parse[n], fit)
    <3>1. n \in Nodes(tokens) /\ Rank(tokens, n) <= q /\ n \in Below(tokens, r)
      BY <1>0 DEF Below
    <3>2. \A m \in Below(tokens, Rank(tokens, n)) : m \in Below(tokens, q)
      BY <1>0, <3>1 DEF Below
    <3>3. \A m \in Below(tokens, Rank(tokens, n)) : Returns(tokens, m, parse[m], fit)
      BY <1>2, <3>2
    <3>4. Returns(tokens, n, NodeValue(tokens, parse, n), fit)
      BY <3>1, <3>3, ParseAtReturns
    <3>5. parse[n] = NodeValue(tokens, parse, n)
      BY <3>1 DEF ParsesBelow
    <3> QED
      BY <3>4, <3>5
  <2> QED
    BY <2>1
<1> HIDE DEF S
<1>3. 0 .. r \subseteq S
  BY <1>1, <1>2, InductionUpTo
<1>4. r \in S
  BY <1>3
<1> QED
  BY <1>4 DEF S

(* There is a function that follows it on every node.                      *)
LEMMA ParseExists ==
    ASSUME NEW tokens, Expression(tokens)
    PROVE  \E parse : parse = [n \in Nodes(tokens) |-> NodeValue(tokens, parse, n)]
<1> DEFINE N == Nodes(tokens)
           Defined(p) == DOMAIN p = N /\ p = [n \in N |-> p[n]]
           top == 8 * (Len(tokens) + 2)
           S == {r \in 0 .. top : \E p : Defined(p) /\ ParsesBelow(tokens, p, r)}
<1>0. \A n \in N : Rank(tokens, n) \in Nat /\ Rank(tokens, n) < top
  <2>1. ASSUME NEW n \in N
        PROVE  Rank(tokens, n) \in Nat /\ Rank(tokens, n) < top
    <3>1. PICK part \in {"operand", "rest"}, level \in 0 .. 3, i \in 1 .. Len(tokens) + 1 :
              n = <<part, level, i>>
      BY DEF Nodes
    <3> QED
      BY <3>1, NodeIs DEF Expression
  <2> QED
    BY <2>1
<1>1. top \in Nat
  BY DEF Expression
<1> HIDE DEF top
<1>2. 0 \in S
  <2> DEFINE p == [n \in N |-> 0]
  <2>1. Defined(p)
    OBVIOUS
  <2>2. Below(tokens, 0) = {}
    BY <1>0 DEF Below
  <2>3. ParsesBelow(tokens, p, 0)
    BY <2>2 DEF ParsesBelow
  <2> QED
    BY <1>1, <2>1, <2>3
<1>3. ASSUME NEW r \in 0 .. top - 1, r \in S
      PROVE  r + 1 \in S
  <2>1. PICK p : Defined(p) /\ ParsesBelow(tokens, p, r)
    BY <1>3
  <2> DEFINE q == [n \in N |-> IF Rank(tokens, n) = r THEN NodeValue(tokens, p, n) ELSE p[n]]
  <2>2. Defined(q)
    OBVIOUS
  <2>3. \A n \in Below(tokens, r) : q[n] = p[n]
    BY <1>0 DEF Below
  <2>4. ASSUME NEW n \in Below(tokens, r + 1)
        PROVE  q[n] = NodeValue(tokens, q, n)
    <3>1. n \in N /\ Rank(tokens, n) \in Nat /\ Rank(tokens, n) <= r /\ r \in Nat
      BY <1>0 DEF Below
    <3>2. \A m \in Below(tokens, Rank(tokens, n)) : m \in Below(tokens, r)
      BY <1>0, <3>1 DEF Below
    <3>3. \A m \in Below(tokens, r) : Returns(tokens, m, p[m], FALSE)
      BY <2>1, <3>1, ParsesReturn, Zenon
    <3> HIDE DEF q
    <3>4. NodeValue(tokens, p, n) = NodeValue(tokens, q, n)
      BY <2>3, <3>1, <3>2, <3>3, ParseAtLocal
    <3>5. CASE Rank(tokens, n) = r
      BY <3>1, <3>4, <3>5 DEF q
    <3>6. CASE Rank(tokens, n) # r
      <4>1. n \in Below(tokens, r)
        BY <3>1, <3>6 DEF Below
      <4>2. p[n] = NodeValue(tokens, p, n)
        BY <2>1, <4>1 DEF ParsesBelow
      <4> QED
        BY <2>3, <3>4, <4>1, <4>2
    <3> QED
      BY <3>5, <3>6
  <2> HIDE DEF q, Defined
  <2>5. ParsesBelow(tokens, q, r + 1)
    BY <2>4 DEF ParsesBelow
  <2>6. r + 1 \in 0 .. top
    BY <1>1
  <2> QED
    BY <2>2, <2>5, <2>6, Zenon
<1> HIDE DEF S
<1>4. 0 .. top \subseteq S
  BY <1>1, <1>2, <1>3, InductionUpTo
<1>5. PICK p : Defined(p) /\ ParsesBelow(tokens, p, top)
  BY <1>1, <1>4 DEF S
<1>6. \A n \in N : p[n] = NodeValue(tokens, p, n)
  <2>1. \A n \in N : n \in Below(tokens, top)
    BY <1>0 DEF Below
  <2> QED
    BY <1>5, <2>1, Zenon DEF ParsesBelow
<1>7. p = [n \in N |-> NodeValue(tokens, p, n)]
  BY <1>5, <1>6, Zenon
<1> QED
  BY <1>7

(* The code of an expression leaves one value.                             *)
LEMMA ExpressionIs ==
    ASSUME NEW tokens, Expression(tokens), NEW fit, fit => CallsFit(tokens)
    PROVE  Piece(compile_expr(tokens), 1, ValuesOf(tokens), fit)
<1> DEFINE N == Nodes(tokens)
           F(parse) == [n \in N |-> NodeValue(tokens, parse, n)]
           parse == CHOOSE parse : parse = F(parse)
           n == <<"operand", 3, 1>>
<1>1. parse = F(parse)
  <2>1. \E p : p = F(p)
    BY ParseExists, Zenon
  <2> QED
    BY <2>1, Zenon
<1>2. compile_expr(tokens) = parse[n].code
  BY Zenon DEF compile_expr, Nodes, NodeValue
<1> HIDE DEF parse
<1>3. \A m \in N : parse[m] = NodeValue(tokens, parse, m)
  BY <1>1, Zenon
<1> DEFINE r == 8 * (Len(tokens) + 2)
<1>4. r \in Nat /\ n \in Below(tokens, r) /\ n[1] = "operand"
  <2>1. Len(tokens) \in Nat /\ 1 \in 1 .. Len(tokens) + 1
    BY DEF Expression
  <2> QED
    BY <2>1, NodeIs DEF Below
<1>5. ParsesBelow(tokens, parse, r)
  BY <1>3, Zenon DEF ParsesBelow, Below
<1> HIDE DEF r, n
<1>6. Returns(tokens, n, parse[n], fit)
  BY <1>4, <1>5, ParsesReturn, Zenon
<1> QED
  BY <1>2, <1>4, <1>6, Zenon DEF Returns

-----------------------------------------------------------------------------
(* The tables of names                                                     *)

(* One element more at the end of a sequence.                              *)
LEMMA AppendedIs ==
    ASSUME NEW S, NEW s \in Seq(S), NEW e \in S
    PROVE  /\ Append(s, e) \in Seq(S) /\ Len(Append(s, e)) = Len(s) + 1
           /\ \A k \in 1 .. Len(s) : Append(s, e)[k] = s[k]
           /\ Append(s, e)[Len(s) + 1] = e
OBVIOUS

(* The elements of a table with one entry more.                            *)
LEMMA RangeGrows ==
    ASSUME NEW S, NEW s \in Seq(S), NEW e \in S
    PROVE  Range(s) \subseteq Range(Append(s, e)) /\ e \in Range(Append(s, e))
BY AppendedIs DEF Range

(* var_index and add_string: the tables only grow, keep to their size, and have every *)
(* name that was entered, unless they are full.                                       *)
LEMMA EnteredIs ==
    ASSUME NEW S, NEW table \in Seq(S), NEW max \in Nat, Len(table) <= max, NEW ops,
           NEW instrs, Len(instrs) \in Nat,
           \A k \in 1 .. Len(instrs) : instrs[k].arg \in S
    PROVE  /\ Entered(table, max, ops, instrs) \in Seq(S)
           /\ Len(table) <= Len(Entered(table, max, ops, instrs))
           /\ Len(Entered(table, max, ops, instrs)) <= max
           /\ \A k \in 1 .. Len(instrs) :
                instrs[k].op \in ops => \/ instrs[k].arg \in Range(Entered(table, max, ops, instrs))
                                        \/ Len(Entered(table, max, ops, instrs)) = max
<1> DEFINE N == Len(instrs)
           T == Seq(S)
           enters(n, t) == instrs[n].op \in ops /\ instrs[n].arg \notin Range(t) /\ Len(t) < max
           add(n, t) == IF enters(n, t) THEN Append(t, instrs[n].arg) ELSE t
           F(t) == [k \in 0 .. Len(instrs) |->
                      IF k = 0 THEN table
                      ELSE LET before == t[k - 1]
                               name == instrs[k].arg
                           IN  IF instrs[k].op \in ops /\ name \notin Range(before) /\ Len(before) < max
                               THEN Append(before, name)
                               ELSE before]
           G(t) == [k \in 0 .. N |-> IF k = 0 THEN table ELSE add(k, t[k - 1])]
           step == [n \in Nat |-> [t \in T |-> IF n \in 1 .. N THEN add(n, t) ELSE t]]
           t == CHOOSE t : t = F(t)
<1>0. \A n \in 1 .. N, s \in T : add(n, s) \in T
  BY AppendedIs
<1>1. \A f : F(f) = G(f)
  OBVIOUS
<1>2. \E f : f = G(f)
  <2>1. step \in [Nat -> [T -> T]]
    BY <1>0
  <2> HIDE DEF step, add, T
  <2>2. table \in T
    BY DEF T
  <2>3. PICK f \in [0 .. N -> T] : Follows(f, N, table, step)
    BY <2>1, <2>2, RecursionExists
  <2>4. f = [n \in 0 .. N |-> IF n = 0 THEN table ELSE step[n][f[n - 1]]]
    BY <2>3, Zenon DEF Follows
  <2>5. ASSUME NEW n \in 0 .. N, n # 0
        PROVE  step[n][f[n - 1]] = add(n, f[n - 1])
    <3>1. n \in Nat /\ n \in 1 .. N /\ n - 1 \in 0 .. N
      BY <2>5
    <3>2. f[n - 1] \in T
      BY <2>3, <3>1
    <3> QED
      BY <3>1, <3>2, Zenon DEF step
  <2>6. f = G(f)
    BY <2>4, <2>5
  <2> QED
    BY <2>6, Zenon
<1> HIDE DEF F, G
<1>3. t = G(t)
  <2>1. \E f : f = F(f)
    BY <1>1, <1>2, Zenon
  <2>2. t = F(t)
    BY <2>1, Zenon
  <2> QED
    BY <1>1, <2>2, Zenon
<1>4. Entered(table, max, ops, instrs) = t[N]
  BY Zenon DEF Entered, F
<1> HIDE DEF t
<1>5. t[0] = table /\ \A k \in 1 .. N : t[k] = add(k, t[k - 1])
  <2> HIDE DEF add
  <2>1. \A k \in 0 .. N : t[k] = IF k = 0 THEN table ELSE add(k, t[k - 1])
    BY <1>3, Zenon DEF G
  <2> QED
    BY <2>1
<1> DEFINE Good(k) == /\ t[k] \in T /\ Len(table) <= Len(t[k]) /\ Len(t[k]) <= max
                      /\ \A j \in 1 .. k :
                           instrs[j].op \in ops => instrs[j].arg \in Range(t[k]) \/ Len(t[k]) = max
           Set == {k \in 0 .. N : Good(k)}
<1>6. 0 \in Set
  <2>1. \A j \in 1 .. 0 : FALSE
    OBVIOUS
  <2> QED
    BY <1>5, <2>1
<1>7. ASSUME NEW k \in 0 .. N - 1, k \in Set
      PROVE  k + 1 \in Set
  <2> DEFINE s == t[k]
             name == instrs[k + 1].arg
  <2>1. k + 1 \in 1 .. N /\ (k + 1) - 1 = k
    OBVIOUS
  <2>2. t[k + 1] = add(k + 1, s)
    BY <1>5, <2>1
  <2>3. name \in S /\ s \in Seq(S) /\ Good(k)
    BY <1>7, <2>1
  <2>4. CASE enters(k + 1, s)
    <3>1. t[k + 1] = Append(s, name)
      BY <2>2, <2>4
    <3>2. /\ t[k + 1] \in Seq(S) /\ Len(t[k + 1]) = Len(s) + 1
          /\ Range(s) \subseteq Range(t[k + 1]) /\ name \in Range(t[k + 1])
      BY <2>3, <3>1, AppendedIs, RangeGrows
    <3>3. Len(table) \in Nat /\ Len(s) \in Nat /\ Len(s) < max
      BY <2>3, <2>4
    <3> HIDE DEF s, name
    <3>4. Len(table) <= Len(t[k + 1]) /\ Len(t[k + 1]) <= max
      BY <2>3, <3>2, <3>3 DEF s
    <3>5. ASSUME NEW j \in 1 .. k + 1, instrs[j].op \in ops
          PROVE  instrs[j].arg \in Range(t[k + 1])
      <4>1. CASE j = k + 1
        BY <3>2, <4>1 DEF name
      <4>2. CASE j # k + 1
        <5>1. j \in 1 .. k
          BY <4>2
        <5> QED
          BY <2>3, <3>2, <3>3, <3>5, <5>1 DEF s
      <4> QED
        BY <4>1, <4>2
    <3> QED
      BY <2>1, <3>2, <3>4, <3>5
  <2>5. CASE ~enters(k + 1, s)
    <3>1. t[k + 1] = s
      BY <2>2, <2>5
    <3>2. instrs[k + 1].op \in ops => name \in Range(s) \/ Len(s) = max
      BY <2>3, <2>5
    <3>3. ASSUME NEW j \in 1 .. k + 1, instrs[j].op \in ops
          PROVE  instrs[j].arg \in Range(s) \/ Len(s) = max
      <4>1. j = k + 1 \/ j \in 1 .. k
        OBVIOUS
      <4> QED
        BY <2>3, <3>2, <3>3, <4>1
    <3> QED
      BY <2>1, <2>3, <3>1, <3>3
  <2> QED
    BY <2>4, <2>5
<1> HIDE DEF Set
<1>8. 0 .. N \subseteq Set
  BY <1>6, <1>7, InductionUpTo
<1>9. N \in Set
  BY <1>8
<1>10. Good(N)
  BY <1>9 DEF Set
<1> QED
  BY <1>4, <1>10

(* The entry a name stands for is one of the table: its own, or the last of a full one. *)
LEMMA IndexIs ==
    ASSUME NEW S, NEW table \in Seq(S), NEW n, n \in Range(table) \/ Len(table) >= 1
    PROVE  IndexIn(table, n) \in 1 .. Len(table)
<1>1. CASE n \in Range(table)
  <2>1. \E i \in DOMAIN table : table[i] = n
    BY <1>1 DEF Range
  <2>2. IndexIn(table, n) \in DOMAIN table
    BY <1>1, <2>1, Zenon DEF IndexIn
  <2> QED
    BY <2>2
<1>2. CASE n \notin Range(table)
  BY <1>2 DEF IndexIn
<1> QED
  BY <1>1, <1>2

-----------------------------------------------------------------------------
(* The code so far                                                         *)

\* The instructions that jump.
JumpOps == {"JMP", "JMP_IF_FALSE"}
\* All instructions.
Opcodes == LineOps \cup JumpOps \cup {"HALT"}

\* An instruction of the compiled program, with the item it was made for.
Instructions(A) == [op : Opcodes, arg : A, item : Nat]

\* The argument of an instruction that is no jump, with nv variables and ns strings.
ArgumentFits(i, nv, ns) ==
    /\ i.op \in VarOps => i.arg \in 1 .. nv
    /\ i.op = "PUSH_STR" => i.arg \in 1 .. ns
    /\ i.op = "PUSH_INT" => i.arg \in Ints
    /\ i.op = "NATIVE_CALL" => i.arg \in DOMAIN MathArity

\* An instruction that jumps with n values on the stack leaves it empty.
Settled(i, n) ==
    /\ i.op = "JMP" => n = 0
    /\ i.op = "JMP_IF_FALSE" => n <= 1

\* d bounds the stack as in Depths: there is nothing on it where an item begins, at
\* the places in `starts` and where a jump leads that is not in `open`.
Levels(c, open, starts, n, d) ==
    /\ Depths(c, n, d)
    /\ \A k \in 1 .. Len(c) :
          /\ Settled(c[k], d[k])
          /\ c[k].op \in JumpOps /\ k \notin open => d[c[k].arg] = 0
          /\ k > 1 /\ c[k - 1].item # c[k].item => d[k] = 0
    /\ \A k \in starts : d[k] = 0

\* The code c, with jumps yet to complete at the places in `open` only, loops that
\* start at the places in `starts`, and n values on the stack at its end.
Sound(c, open, starts, n, nv, ns, fit) ==
    /\ \E A : c \in Seq(Instructions(A))
    /\ \A k \in 1 .. Len(c) :
          /\ ArgumentFits(c[k], nv, ns)
          /\ c[k].op \in JumpOps /\ k \notin open => c[k].arg \in 1 .. Len(c) + 1
    /\ open \subseteq {k \in 1 .. Len(c) : c[k].op \in JumpOps}
    /\ starts \subseteq 1 .. Len(c) + 1
    /\ fit => \E d : Levels(c, open, starts, n, d)

(* naw_compile begins with no code.                                        *)
LEMMA SoundEmpty ==
    ASSUME NEW nv, NEW ns, NEW fit
    PROVE  Sound(<<>>, {}, {}, 0, nv, ns, fit)
<1> DEFINE d == [k \in 1 .. 1 |-> 0]
<1>1. Levels(<<>>, {}, {}, 0, d)
  BY DEF Levels, Depths
<1>2. <<>> \in Seq(Instructions({}))
  OBVIOUS
<1> HIDE DEF d
<1>3. \E e : Levels(<<>>, {}, {}, 0, e)
  BY <1>1
<1>4. \E A : <<>> \in Seq(Instructions(A))
  BY <1>2
<1> QED
  BY <1>3, <1>4 DEF Sound

(* More jumps may be open, and fewer loops of interest.                    *)
LEMMA SoundWeakens ==
    ASSUME NEW c, NEW open, NEW starts, NEW n, NEW nv, NEW ns, NEW fit,
           Sound(c, open, starts, n, nv, ns, fit),
           NEW open2, NEW starts2, open \subseteq open2, starts2 \subseteq starts,
           \A k \in open2 : k \in 1 .. Len(c) /\ c[k].op \in JumpOps
    PROVE  Sound(c, open2, starts2, n, nv, ns, fit)
<1>1. \A d : Levels(c, open, starts, n, d) => Levels(c, open2, starts2, n, d)
  BY Zenon DEF Levels
<1>2. fit => \E d : Levels(c, open2, starts2, n, d)
  BY <1>1, Zenon DEF Sound
<1>3. open2 \subseteq {k \in 1 .. Len(c) : c[k].op \in JumpOps}
  BY Zenon
<1>4. starts2 \subseteq 1 .. Len(c) + 1
  BY Zenon DEF Sound
<1>5. \A k \in 1 .. Len(c) : /\ ArgumentFits(c[k], nv, ns)
                             /\ c[k].op \in JumpOps /\ k \notin open2 => c[k].arg \in 1 .. Len(c) + 1
  BY Zenon DEF Sound
<1>6. \E A : c \in Seq(Instructions(A))
  BY Zenon DEF Sound
<1> QED
  BY <1>2, <1>3, <1>4, <1>5, <1>6, Zenon DEF Sound

(* A loop may start at the end of the code.                                *)
LEMMA SoundStarts ==
    ASSUME NEW c, NEW open, NEW starts, NEW nv, NEW ns, NEW fit,
           Sound(c, open, starts, 0, nv, ns, fit)
    PROVE  Sound(c, open, starts \cup {Len(c) + 1}, 0, nv, ns, fit)
<1>1. \A d : Levels(c, open, starts, 0, d) => Levels(c, open, starts \cup {Len(c) + 1}, 0, d)
  BY Zenon DEF Levels, Depths
<1>2. fit => \E d : Levels(c, open, starts \cup {Len(c) + 1}, 0, d)
  BY <1>1, Zenon DEF Sound
<1>3. Len(c) \in Nat
  BY DEF Sound
<1>4. starts \cup {Len(c) + 1} \subseteq 1 .. Len(c) + 1
  <2>1. Len(c) + 1 \in 1 .. Len(c) + 1
    BY <1>3
  <2>2. starts \subseteq 1 .. Len(c) + 1
    BY Zenon DEF Sound
  <2> QED
    BY <2>1, <2>2, Zenon
<1> QED
  BY <1>2, <1>4, Zenon DEF Sound

(* Jumps completed with the end of the code or the start of a loop.        *)
LEMMA SoundPatched ==
    ASSUME NEW c, NEW open, NEW starts, NEW nv, NEW ns, NEW fit,
           Sound(c, open, starts, 0, nv, ns, fit),
           NEW places, NEW target \in starts \cup {Len(c) + 1},
           \A k \in places : k \in 1 .. Len(c) => c[k].op \in JumpOps
    PROVE  /\ Sound(Patch(c, places, target), open \ places, starts, 0, nv, ns, fit)
           /\ Len(Patch(c, places, target)) = Len(c)
           /\ \A k \in 1 .. Len(c) : /\ Patch(c, places, target)[k].op = c[k].op
                                     /\ Patch(c, places, target)[k].item = c[k].item
<1> DEFINE w == Patch(c, places, target)
<1>1. PICK A : c \in Seq(Instructions(A))
  BY DEF Sound
<1>2. PICK last \in Nat : last = Len(c)
  BY <1>1
<1>3. \A k \in 1 .. last : c[k] \in Instructions(A)
  BY <1>1, <1>2
<1> DEFINE B == A \cup {target}
<1>4. ASSUME NEW k \in 1 .. last
      PROVE  /\ w[k] \in Instructions(B) /\ w[k].op = c[k].op /\ w[k].item = c[k].item
             /\ k \in places => w[k].arg = target
             /\ k \notin places => w[k] = c[k]
  <2>1. DOMAIN c = 1 .. last
    BY <1>1, <1>2
  <2>2. w[k] = IF k \in places THEN [c[k] EXCEPT !.arg = target] ELSE c[k]
    BY <2>1 DEF Patch
  <2> HIDE DEF w
  <2>3. c[k] \in Instructions(A)
    BY <1>3
  <2>4. c[k] \in Instructions(B)
    BY <2>3 DEF Instructions
  <2>5. CASE k \in places
    <3>1. w[k] = [c[k] EXCEPT !.arg = target]
      BY <2>2, <2>5
    <3> QED
      BY <2>3, <2>5, <3>1 DEF Instructions
  <2>6. CASE k \notin places
    BY <2>2, <2>4, <2>6
  <2> QED
    BY <2>5, <2>6
<1>5. DOMAIN w = 1 .. last /\ w = [k \in 1 .. last |-> w[k]]
  BY <1>1, <1>2 DEF Patch
<1> HIDE DEF w, B
<1>6. w \in Seq(Instructions(B)) /\ Len(w) = last
  BY <1>4, <1>5
<1>7. ASSUME NEW k \in 1 .. last
      PROVE  /\ ArgumentFits(w[k], nv, ns)
             /\ w[k].op \in JumpOps /\ k \notin open \ places => w[k].arg \in 1 .. last + 1
  <2>1. /\ ArgumentFits(c[k], nv, ns)
        /\ c[k].op \in JumpOps /\ k \notin open => c[k].arg \in 1 .. last + 1
    BY <1>2 DEF Sound
  <2>2. target \in 1 .. last + 1
    BY <1>2 DEF Sound
  <2>3. CASE k \in places
    <3>1. w[k].op \in JumpOps /\ w[k].arg = target
      BY <1>2, <1>4, <2>3
    <3> QED
      BY <2>2, <3>1 DEF ArgumentFits, JumpOps, VarOps
  <2>4. CASE k \notin places
    BY <1>4, <2>1, <2>4
  <2> QED
    BY <2>3, <2>4
<1>8. ASSUME NEW d, Levels(c, open, starts, 0, d)
      PROVE  Levels(w, open \ places, starts, 0, d)
  <2>0. \A k \in 1 .. last : c[k].op \in Opcodes
    BY <1>3 DEF Instructions
  <2>1. \A k \in 1 .. last : k \notin places => Effect(w[k]) = Effect(c[k])
    BY <1>4
  <2>2. \A k \in 1 .. last : k \in places => Effect(w[k]) = Effect(c[k])
    <3>1. ASSUME NEW k \in 1 .. last, k \in places
          PROVE  Effect(w[k]) = Effect(c[k])
      <4>1. c[k].op \in JumpOps /\ w[k].op = c[k].op
        BY <1>2, <1>4, <3>1
      <4> QED
        BY <4>1 DEF Effect, JumpOps
    <3> QED
      BY <3>1
  <2>3. Depths(w, 0, d)
    <3>1. /\ d \in [1 .. last + 1 -> Int] /\ d[1] = 0 /\ d[last + 1] = 0
          /\ \A k \in 1 .. last : d[k] + Effect(c[k]) <= d[k + 1]
      BY <1>2, <1>8, Zenon DEF Levels, Depths
    <3>2. \A k \in 1 .. last : d[k] + Effect(w[k]) <= d[k + 1]
      BY <2>1, <2>2, <3>1, Zenon
    <3> QED
      BY <1>6, <3>1, <3>2, Zenon DEF Depths
  <2>4. d[target] = 0
    BY <1>8 DEF Levels, Depths
  <2>5. ASSUME NEW k \in 1 .. last
        PROVE  /\ Settled(w[k], d[k])
               /\ w[k].op \in JumpOps /\ k \notin open \ places => d[w[k].arg] = 0
               /\ k > 1 /\ w[k - 1].item # w[k].item => d[k] = 0
    <3>1. /\ Settled(c[k], d[k])
          /\ c[k].op \in JumpOps /\ k \notin open => d[c[k].arg] = 0
          /\ k > 1 /\ c[k - 1].item # c[k].item => d[k] = 0
      BY <1>2, <1>8, Zenon DEF Levels
    <3>2. Settled(w[k], d[k])
      BY <1>4, <3>1, Zenon DEF Settled
    <3>3. w[k].op \in JumpOps /\ k \notin open \ places => d[w[k].arg] = 0
      BY <1>4, <2>4, <3>1, Zenon
    <3>4. k > 1 => k - 1 \in 1 .. last
      OBVIOUS
    <3>5. k > 1 /\ w[k - 1].item # w[k].item => d[k] = 0
      BY <1>4, <3>1, <3>4, Zenon
    <3> QED
      BY <3>2, <3>3, <3>5, Zenon
  <2>6. \A k \in starts : d[k] = 0
    BY <1>8, Zenon DEF Levels
  <2> QED
    BY <1>6, <2>3, <2>5, <2>6, Zenon DEF Levels
<1>9. fit => \E d : Levels(w, open \ places, starts, 0, d)
  BY <1>8, Zenon DEF Sound
<1>10. open \ places \subseteq {k \in 1 .. Len(w) : w[k].op \in JumpOps}
  BY <1>2, <1>4, <1>6 DEF Sound
<1>11. starts \subseteq 1 .. Len(w) + 1
  BY <1>2, <1>6 DEF Sound
<1>12. Sound(w, open \ places, starts, 0, nv, ns, fit)
  BY <1>6, <1>7, <1>9, <1>10, <1>11, Zenon DEF Sound
<1> QED
  BY <1>2, <1>4, <1>6, <1>12 DEF w

(* More code w for the item at hand.                                       *)
LEMMA SoundJoins ==
    ASSUME NEW c, NEW open, NEW starts, NEW m \in Int, NEW fit,
           NEW nv \in Nat, NEW ns \in Nat, NEW nv2 \in Nat, NEW ns2 \in Nat, nv <= nv2, ns <= ns2,
           Sound(c, open, starts, m, nv, ns, fit),
           NEW w, NEW B, w \in Seq(Instructions(B)), NEW i, NEW more, NEW n \in Int,
           \A k \in 1 .. Len(w) :
              /\ ArgumentFits(w[k], nv2, ns2)
              /\ w[k].item = i
              /\ w[k].op \in JumpOps => Len(c) + k \in more \/ w[k].arg \in starts,
           \A p \in more : \E k \in 1 .. Len(w) : p = Len(c) + k /\ w[k].op \in JumpOps,
           fit => /\ m = 0 \/ (Len(c) >= 1 /\ c[Len(c)].item = i)
                  /\ \E e : Depths(w, n, e) /\ \A k \in 1 .. Len(w) : Settled(w[k], m + e[k])
    PROVE  Sound(c \o w, open \cup more, starts, m + n, nv2, ns2, fit)
<1> DEFINE x == c \o w
<1>1. PICK A : c \in Seq(Instructions(A))
  BY DEF Sound
<1> DEFINE I == {j \in Instructions(A \cup B) : ArgumentFits(j, nv2, ns2)}
<1>2. c \in Seq(I)
  <2>1. \A k \in 1 .. Len(c) : c[k] \in Instructions(A) /\ ArgumentFits(c[k], nv, ns)
    BY <1>1 DEF Sound
  <2>2. \A k \in 1 .. Len(c) : c[k] \in I
    <3>1. \A j \in Instructions(A) : j \in Instructions(A \cup B)
      BY DEF Instructions
    <3>2. \A j : ArgumentFits(j, nv, ns) => ArgumentFits(j, nv2, ns2)
      BY DEF ArgumentFits
    <3> QED
      BY <2>1, <3>1, <3>2
  <2> HIDE DEF I
  <2> QED
    BY <1>1, <2>2
<1>3. w \in Seq(I)
  <2>1. \A k \in 1 .. Len(w) : w[k] \in I
    <3>1. \A k \in 1 .. Len(w) : w[k] \in Instructions(B)
      OBVIOUS
    <3>2. \A j \in Instructions(B) : j \in Instructions(A \cup B)
      BY DEF Instructions
    <3> QED
      BY <3>1, <3>2
  <2> HIDE DEF I
  <2> QED
    BY <2>1
<1>4. PICK p \in Nat : p = Len(c)
  BY <1>1
<1>5. PICK q \in Nat : q = Len(w)
  BY <1>3
<1>6. \A j \in I : Effect(j) \in Int
  BY ArityIs DEF ArgumentFits, Effect
<1>7. x \in Seq(Instructions(A \cup B)) /\ \A k \in 1 .. Len(x) : ArgumentFits(x[k], nv2, ns2)
  <2>1. x \in Seq(I)
    BY <1>2, <1>3, JoinedIs
  <2>2. \A j \in I : j \in Instructions(A \cup B) /\ ArgumentFits(j, nv2, ns2)
    BY Zenon
  <2> HIDE DEF x, I
  <2>3. \A k \in 1 .. Len(x) : x[k] \in I
    BY <2>1
  <2>4. \A k \in 1 .. Len(x) : x[k] \in Instructions(A \cup B)
    BY <2>2, <2>3, Zenon
  <2>5. x \in Seq(Instructions(A \cup B))
    BY <2>1, <2>4, SequenceOf, Zenon
  <2> QED
    BY <2>2, <2>3, <2>5, Zenon
<1>8. /\ Len(x) = p + q
      /\ \A k \in 1 .. p : x[k] = c[k]
      /\ \A k \in 1 .. q : x[p + k] = w[k]
  <2> HIDE DEF I
  <2>1. /\ Len(x) = p + q
        /\ \A k \in 1 .. p : x[k] = c[k]
        /\ \A k \in p + 1 .. p + q : x[k] = w[k - p]
    BY <1>2, <1>3, <1>4, <1>5, JoinedIs
  <2> HIDE DEF x
  <2>2. \A k \in 1 .. q : p + k \in p + 1 .. p + q /\ (p + k) - p = k
    OBVIOUS
  <2> QED
    BY <2>1, <2>2
<1> HIDE DEF x, I
<1>9. \A k \in 1 .. Len(x) : k \in 1 .. p \/ (k - p \in 1 .. q /\ k = p + (k - p))
  BY <1>8
<1>10. starts \subseteq 1 .. p + 1
  BY <1>4 DEF Sound
<1>11. ASSUME NEW k \in 1 .. Len(x), x[k].op \in JumpOps, k \notin open \cup more
       PROVE  x[k].arg \in 1 .. Len(x) + 1
  <2>1. CASE k \in 1 .. p
    <3>1. c[k].arg \in 1 .. p + 1
      BY <1>4, <1>8, <1>11, <2>1 DEF Sound
    <3> QED
      BY <1>8, <2>1, <3>1
  <2>2. CASE k - p \in 1 .. q /\ k = p + (k - p)
    <3>1. x[k] = w[k - p]
      BY <1>8, <2>2
    <3>2. w[k - p].arg \in starts
      BY <1>4, <1>5, <1>11, <2>2, <3>1
    <3>3. x[k].arg \in 1 .. p + 1
      BY <1>10, <3>1, <3>2, Zenon
    <3> QED
      BY <1>8, <3>3
  <2> QED
    BY <1>9, <2>1, <2>2
<1>12. open \cup more \subseteq {k \in 1 .. Len(x) : x[k].op \in JumpOps}
  <2>1. \A k \in open : k \in 1 .. p /\ c[k].op \in JumpOps
    BY <1>4 DEF Sound
  <2>2. ASSUME NEW k \in more
        PROVE  k \in 1 .. Len(x) /\ x[k].op \in JumpOps
    <3>1. PICK j \in 1 .. q : k = p + j /\ w[j].op \in JumpOps
      BY <1>4, <1>5, <2>2
    <3>2. p + j \in 1 .. Len(x)
      BY <1>8
    <3>3. x[p + j] = w[j]
      BY <1>8
    <3> QED
      BY <3>1, <3>2, <3>3, Zenon
  <2> QED
    BY <1>8, <2>1, <2>2
<1>13. starts \subseteq 1 .. Len(x) + 1
  BY <1>8, <1>10
<1>14. ASSUME fit
       PROVE  \E f : Levels(x, open \cup more, starts, m + n, f)
  <2>1. PICK d : Levels(c, open, starts, m, d)
    BY <1>14 DEF Sound
  <2>2. PICK e : Depths(w, n, e) /\ \A k \in 1 .. Len(w) : Settled(w[k], m + e[k])
    BY <1>14
  <2> DEFINE f == JoinedDepths(c, w, m, d, e)
  <2>3. Depths(c, m, d) /\ Depths(w, n, e)
    BY <2>1, <2>2, Zenon DEF Levels
  <2>4. /\ Depths(x, m + n, f)
        /\ \A k \in 1 .. p + 1 : f[k] = d[k]
        /\ \A k \in 1 .. q + 1 : f[p + k] = m + e[k]
    <3>1. /\ Depths(c \o w, m + n, f)
          /\ \A k \in 1 .. Len(c) + 1 : f[k] = d[k]
          /\ \A k \in 1 .. Len(w) + 1 : f[Len(c) + k] = m + e[k]
      BY <1>2, <1>3, <1>6, <2>3, DepthsJoin, SMTT(60)
    <3> QED
      BY <1>4, <1>5, <3>1, Zenon DEF x
  <2> HIDE DEF f
  <2>5. \A k \in starts : d[k] = 0 /\ f[k] = 0
    BY <1>10, <2>1, <2>4 DEF Levels
  <2>6. ASSUME NEW k \in 1 .. p
        PROVE  /\ Settled(x[k], f[k])
               /\ x[k].op \in JumpOps /\ k \notin open \cup more => f[x[k].arg] = 0
               /\ k > 1 /\ x[k - 1].item # x[k].item => f[k] = 0
    <3>1. /\ Settled(c[k], d[k])
          /\ c[k].op \in JumpOps /\ k \notin open => d[c[k].arg] = 0 /\ c[k].arg \in 1 .. p + 1
          /\ k > 1 /\ c[k - 1].item # c[k].item => d[k] = 0
      BY <1>4, <2>1, Zenon DEF Levels, Sound
    <3>2. x[k] = c[k] /\ f[k] = d[k]
      BY <1>8, <2>4
    <3>3. k > 1 => x[k - 1] = c[k - 1]
      BY <1>8
    <3> QED
      BY <2>4, <3>1, <3>2, <3>3, Zenon
  <2>7. ASSUME NEW k \in 1 .. q
        PROVE  /\ Settled(x[p + k], f[p + k])
               /\ x[p + k].op \in JumpOps /\ p + k \notin open \cup more => f[x[p + k].arg] = 0
               /\ p + k > 1 /\ x[p + k - 1].item # x[p + k].item => f[p + k] = 0
    <3>1. x[p + k] = w[k]
      BY <1>8
    <3>2. f[p + k] = m + e[k]
      BY <2>4
    <3>3. Settled(x[p + k], f[p + k])
      BY <1>5, <2>2, <3>1, <3>2
    <3>4. x[p + k].op \in JumpOps /\ p + k \notin open \cup more => f[x[p + k].arg] = 0
      <4>1. w[k].op \in JumpOps /\ p + k \notin more => w[k].arg \in starts
        BY <1>4, <1>5
      <4> QED
        BY <2>5, <3>1, <4>1
    <3>5. p + k > 1 /\ x[p + k - 1].item # x[p + k].item => f[p + k] = 0
      <4>1. CASE k = 1
        <5>1. m = 0 \/ (p >= 1 /\ c[p].item = i)
          BY <1>4, <1>14
        <5>2. m = 0 => f[p + k] = 0
          BY <2>2, <3>2, <4>1 DEF Depths
        <5>3. p >= 1 => x[p + k - 1] = c[p]
          BY <1>8, <4>1
        <5>4. x[p + k].item = i
          BY <1>5, <3>1
        <5> QED
          BY <5>1, <5>2, <5>3, <5>4
      <4>2. CASE k # 1
        <5>1. k - 1 \in 1 .. q /\ p + (k - 1) = p + k - 1
          BY <4>2
        <5>2. x[p + k - 1] = w[k - 1]
          BY <1>8, <5>1
        <5>3. w[k - 1].item = i /\ w[k].item = i
          BY <1>5, <5>1
        <5> QED
          BY <3>1, <5>2, <5>3
      <4> QED
        BY <4>1, <4>2
    <3> QED
      BY <3>3, <3>4, <3>5, Zenon
  <2>8. ASSUME NEW k \in 1 .. Len(x)
        PROVE  /\ Settled(x[k], f[k])
               /\ x[k].op \in JumpOps /\ k \notin open \cup more => f[x[k].arg] = 0
               /\ k > 1 /\ x[k - 1].item # x[k].item => f[k] = 0
    <3>1. CASE k \in 1 .. p
      BY <2>6, <3>1, Zenon
    <3>2. CASE k - p \in 1 .. q /\ k = p + (k - p)
      <4>1. PICK j \in 1 .. q : k = p + j
        BY <3>2
      <4>2. /\ Settled(x[p + j], f[p + j])
            /\ x[p + j].op \in JumpOps /\ p + j \notin open \cup more => f[x[p + j].arg] = 0
            /\ p + j > 1 /\ x[p + j - 1].item # x[p + j].item => f[p + j] = 0
        BY <2>7, Zenon
      <4> QED
        BY <4>1, <4>2
    <3> QED
      BY <1>9, <3>1, <3>2
  <2> QED
    BY <2>4, <2>5, <2>8, Zenon DEF Levels
<1>15. \A k \in 1 .. Len(x) : /\ ArgumentFits(x[k], nv2, ns2)
                              /\ x[k].op \in JumpOps /\ k \notin open \cup more => x[k].arg \in 1 .. Len(x) + 1
  BY <1>7, <1>11, Zenon
<1>16. \E C : x \in Seq(Instructions(C))
  BY <1>7, Zenon
<1>17. Sound(x, open \cup more, starts, m + n, nv2, ns2, fit)
  BY <1>12, <1>13, <1>14, <1>15, <1>16, Zenon DEF Sound
<1> QED
  BY <1>17 DEF x

\* The instruction op of item i finds m values on the stack, and takes them.
Takes(c, m, op, i) ==
    m = 0 \/ (m = 1 /\ op = "JMP_IF_FALSE" /\ Len(c) >= 1 /\ c[Len(c)].item = i)

(* A jump or the end, after everything else of its item.                   *)
LEMMA SoundAppended ==
    ASSUME NEW c, NEW open, NEW starts, NEW m \in Int, NEW fit, NEW nv \in Nat, NEW ns \in Nat,
           Sound(c, open, starts, m, nv, ns, fit),
           NEW op \in JumpOps \cup {"HALT"}, NEW arg, NEW i \in Nat,
           fit => Takes(c, m, op, i),
           NEW more, \/ (op = "HALT" /\ more = {})
                     \/ (op \in JumpOps /\ more = {Len(c) + 1})
                     \/ (op \in JumpOps /\ more = {} /\ arg \in starts)
    PROVE  /\ Sound(Append(c, Tagged(op, arg, i)), open \cup more, starts, 0, nv, ns, fit)
           /\ Len(Append(c, Tagged(op, arg, i))) = Len(c) + 1
           /\ Append(c, Tagged(op, arg, i))[Len(c) + 1] = Tagged(op, arg, i)
           /\ \A k \in 1 .. Len(c) : Append(c, Tagged(op, arg, i))[k] = c[k]
<1> DEFINE j == Tagged(op, arg, i)
           w == <<j>>
           n == 0 - m
           e == [k \in 1 .. 2 |-> IF k = 1 THEN 0 ELSE n]
           B == {arg}
<1>1. j \in Instructions(B) /\ j.op = op /\ j.arg = arg /\ j.item = i
  BY DEF Tagged, Instructions, Opcodes
<1> HIDE DEF j, B
<1>2. w \in Seq(Instructions(B)) /\ Len(w) = 1 /\ w[1] = j /\ \A k \in 1 .. Len(w) : k = 1
  BY <1>1
<1>3. PICK A : c \in Seq(Instructions(A))
  BY DEF Sound
<1>4. Append(c, j) = c \o w
  BY <1>3
<1>5. /\ Len(Append(c, j)) = Len(c) + 1 /\ Append(c, j)[Len(c) + 1] = j
      /\ \A k \in 1 .. Len(c) : Append(c, j)[k] = c[k]
  <2>1. c \in Seq(Instructions(A \cup B)) /\ j \in Instructions(A \cup B)
    <3>1. \A k \in 1 .. Len(c) : c[k] \in Instructions(A)
      BY <1>3
    <3>2. \A k \in 1 .. Len(c) : c[k] \in Instructions(A \cup B)
      BY <3>1 DEF Instructions
    <3> QED
      BY <1>1, <1>3, <3>2, SequenceOf DEF Instructions
  <2> QED
    BY <2>1, AppendedIs
<1> HIDE DEF w
<1>6. \A k \in 1 .. Len(w) :
         /\ ArgumentFits(w[k], nv, ns)
         /\ w[k].item = i
         /\ w[k].op \in JumpOps => Len(c) + k \in more \/ w[k].arg \in starts
  <2>1. ArgumentFits(j, nv, ns)
    BY <1>1 DEF ArgumentFits, JumpOps, VarOps
  <2>2. j.op \in JumpOps => Len(c) + 1 \in more \/ j.arg \in starts
    BY <1>1 DEF JumpOps
  <2> QED
    BY <1>1, <1>2, <2>1, <2>2
<1>7. \A p \in more : \E k \in 1 .. Len(w) : p = Len(c) + k /\ w[k].op \in JumpOps
  <2>1. \A p \in more : p = Len(c) + 1 /\ j.op \in JumpOps
    BY <1>1
  <2>2. 1 \in 1 .. Len(w)
    BY <1>2
  <2> QED
    BY <1>2, <2>1, <2>2
<1>8. ASSUME fit
      PROVE  /\ m = 0 \/ (Len(c) >= 1 /\ c[Len(c)].item = i)
             /\ \E f : Depths(w, n, f) /\ \A k \in 1 .. Len(w) : Settled(w[k], m + f[k])
  <2>1. m = 0 \/ (m = 1 /\ op = "JMP_IF_FALSE" /\ Len(c) >= 1 /\ c[Len(c)].item = i)
    BY <1>8 DEF Takes
  <2>2. Effect(j) <= n /\ Effect(j) \in Int
    BY <1>1, <2>1 DEF Effect, JumpOps
  <2>3. Depths(w, n, e)
    BY <1>2, <2>2 DEF Depths
  <2>4. \A k \in 1 .. Len(w) : Settled(w[k], m + e[k])
    BY <1>1, <1>2, <2>1 DEF Settled
  <2> HIDE DEF e
  <2> QED
    BY <2>1, <2>3, <2>4
<1>9. n \in Int /\ m + n = 0 /\ nv <= nv /\ ns <= ns
  OBVIOUS
<1> HIDE DEF n
<1>10. Sound(c \o w, open \cup more, starts, m + n, nv, ns, fit)
  BY <1>2, <1>6, <1>7, <1>8, <1>9, SoundJoins, Zenon
<1> QED
  BY <1>4, <1>5, <1>9, <1>10 DEF j

\* The names of the variables and the strings of the pool, within their sizes.
Tables(v, s) ==
    /\ \E S : v \in Seq(S)
    /\ \E S : s \in Seq(S)
    /\ Len(v) <= MAX_VARS /\ Len(s) <= MAX_STRINGS

(* The code of a statement or a condition, its names entered in the tables.*)
LEMMA SoundLine ==
    ASSUME NEW open, NEW starts, NEW fit, src \in Nat,
           Sound(code, open, starts, 0, Len(variable_names), Len(string_pool), fit),
           Tables(variable_names, string_pool),
           NEW instrs, NEW A, NEW n \in Int, Piece(instrs, n, A, fit)
    PROVE  /\ Sound(CodeAfter(instrs), open, starts, n,
                    Len(NamesAfter(instrs)), Len(StringsAfter(instrs)), fit)
           /\ Tables(NamesAfter(instrs), StringsAfter(instrs))
           /\ Len(CodeAfter(instrs)) = Len(code) + Len(instrs) /\ Len(instrs) \in Nat
           /\ fit /\ n # 0 => /\ Len(CodeAfter(instrs)) >= 1
                              /\ CodeAfter(instrs)[Len(CodeAfter(instrs))].item = src
<1> DEFINE v == NamesAfter(instrs)
           s == StringsAfter(instrs)
<1>1. PICK V : variable_names \in Seq(V)
  BY DEF Tables
<1>2. PICK S : string_pool \in Seq(S)
  BY DEF Tables
<1>3. instrs \in Seq(Plain(A))
  BY DEF Piece
<1>4. PICK q \in Nat : q = Len(instrs)
  BY <1>3
<1>5. \A k \in 1 .. q : instrs[k] \in Plain(A)
  BY <1>3, <1>4
<1>6. \A k \in 1 .. q : instrs[k].arg \in A
  BY <1>5 DEF Plain
<1>7. MAX_VARS \in Nat \ {0} /\ MAX_STRINGS \in Nat \ {0}
  BY TextSizesAssumption, SizesAssumption
<1>8. /\ v \in Seq(V \cup A)
      /\ Len(variable_names) <= Len(v) /\ Len(v) <= MAX_VARS
      /\ \A k \in 1 .. q : instrs[k].op \in VarOps => instrs[k].arg \in Range(v) \/ Len(v) = MAX_VARS
  <2>1. variable_names \in Seq(V \cup A)
    BY <1>1
  <2>2. \A k \in 1 .. q : instrs[k].arg \in V \cup A
    BY <1>6
  <2>3. Len(variable_names) <= MAX_VARS
    BY DEF Tables
  <2> QED
    BY <1>4, <1>7, <2>1, <2>2, <2>3, EnteredIs DEF NamesAfter
<1>9. /\ s \in Seq(S \cup A)
      /\ Len(string_pool) <= Len(s) /\ Len(s) <= MAX_STRINGS
      /\ \A k \in 1 .. q : instrs[k].op \in {"PUSH_STR"} => instrs[k].arg \in Range(s) \/ Len(s) = MAX_STRINGS
  <2>1. string_pool \in Seq(S \cup A)
    BY <1>2
  <2>2. \A k \in 1 .. q : instrs[k].arg \in S \cup A
    BY <1>6
  <2>3. Len(string_pool) <= MAX_STRINGS
    BY DEF Tables
  <2>4. PICK ops : ops = {"PUSH_STR"}
    OBVIOUS
  <2>5. s = Entered(string_pool, MAX_STRINGS, ops, instrs)
    BY <2>4, Zenon DEF StringsAfter
  <2> HIDE DEF s
  <2>6. /\ s \in Seq(S \cup A)
        /\ Len(string_pool) <= Len(s) /\ Len(s) <= MAX_STRINGS
        /\ \A k \in 1 .. q : instrs[k].op \in ops => instrs[k].arg \in Range(s) \/ Len(s) = MAX_STRINGS
    BY <1>4, <1>7, <2>1, <2>2, <2>3, <2>5, EnteredIs
  <2> QED
    BY <2>4, <2>6, Zenon
<1>10. Tables(v, s)
  BY <1>8, <1>9, Zenon DEF Tables
<1> DEFINE arg(k) == CASE instrs[k].op \in VarOps -> IndexIn(v, instrs[k].arg)
                       [] instrs[k].op = "PUSH_STR" -> IndexIn(s, instrs[k].arg)
                       [] OTHER -> instrs[k].arg
           w == [k \in DOMAIN instrs |-> Tagged(instrs[k].op, arg(k), src)]
           B == {arg(k) : k \in 1 .. q}
<1>11. CodeAfter(instrs) = code \o w
  BY Zenon DEF CodeAfter
<1>12. \A k \in 1 .. q : /\ instrs[k].op \in VarOps => arg(k) \in 1 .. Len(v)
                         /\ instrs[k].op = "PUSH_STR" => arg(k) \in 1 .. Len(s)
                         /\ instrs[k].op \notin VarOps \cup {"PUSH_STR"} => arg(k) = instrs[k].arg
  <2>1. ASSUME NEW k \in 1 .. q, instrs[k].op \in VarOps
        PROVE  IndexIn(v, instrs[k].arg) \in 1 .. Len(v)
    <3>1. instrs[k].arg \in Range(v) \/ Len(v) >= 1
      BY <1>7, <1>8, <2>1
    <3> QED
      BY <1>8, <3>1, IndexIs
  <2>2. ASSUME NEW k \in 1 .. q, instrs[k].op = "PUSH_STR"
        PROVE  IndexIn(s, instrs[k].arg) \in 1 .. Len(s)
    <3>1. instrs[k].arg \in Range(s) \/ Len(s) >= 1
      BY <1>7, <1>9, <2>2
    <3> QED
      BY <1>9, <3>1, IndexIs
  <2>3. "PUSH_STR" \notin VarOps
    BY DEF VarOps
  <2> HIDE DEF v, s
  <2> QED
    BY <2>1, <2>2, <2>3
<1>13. DOMAIN instrs = 1 .. q
  BY <1>3, <1>4
<1> HIDE DEF arg, v, s
<1>14. \A k \in 1 .. q : w[k] = Tagged(instrs[k].op, arg(k), src)
  BY <1>13
<1>15. \A k \in 1 .. q : /\ w[k].op = instrs[k].op /\ w[k].arg = arg(k) /\ w[k].item = src
                         /\ w[k].op \in LineOps /\ w[k] \in Instructions(B)
  <2>1. \A k \in 1 .. q : instrs[k].op \in LineOps
    BY <1>5 DEF Plain
  <2>2. \A k \in 1 .. q : arg(k) \in B
    BY Zenon
  <2> HIDE DEF w, B
  <2>3. ASSUME NEW k \in 1 .. q, NEW op \in LineOps, NEW a \in B, w[k] = Tagged(op, a, src)
        PROVE  /\ w[k].op = op /\ w[k].arg = a /\ w[k].item = src
               /\ w[k] \in Instructions(B)
    BY <2>3 DEF Tagged, Instructions, Opcodes
  <2> QED
    BY <1>14, <2>1, <2>2, <2>3
<1>16. w \in Seq(Instructions(B)) /\ Len(w) = q
  <2>1. DOMAIN w = 1 .. q /\ w = [k \in 1 .. q |-> w[k]]
    BY <1>13
  <2> HIDE DEF w, B
  <2> QED
    BY <1>15, <2>1
<1> HIDE DEF w, B
<1>17. \A k \in 1 .. Len(w) : /\ ArgumentFits(w[k], Len(v), Len(s))
                              /\ w[k].item = src
                              /\ w[k].op \in JumpOps => Len(code) + k \in {} \/ w[k].arg \in starts
  <2>1. ASSUME NEW k \in 1 .. q
        PROVE  ArgumentFits(w[k], Len(v), Len(s))
    <3>1. instrs[k] \in Plain(A)
      BY <1>5
    <3> QED
      BY <1>12, <1>15, <3>1 DEF ArgumentFits, Plain, VarOps
  <2>2. ASSUME NEW k \in 1 .. q
        PROVE  w[k].op \notin JumpOps
    BY <1>15, OperatorsAre DEF JumpOps, LineOps
  <2> QED
    BY <1>15, <1>16, <2>1, <2>2
<1>18. ASSUME fit
       PROVE  \E e : Depths(w, n, e) /\ \A k \in 1 .. Len(w) : Settled(w[k], 0 + e[k])
  <2>1. PICK e : Depths(instrs, n, e)
    BY <1>18 DEF Piece
  <2>2. ASSUME NEW k \in 1 .. q
        PROVE  Effect(w[k]) = Effect(instrs[k]) /\ w[k].op \notin JumpOps
    <3>1. w[k].op = instrs[k].op /\ (w[k].op = "NATIVE_CALL" => w[k].arg = instrs[k].arg)
      BY <1>12, <1>15 DEF VarOps
    <3>2. w[k].op \notin JumpOps
      BY <1>15, OperatorsAre DEF LineOps, JumpOps
    <3> QED
      BY <3>1, <3>2 DEF Effect
  <2>3. Depths(w, n, e)
    BY <1>4, <1>16, <2>1, <2>2, Zenon DEF Depths
  <2>4. \A k \in 1 .. Len(w) : Settled(w[k], 0 + e[k])
    BY <1>16, <2>2 DEF Settled, JumpOps
  <2> QED
    BY <2>3, <2>4
<1>19. Len(variable_names) \in Nat /\ Len(string_pool) \in Nat /\ Len(v) \in Nat /\ Len(s) \in Nat
  BY <1>1, <1>2, <1>8, <1>9
<1>20. Sound(code \o w, open \cup {}, starts, 0 + n, Len(v), Len(s), fit)
  <2>1. \A p \in {} : \E k \in 1 .. Len(w) : p = Len(code) + k /\ w[k].op \in JumpOps
    OBVIOUS
  <2>2. 0 \in Int
    OBVIOUS
  <2> QED
    BY <1>8, <1>9, <1>16, <1>17, <1>18, <1>19, <2>1, <2>2, SoundJoins, Zenon
<1>21. open \cup {} = open /\ 0 + n = n
  OBVIOUS
<1>22. PICK C : code \in Seq(Instructions(C))
  BY DEF Sound
<1>23. Len(code \o w) = Len(code) + q /\ (q >= 1 => (code \o w)[Len(code) + q] = w[q])
  <2>1. code \in Seq(Instructions(B \cup C)) /\ w \in Seq(Instructions(B \cup C))
    <3>1. \A D : \A j \in Instructions(D) : D \subseteq B \cup C => j \in Instructions(B \cup C)
      BY DEF Instructions
    <3>2. \A k \in 1 .. Len(code) : code[k] \in Instructions(C)
      BY <1>22
    <3>3. \A k \in 1 .. Len(w) : w[k] \in Instructions(B)
      BY <1>16
    <3> QED
      BY <1>16, <1>22, <3>1, <3>2, <3>3, SequenceOf
  <2>2. /\ Len(code \o w) = Len(code) + q
        /\ \A k \in Len(code) + 1 .. Len(code) + q : (code \o w)[k] = w[k - Len(code)]
    BY <1>16, <2>1, JoinedIs
  <2>3. q >= 1 => Len(code) + q \in Len(code) + 1 .. Len(code) + q /\ (Len(code) + q) - Len(code) = q
    BY <1>22
  <2> QED
    BY <2>2, <2>3
<1>24. fit /\ n # 0 => q >= 1
  <2>1. ASSUME fit, q = 0
        PROVE  n = 0
    <3>1. PICK e : Depths(instrs, n, e)
      BY <2>1 DEF Piece
    <3> QED
      BY <1>4, <2>1, <3>1 DEF Depths
  <2> QED
    BY <2>1
<1>25. q >= 1 => w[q].item = src /\ Len(code) + q >= 1
  BY <1>15, <1>22
<1> QED
  BY <1>4, <1>10, <1>11, <1>20, <1>21, <1>23, <1>24, <1>25 DEF v, s

-----------------------------------------------------------------------------
(* The blocks and the loops that are open                                  *)

\* A block open, and the context of a loop open.
Block == [kind : {"if", "while", "else"}, jump : Nat, loop : Nat]
Loop == [loop_start : Nat, break_jumps : Seq(Nat), continue_jumps : Seq(Nat)]

\* Each `while` among the blocks b has its place in the loops l, in the same order.
Matched(b, l) ==
    /\ \A x \in 1 .. Len(b) : /\ b[x].loop <= Len(l)
                              /\ (b[x].kind = "while") = (b[x].loop # 0)
    /\ \A x, y \in 1 .. Len(b) : x < y /\ b[y].kind = "while" => b[x].loop < b[y].loop
    /\ \A m \in 1 .. Len(l) : \E x \in 1 .. Len(b) : b[x].kind = "while" /\ b[x].loop = m

\* The blocks and the loops open.
Frames(b, l) ==
    /\ b \in Seq(Block) /\ l \in Seq(Loop)
    /\ Len(l) <= MAX_LOOP_DEPTH
    /\ Matched(b, l)

\* The jumps that the ends of the blocks will complete.
Exits(ctx) == Range(ctx.break_jumps) \cup Range(ctx.continue_jumps)
JumpsOf(b) == {b[x].jump : x \in 1 .. Len(b)}
ExitsOf(l) == UNION {Exits(l[x]) : x \in 1 .. Len(l)}
Open(b, l) == JumpsOf(b) \cup ExitsOf(l)
Starts(l) == {l[x].loop_start : x \in 1 .. Len(l)}

(* A sequence without its last element.                                    *)
LEMMA FrontIs ==
    ASSUME NEW S, NEW s \in Seq(S), s # <<>>
    PROVE  /\ Front(s) \in Seq(S) /\ Len(s) \in Nat \ {0} /\ Len(Front(s)) = Len(s) - 1
           /\ \A k \in 1 .. Len(s) - 1 : Front(s)[k] = s[k]
           /\ Last(s) = s[Len(s)] /\ Last(s) \in S
<1>1. Len(s) \in Nat \ {0}
  OBVIOUS
<1>2. PICK p \in Nat : Len(s) = p + 1
  <2>1. Len(s) - 1 \in Nat /\ Len(s) = (Len(s) - 1) + 1
    BY <1>1
  <2> QED
    BY <2>1
<1>3. \A k \in 1 .. p + 1 : s[k] \in S
  BY <1>2
<1>4. Front(s) = [k \in 1 .. p |-> s[k]]
  BY <1>2 DEF Front
<1>5. Front(s) \in Seq(S) /\ Len(Front(s)) = p
  BY <1>3, <1>4
<1>6. \A k \in 1 .. p : Front(s)[k] = s[k]
  BY <1>4
<1>7. Last(s) = s[p + 1] /\ s[p + 1] \in S
  BY <1>2, <1>3 DEF Last
<1> QED
  BY <1>1, <1>2, <1>5, <1>6, <1>7

(* One block more has one jump more to complete.                           *)
LEMMA JumpsFrom ==
    ASSUME NEW b, NEW c, NEW j, Len(b) \in Nat, Len(c) = Len(b) + 1,
           \A k \in 1 .. Len(b) : c[k] = b[k], c[Len(b) + 1].jump = j
    PROVE  JumpsOf(c) = JumpsOf(b) \cup {j}
<1>1. \A x \in 1 .. Len(c) : x \in 1 .. Len(b) \/ x = Len(b) + 1
  OBVIOUS
<1>2. \A x \in 1 .. Len(b) : x \in 1 .. Len(c)
  OBVIOUS
<1>3. Len(b) + 1 \in 1 .. Len(c)
  OBVIOUS
<1> QED
  BY <1>1, <1>2, <1>3, Zenon DEF JumpsOf

(* One loop more has its own jumps out of it and its own start.            *)
LEMMA ExitsFrom ==
    ASSUME NEW l, NEW m, Len(l) \in Nat, Len(m) = Len(l) + 1,
           \A k \in 1 .. Len(l) : m[k] = l[k]
    PROVE  /\ ExitsOf(m)
                = ExitsOf(l) \cup Exits(m[Len(l) + 1])
           /\ Starts(m) = Starts(l) \cup {m[Len(l) + 1].loop_start}
<1>1. \A x \in 1 .. Len(m) : x \in 1 .. Len(l) \/ x = Len(l) + 1
  OBVIOUS
<1>2. \A x \in 1 .. Len(l) : x \in 1 .. Len(m)
  OBVIOUS
<1>3. Len(l) + 1 \in 1 .. Len(m)
  OBVIOUS
<1>4. ExitsOf(m)
          = ExitsOf(l) \cup Exits(m[Len(l) + 1])
  <2>1. ASSUME NEW e \in ExitsOf(m)
        PROVE  e \in ExitsOf(l) \/ e \in Exits(m[Len(l) + 1])
    <3>1. PICK x \in 1 .. Len(m) : e \in Exits(m[x])
      BY <2>1, Zenon DEF ExitsOf
    <3>2. CASE x \in 1 .. Len(l)
      <4>1. e \in Exits(l[x])
        BY <3>1, <3>2
      <4> QED
        BY <3>2, <4>1, Zenon DEF ExitsOf
    <3>3. CASE x = Len(l) + 1
      BY <3>1, <3>3, Zenon
    <3> QED
      BY <1>1, <3>2, <3>3
  <2>2. ASSUME NEW e, e \in ExitsOf(l) \/ e \in Exits(m[Len(l) + 1])
        PROVE  e \in ExitsOf(m)
    <3>1. CASE e \in ExitsOf(l)
      <4>1. PICK x \in 1 .. Len(l) : e \in Exits(l[x])
        BY <3>1, Zenon DEF ExitsOf
      <4>2. x \in 1 .. Len(m) /\ e \in Exits(m[x])
        BY <1>2, <4>1
      <4> QED
        BY <4>2, Zenon DEF ExitsOf
    <3>2. CASE e \in Exits(m[Len(l) + 1])
      BY <1>3, <3>2, Zenon DEF ExitsOf
    <3> QED
      BY <2>2, <3>1, <3>2, Zenon
  <2> QED
    BY <2>1, <2>2, Zenon
<1>5. Starts(m) = Starts(l) \cup {m[Len(l) + 1].loop_start}
  BY <1>1, <1>2, <1>3, Zenon DEF Starts
<1> QED
  BY <1>4, <1>5, Zenon

(* An `if` or an `else` opens.                                             *)
LEMMA FrameOpens ==
    ASSUME NEW b, NEW l, Frames(b, l), NEW kind \in {"if", "else"}, NEW j \in Nat
    PROVE  /\ Frames(Append(b, [kind |-> kind, jump |-> j, loop |-> 0]), l)
           /\ Open(Append(b, [kind |-> kind, jump |-> j, loop |-> 0]), l) = Open(b, l) \cup {j}
<1> DEFINE e == [kind |-> kind, jump |-> j, loop |-> 0]
           c == Append(b, e)
<1>1. e \in Block /\ e.kind # "while" /\ e.loop = 0 /\ e.jump = j
  BY DEF Block
<1> HIDE DEF e
<1>2. b \in Seq(Block) /\ l \in Seq(Loop) /\ Len(l) \in Nat
  BY DEF Frames
<1>3. /\ c \in Seq(Block) /\ Len(c) = Len(b) + 1
      /\ \A k \in 1 .. Len(b) : c[k] = b[k]
      /\ c[Len(b) + 1] = e
  BY <1>1, <1>2, AppendedIs
<1> HIDE DEF c
<1>4. PICK p \in Nat : p = Len(b)
  BY <1>2
<1>5. \A x \in 1 .. p + 1 : x \in 1 .. p \/ x = p + 1
  OBVIOUS
<1>6. Matched(b, l)
  BY DEF Frames
<1>7. \A x \in 1 .. p + 1 : c[x].loop <= Len(l) /\ (c[x].kind = "while") = (c[x].loop # 0)
  BY <1>1, <1>2, <1>3, <1>4, <1>5, <1>6 DEF Matched
<1>8. ASSUME NEW x \in 1 .. p + 1, NEW y \in 1 .. p + 1, x < y, c[y].kind = "while"
      PROVE  c[x].loop < c[y].loop
  <2>1. y # p + 1
    BY <1>1, <1>3, <1>4, <1>8
  <2>2. x \in 1 .. p /\ y \in 1 .. p
    BY <1>8, <2>1
  <2> QED
    BY <1>3, <1>4, <1>6, <1>8, <2>2 DEF Matched
<1>9. \A m \in 1 .. Len(l) : \E x \in 1 .. p + 1 : c[x].kind = "while" /\ c[x].loop = m
  <2>1. \A x \in 1 .. p : x \in 1 .. p + 1
    OBVIOUS
  <2> QED
    BY <1>3, <1>4, <1>6, <2>1, Zenon DEF Matched
<1>10. Matched(c, l)
  BY <1>3, <1>4, <1>7, <1>8, <1>9 DEF Matched
<1>11. Open(c, l) = Open(b, l) \cup {j}
  <2>1. Len(b) \in Nat /\ c[Len(b) + 1].jump = j
    BY <1>1, <1>3, <1>4
  <2>2. JumpsOf(c) = JumpsOf(b) \cup {j}
    BY <1>3, <2>1, JumpsFrom, Zenon
  <2>3. PICK J : J = JumpsOf(b)
    OBVIOUS
  <2>4. PICK E : E = ExitsOf(l)
    OBVIOUS
  <2>5. Open(b, l) = J \cup E
    BY <2>3, <2>4, Zenon DEF Open
  <2>6. Open(c, l) = (J \cup {j}) \cup E
    BY <2>2, <2>3, <2>4, Zenon DEF Open
  <2>7. (J \cup {j}) \cup E = (J \cup E) \cup {j}
    BY Zenon
  <2> QED
    BY <2>5, <2>6, <2>7, Zenon
<1> QED
  BY <1>3, <1>10, <1>11 DEF c, e, Frames

(* A `while` opens.                                                        *)
LEMMA FrameLoops ==
    ASSUME NEW b, NEW l, Frames(b, l), Len(l) < MAX_LOOP_DEPTH, NEW j \in Nat, NEW start \in Nat
    PROVE  LET c == Append(b, [kind |-> "while", jump |-> j, loop |-> Len(l) + 1])
               m == Append(l, [loop_start |-> start, break_jumps |-> <<>>, continue_jumps |-> <<>>])
           IN  /\ Frames(c, m)
               /\ Open(c, m) = Open(b, l) \cup {j}
               /\ Starts(m) = Starts(l) \cup {start}
<1> DEFINE e == [kind |-> "while", jump |-> j, loop |-> Len(l) + 1]
           f == [loop_start |-> start, break_jumps |-> <<>>, continue_jumps |-> <<>>]
           c == Append(b, e)
           m == Append(l, f)
<1>1. b \in Seq(Block) /\ l \in Seq(Loop) /\ Len(l) \in Nat
  BY DEF Frames
<1>2. e \in Block /\ e.kind = "while" /\ e.loop = Len(l) + 1 /\ e.jump = j
  BY <1>1 DEF Block
<1>3. f \in Loop /\ f.loop_start = start /\ Exits(f) = {}
  BY DEF Loop, Exits, Range
<1> HIDE DEF e, f
<1>4. /\ c \in Seq(Block) /\ Len(c) = Len(b) + 1
      /\ \A k \in 1 .. Len(b) : c[k] = b[k]
      /\ c[Len(b) + 1] = e
  BY <1>1, <1>2, AppendedIs
<1>5. /\ m \in Seq(Loop) /\ Len(m) = Len(l) + 1
      /\ \A k \in 1 .. Len(l) : m[k] = l[k]
      /\ m[Len(l) + 1] = f
  BY <1>1, <1>3, AppendedIs
<1> HIDE DEF c, m
<1>6. PICK p \in Nat : p = Len(b)
  BY <1>1
<1>7. PICK q \in Nat : q = Len(l)
  BY <1>1
<1>8. \A x \in 1 .. p + 1 : x \in 1 .. p \/ x = p + 1
  OBVIOUS
<1>9. Matched(b, l)
  BY DEF Frames
<1>10. \A x \in 1 .. p : b[x].loop \in Nat
  <2>1. \A x \in 1 .. p : b[x] \in Block
    BY <1>1, <1>6
  <2> QED
    BY <2>1 DEF Block
<1>11. \A x \in 1 .. p + 1 : c[x].loop <= q + 1 /\ (c[x].kind = "while") = (c[x].loop # 0)
  <2>1. \A x \in 1 .. p : b[x].loop <= q /\ (b[x].kind = "while") = (b[x].loop # 0)
    BY <1>6, <1>7, <1>9, Zenon DEF Matched
  <2>2. c[p + 1].loop = q + 1 /\ c[p + 1].kind = "while"
    BY <1>2, <1>4, <1>6, <1>7
  <2>3. \A x \in 1 .. p : c[x] = b[x]
    BY <1>4, <1>6
  <2>4. \A x \in 1 .. p : c[x].loop <= q + 1 /\ (c[x].kind = "while") = (c[x].loop # 0)
    BY <1>10, <2>1, <2>3
  <2> QED
    BY <1>8, <2>2, <2>4
<1>12. ASSUME NEW x \in 1 .. p + 1, NEW y \in 1 .. p + 1, x < y, c[y].kind = "while"
       PROVE  c[x].loop < c[y].loop
  <2>1. x \in 1 .. p /\ c[x] = b[x] /\ b[x].loop <= q
    BY <1>4, <1>6, <1>7, <1>9, <1>12 DEF Matched
  <2>2. CASE y = p + 1
    <3>1. c[y].loop = q + 1
      BY <1>2, <1>4, <1>6, <1>7, <2>2
    <3> QED
      BY <1>10, <2>1, <3>1
  <2>3. CASE y # p + 1
    <3>1. y \in 1 .. p
      BY <2>3
    <3>2. c[y] = b[y]
      BY <1>4, <1>6, <3>1
    <3>3. b[y].kind = "while" /\ x < y
      BY <1>12, <3>2
    <3> QED
      BY <1>6, <1>9, <2>1, <3>1, <3>2, <3>3, Zenon DEF Matched
  <2> QED
    BY <2>2, <2>3
<1>13. ASSUME NEW k \in 1 .. q + 1
       PROVE  \E x \in 1 .. p + 1 : c[x].kind = "while" /\ c[x].loop = k
  <2>1. CASE k = q + 1
    <3>1. p + 1 \in 1 .. p + 1
      OBVIOUS
    <3> QED
      BY <1>2, <1>4, <1>6, <1>7, <2>1, <3>1
  <2>2. CASE k # q + 1
    <3>1. k \in 1 .. q
      BY <2>2
    <3>2. PICK x \in 1 .. p : b[x].kind = "while" /\ b[x].loop = k
      BY <1>6, <1>7, <1>9, <3>1, Zenon DEF Matched
    <3>3. x \in 1 .. p + 1
      OBVIOUS
    <3> QED
      BY <1>4, <1>6, <3>2, <3>3
  <2> QED
    BY <2>1, <2>2
<1>14. Matched(c, m)
  BY <1>4, <1>5, <1>6, <1>7, <1>11, <1>12, <1>13 DEF Matched
<1>15. Len(m) <= MAX_LOOP_DEPTH
  BY <1>1, <1>5, TextSizesAssumption
<1>16. JumpsOf(c) = JumpsOf(b) \cup {j}
  <2>1. Len(b) \in Nat /\ c[Len(b) + 1].jump = j
    BY <1>2, <1>4, <1>6
  <2> QED
    BY <1>4, <2>1, JumpsFrom, Zenon
<1>17. /\ ExitsOf(m) = ExitsOf(l) \cup {}
       /\ Starts(m) = Starts(l) \cup {start}
  BY <1>1, <1>3, <1>5, ExitsFrom
<1>18. Open(c, m) = Open(b, l) \cup {j}
  <2>1. PICK J : J = JumpsOf(b)
    OBVIOUS
  <2>2. PICK E : E = ExitsOf(l)
    OBVIOUS
  <2>3. Open(b, l) = J \cup E
    BY <2>1, <2>2, Zenon DEF Open
  <2>4. Open(c, m) = (J \cup {j}) \cup (E \cup {})
    BY <1>16, <1>17, <2>1, <2>2, Zenon DEF Open
  <2>5. (J \cup {j}) \cup (E \cup {}) = (J \cup E) \cup {j}
    BY Zenon
  <2> QED
    BY <2>3, <2>4, <2>5, Zenon
<1> QED
  BY <1>4, <1>5, <1>14, <1>15, <1>17, <1>18 DEF c, m, e, f, Frames

(* An `if` or an `else` ends.                                              *)
LEMMA FrameEnds ==
    ASSUME NEW b, NEW l, Frames(b, l), b # <<>>, Last(b).kind # "while"
    PROVE  /\ Frames(Front(b), l)
           /\ Open(b, l) = Open(Front(b), l) \cup {Last(b).jump}
<1> DEFINE c == Front(b)
<1>1. b \in Seq(Block) /\ l \in Seq(Loop) /\ Len(l) \in Nat /\ Matched(b, l)
  BY DEF Frames
<1>2. /\ c \in Seq(Block) /\ Len(b) \in Nat \ {0} /\ Len(c) = Len(b) - 1
      /\ \A k \in 1 .. Len(b) - 1 : c[k] = b[k]
      /\ Last(b) = b[Len(b)]
  BY <1>1, FrontIs
<1> HIDE DEF c
<1>3. PICK p \in Nat : p = Len(c)
  BY <1>2
<1>4. Len(b) = p + 1
  BY <1>2, <1>3
<1>5. \A x \in 1 .. p : c[x] = b[x] /\ x \in 1 .. p + 1
  BY <1>2, <1>3
<1>6. \A m \in 1 .. Len(l) : \E x \in 1 .. p : c[x].kind = "while" /\ c[x].loop = m
  <2>1. ASSUME NEW m \in 1 .. Len(l)
        PROVE  \E x \in 1 .. p : c[x].kind = "while" /\ c[x].loop = m
    <3>1. PICK x \in 1 .. p + 1 : b[x].kind = "while" /\ b[x].loop = m
      BY <1>1, <1>4, Zenon DEF Matched
    <3>2. x # p + 1
      BY <1>2, <1>4, <3>1
    <3>3. x \in 1 .. p
      BY <3>2
    <3> QED
      BY <1>5, <3>1, <3>3
  <2> QED
    BY <2>1
<1>7. Matched(c, l)
  <2>1. /\ \A x \in 1 .. p + 1 : b[x].loop <= Len(l) /\ (b[x].kind = "while") = (b[x].loop # 0)
        /\ \A x, y \in 1 .. p + 1 : x < y /\ b[y].kind = "while" => b[x].loop < b[y].loop
    BY <1>1, <1>4, Zenon DEF Matched
  <2>2. /\ \A x \in 1 .. p : c[x].loop <= Len(l) /\ (c[x].kind = "while") = (c[x].loop # 0)
        /\ \A x, y \in 1 .. p : x < y /\ c[y].kind = "while" => c[x].loop < c[y].loop
    BY <1>5, <2>1, Zenon
  <2> QED
    BY <1>3, <1>6, <2>2, Zenon DEF Matched
<1>8. JumpsOf(b) = JumpsOf(c) \cup {Last(b).jump}
  <2>1. /\ Len(c) \in Nat /\ Len(b) = Len(c) + 1 /\ b[Len(c) + 1].jump = Last(b).jump
        /\ \A k \in 1 .. Len(c) : b[k] = c[k]
    BY <1>2, <1>3, <1>4, <1>5
  <2> QED
    BY <2>1, JumpsFrom, Zenon
<1>9. Open(b, l) = Open(c, l) \cup {Last(b).jump}
  <2>1. PICK J : J = JumpsOf(c)
    OBVIOUS
  <2>2. PICK E : E = ExitsOf(l)
    OBVIOUS
  <2>3. Open(c, l) = J \cup E
    BY <2>1, <2>2, Zenon DEF Open
  <2>4. Open(b, l) = (J \cup {Last(b).jump}) \cup E
    BY <1>8, <2>1, <2>2, Zenon DEF Open
  <2>5. (J \cup {Last(b).jump}) \cup E = (J \cup E) \cup {Last(b).jump}
    BY Zenon
  <2> QED
    BY <2>3, <2>4, <2>5, Zenon
<1> QED
  BY <1>1, <1>2, <1>7, <1>9 DEF c, Frames

(* A `while` ends.                                                         *)
LEMMA FrameLoopEnds ==
    ASSUME NEW b, NEW l, Frames(b, l), b # <<>>, Last(b).kind = "while"
    PROVE  /\ l # <<>> /\ Last(b).loop = Len(l)
           /\ Frames(Front(b), Front(l))
           /\ Open(b, l) = Open(Front(b), Front(l)) \cup {Last(b).jump} \cup Exits(l[Len(l)])
           /\ Starts(l) = Starts(Front(l)) \cup {l[Len(l)].loop_start}
<1> DEFINE c == Front(b)
           m == Front(l)
<1>1. b \in Seq(Block) /\ l \in Seq(Loop) /\ Len(l) \in Nat /\ Matched(b, l)
  BY DEF Frames
<1>2. /\ c \in Seq(Block) /\ Len(b) \in Nat \ {0} /\ Len(c) = Len(b) - 1
      /\ \A k \in 1 .. Len(b) - 1 : c[k] = b[k]
      /\ Last(b) = b[Len(b)]
  BY <1>1, FrontIs
<1> HIDE DEF c
<1>3. PICK p \in Nat : p = Len(c)
  BY <1>2
<1>4. Len(b) = p + 1
  BY <1>2, <1>3
<1>5. \A x \in 1 .. p : c[x] = b[x] /\ x \in 1 .. p + 1
  BY <1>2, <1>3
<1>6. /\ \A x \in 1 .. p + 1 : b[x].loop <= Len(l) /\ (b[x].kind = "while") = (b[x].loop # 0)
      /\ \A x, y \in 1 .. p + 1 : x < y /\ b[y].kind = "while" => b[x].loop < b[y].loop
      /\ \A k \in 1 .. Len(l) : \E x \in 1 .. p + 1 : b[x].kind = "while" /\ b[x].loop = k
  BY <1>1, <1>4, Zenon DEF Matched
<1>7. \A x \in 1 .. p + 1 : b[x].loop \in Nat
  <2>1. \A x \in 1 .. p + 1 : b[x] \in Block
    BY <1>1, <1>4
  <2> QED
    BY <2>1 DEF Block
<1>8. PICK last \in Nat : last = b[p + 1].loop
  BY <1>7
<1>9. b[p + 1].kind = "while" /\ last \in 1 .. Len(l)
  <2>1. b[p + 1].kind = "while"
    BY <1>2, <1>4
  <2>2. p + 1 \in 1 .. p + 1
    OBVIOUS
  <2> QED
    BY <1>1, <1>6, <1>8, <2>1, <2>2
<1>10. \A x \in 1 .. p : b[x].loop < last
  <2>1. \A x \in 1 .. p : x \in 1 .. p + 1 /\ p + 1 \in 1 .. p + 1 /\ x < p + 1
    OBVIOUS
  <2> QED
    BY <1>6, <1>8, <1>9, <2>1, Zenon
<1>11. last = Len(l)
  <2>1. Len(l) \in 1 .. Len(l)
    BY <1>1, <1>9
  <2>2. PICK x \in 1 .. p + 1 : b[x].kind = "while" /\ b[x].loop = Len(l)
    BY <1>6, <2>1
  <2>3. x = p + 1 \/ x \in 1 .. p
    OBVIOUS
  <2> QED
    BY <1>1, <1>8, <1>9, <1>10, <2>2, <2>3
<1>12. l # <<>>
  BY <1>1, <1>9
<1>13. /\ m \in Seq(Loop) /\ Len(m) = Len(l) - 1
       /\ \A k \in 1 .. Len(l) - 1 : m[k] = l[k]
  BY <1>1, <1>12, FrontIs
<1> HIDE DEF m
<1>14. PICK q \in Nat : q = Len(m)
  BY <1>13
<1>15. Len(l) = q + 1
  BY <1>1, <1>13, <1>14
<1>16. Matched(c, m)
  <2>1. \A x \in 1 .. p : c[x].loop <= q /\ (c[x].kind = "while") = (c[x].loop # 0)
    <3>1. \A x \in 1 .. p : x \in 1 .. p + 1 /\ b[x].loop \in Nat /\ b[x].loop < last
      BY <1>5, <1>7, <1>10
    <3>2. \A x \in 1 .. p : b[x].loop <= q
      BY <1>11, <1>15, <3>1
    <3> QED
      BY <1>5, <1>6, <3>2, Zenon
  <2>2. \A x, y \in 1 .. p : x < y /\ c[y].kind = "while" => c[x].loop < c[y].loop
    BY <1>5, <1>6, Zenon
  <2>3. ASSUME NEW k \in 1 .. q
        PROVE  \E x \in 1 .. p : c[x].kind = "while" /\ c[x].loop = k
    <3>1. k \in 1 .. Len(l) /\ k # last
      BY <1>11, <1>15
    <3>2. PICK x \in 1 .. p + 1 : b[x].kind = "while" /\ b[x].loop = k
      BY <1>6, <3>1
    <3>3. x # p + 1
      BY <1>8, <3>1, <3>2
    <3>4. x \in 1 .. p
      BY <3>3
    <3> QED
      BY <1>5, <3>2, <3>4
  <2> QED
    BY <1>3, <1>14, <2>1, <2>2, <2>3 DEF Matched
<1>17. JumpsOf(b) = JumpsOf(c) \cup {Last(b).jump}
  <2>1. /\ Len(c) \in Nat /\ Len(b) = Len(c) + 1 /\ b[Len(c) + 1].jump = Last(b).jump
        /\ \A k \in 1 .. Len(c) : b[k] = c[k]
    BY <1>2, <1>3, <1>4, <1>5
  <2>2. PICK j : j = Last(b).jump
    OBVIOUS
  <2>3. JumpsOf(b) = JumpsOf(c) \cup {j}
    BY <2>1, <2>2, JumpsFrom, Zenon
  <2> QED
    BY <2>2, <2>3, Zenon
<1>18. /\ ExitsOf(l) = ExitsOf(m) \cup Exits(l[Len(l)])
       /\ Starts(l) = Starts(m) \cup {l[Len(l)].loop_start}
  <2>1. \A k \in 1 .. Len(m) : l[k] = m[k]
    BY <1>13, <1>14, <1>15
  <2> QED
    BY <1>14, <1>15, <2>1, ExitsFrom
<1>19. Open(b, l) = Open(c, m) \cup {Last(b).jump} \cup Exits(l[Len(l)])
  <2>1. PICK J : J = JumpsOf(c)
    OBVIOUS
  <2>2. PICK E : E = ExitsOf(m)
    OBVIOUS
  <2>3. PICK X : X = Exits(l[Len(l)])
    OBVIOUS
  <2>4. Open(c, m) = J \cup E
    BY <2>1, <2>2, Zenon DEF Open
  <2>5. Open(b, l) = (J \cup {Last(b).jump}) \cup (E \cup X)
    BY <1>17, <1>18, <2>1, <2>2, <2>3, Zenon DEF Open
  <2>6. (J \cup {Last(b).jump}) \cup (E \cup X) = (J \cup E) \cup {Last(b).jump} \cup X
    BY Zenon
  <2> QED
    BY <2>3, <2>4, <2>5, <2>6, Zenon
<1>20. Len(m) <= MAX_LOOP_DEPTH
  BY <1>1, <1>13, TextSizesAssumption DEF Frames
<1>21. Frames(c, m)
  BY <1>2, <1>13, <1>16, <1>20 DEF Frames
<1> QED
  BY <1>2, <1>4, <1>8, <1>11, <1>12, <1>18, <1>19, <1>21 DEF c, m

(* A loop gets one more jump out of it.                                    *)
LEMMA LoopLeaves ==
    ASSUME NEW ctx \in Loop, NEW j \in Nat, NEW field \in {"break_jumps", "continue_jumps"}
    PROVE  /\ [ctx EXCEPT ![field] = Append(@, j)] \in Loop
           /\ [ctx EXCEPT ![field] = Append(@, j)].loop_start = ctx.loop_start
           /\ Exits([ctx EXCEPT ![field] = Append(@, j)]) = Exits(ctx) \cup {j}
<1> DEFINE new == [ctx EXCEPT ![field] = Append(@, j)]
<1>1. ctx.break_jumps \in Seq(Nat) /\ ctx.continue_jumps \in Seq(Nat) /\ ctx.loop_start \in Nat
  BY DEF Loop
<1>2. \A s \in Seq(Nat) : Append(s, j) \in Seq(Nat) /\ Range(Append(s, j)) = Range(s) \cup {j}
  <2>1. ASSUME NEW s \in Seq(Nat)
        PROVE  Range(Append(s, j)) \subseteq Range(s) \cup {j}
    <3>1. DOMAIN Append(s, j) = 1 .. Len(s) + 1 /\ DOMAIN s = 1 .. Len(s)
      OBVIOUS
    <3>2. \A k \in 1 .. Len(s) + 1 : k \in 1 .. Len(s) \/ k = Len(s) + 1
      OBVIOUS
    <3> QED
      BY <3>1, <3>2, AppendedIs DEF Range
  <2> QED
    BY <2>1, RangeGrows, AppendedIs
<1>3. CASE field = "break_jumps"
  <2>1. /\ new \in Loop /\ new.loop_start = ctx.loop_start
        /\ new.break_jumps = Append(ctx.break_jumps, j) /\ new.continue_jumps = ctx.continue_jumps
    BY <1>1, <1>2, <1>3 DEF Loop
  <2> HIDE DEF new
  <2>2. Exits(new) = Exits(ctx) \cup {j}
    BY <1>1, <1>2, <2>1, Zenon DEF Exits
  <2> QED
    BY <2>1, <2>2 DEF new
<1>4. CASE field = "continue_jumps"
  <2>1. /\ new \in Loop /\ new.loop_start = ctx.loop_start
        /\ new.continue_jumps = Append(ctx.continue_jumps, j) /\ new.break_jumps = ctx.break_jumps
    BY <1>1, <1>2, <1>4 DEF Loop
  <2> HIDE DEF new
  <2>2. Exits(new) = Exits(ctx) \cup {j}
    BY <1>1, <1>2, <2>1, Zenon DEF Exits
  <2> QED
    BY <2>1, <2>2 DEF new
<1> QED
  BY <1>3, <1>4

(* The innermost loop replaced by itself with one jump more.               *)
LEMMA FrameLeaves ==
    ASSUME NEW b, NEW l, Frames(b, l), l # <<>>, NEW j \in Nat, NEW new \in Loop,
           new.loop_start = Last(l).loop_start, Exits(new) = Exits(Last(l)) \cup {j}
    PROVE  /\ Frames(b, Append(Front(l), new))
           /\ Open(b, Append(Front(l), new)) = Open(b, l) \cup {j}
           /\ Starts(Append(Front(l), new)) = Starts(l)
<1> DEFINE ctx == l[Len(l)]
           m == Append(Front(l), new)
<1>1. b \in Seq(Block) /\ l \in Seq(Loop) /\ Len(l) \in Nat /\ Matched(b, l)
  BY DEF Frames
<1>2. /\ Front(l) \in Seq(Loop) /\ Len(l) \in Nat \ {0} /\ Len(Front(l)) = Len(l) - 1
      /\ \A k \in 1 .. Len(l) - 1 : Front(l)[k] = l[k]
      /\ Last(l) = ctx /\ ctx \in Loop
  BY <1>1, FrontIs
<1> HIDE DEF ctx
<1>3. new \in Loop /\ new.loop_start = ctx.loop_start /\ Exits(new) = Exits(ctx) \cup {j}
  BY <1>2
<1>4. /\ m \in Seq(Loop) /\ Len(m) = Len(Front(l)) + 1
      /\ \A k \in 1 .. Len(Front(l)) : m[k] = Front(l)[k]
      /\ m[Len(Front(l)) + 1] = new
  BY <1>2, <1>3, AppendedIs
<1> HIDE DEF m
<1>5. PICK q \in Nat : q = Len(Front(l))
  BY <1>2
<1>6. Len(l) = q + 1 /\ Len(m) = q + 1
  BY <1>2, <1>4, <1>5
<1>7. Matched(b, m)
  BY <1>1, <1>6, Zenon DEF Matched
<1>8. /\ ExitsOf(m)
           = ExitsOf(Front(l)) \cup Exits(new)
      /\ Starts(m) = Starts(Front(l)) \cup {new.loop_start}
  BY <1>4, <1>5, ExitsFrom
<1>9. /\ ExitsOf(l)
           = ExitsOf(Front(l)) \cup Exits(ctx)
      /\ Starts(l) = Starts(Front(l)) \cup {ctx.loop_start}
  <2>1. \A k \in 1 .. Len(Front(l)) : l[k] = Front(l)[k]
    BY <1>2
  <2>2. l[Len(Front(l)) + 1] = ctx
    BY <1>5, <1>6 DEF ctx
  <2> QED
    BY <1>5, <1>6, <2>1, <2>2, ExitsFrom
<1>10. Open(b, m) = Open(b, l) \cup {j} /\ Starts(m) = Starts(l)
  <2>1. ExitsOf(m) = ExitsOf(l) \cup {j}
    <3>1. PICK E : E = ExitsOf(Front(l))
      OBVIOUS
    <3>2. E \cup (Exits(ctx) \cup {j}) = (E \cup Exits(ctx)) \cup {j}
      BY Zenon
    <3> QED
      BY <1>3, <1>8, <1>9, <3>1, <3>2, Zenon
  <2>2. PICK J : J = JumpsOf(b)
    OBVIOUS
  <2>3. PICK E : E = ExitsOf(l)
    OBVIOUS
  <2>4. Open(b, l) = J \cup E /\ Open(b, m) = J \cup (E \cup {j})
    BY <2>1, <2>2, <2>3, Zenon DEF Open
  <2>5. J \cup (E \cup {j}) = (J \cup E) \cup {j}
    BY Zenon
  <2>6. Starts(m) = Starts(l)
    BY <1>3, <1>8, <1>9, Zenon
  <2> QED
    BY <2>4, <2>5, <2>6, Zenon
<1>11. Frames(b, m)
  BY <1>1, <1>4, <1>6, <1>7, Zenon DEF Frames
<1> QED
  BY <1>10, <1>11 DEF m

-----------------------------------------------------------------------------
(* The invariant                                                           *)

\* The calls in the text have no more arguments than they take.
Fit == \A i \in DOMAIN text : CallsFit(text[i].expr)

\* The code so far is sound but for the jumps of the blocks and the loops open.
CompilerInvariant ==
    /\ phase \in {"compile", "overrun", "run", "halted", "error", "trap"}
    /\ src \in Nat \ {0}
    /\ text \in Programs
    /\ Frames(blocks, loop_stack)
    /\ Sound(code, Open(blocks, loop_stack), Starts(loop_stack), 0,
             Len(variable_names), Len(string_pool), Fit)
    /\ Tables(variable_names, string_pool)

\* Values whose integers the machine can hold.
Values(V) == {v \in V : v.type = "int" => v.int_value \in Ints}
\* The stack keeps to its size.
StackFits(s) == (\E V : s \in Seq(Values(V))) /\ Len(s) <= STACK_SIZE

\* The jumps of a finished program lead into it, and it ends with HALT.
Ends(c) ==
    /\ Len(c) >= 1 /\ c[Len(c)].op = "HALT"
    /\ \A k \in 1 .. Len(c) : c[k].op \in JumpOps => c[k].arg \in 1 .. Len(c)

\* Coming to instruction k, the stack s has no more than what the code allows there.
Levelled(c, s, k) == \E d : Levels(c, {}, {}, 0, d) /\ Len(s) <= d[k]

\* The machine runs a finished program, and is inside it.
MachineInvariant ==
    /\ vars \in [1 .. MAX_VARS -> Ints]
    /\ StackFits(stack)
    /\ Started => /\ blocks = <<>> /\ loop_stack = <<>>
                  /\ Ends(code)
                  /\ ip \in 1 .. Len(code)
                  /\ Fit => Levelled(code, stack, ip)

\* The invariant.
Inv == CompilerInvariant /\ MachineInvariant

-----------------------------------------------------------------------------
(* The compiler keeps the invariant                                        *)

(* A step of the compiler does nothing to the machine.                     *)
LEMMA CompilingKeeps ==
    ASSUME MachineInvariant, UNCHANGED machine, phase' \in {"compile", "overrun"}
    PROVE  MachineInvariant'
BY DEF MachineInvariant, StackFits, Started, machine

(* The item at hand is one of the text, with an expression as ProgramsAssumption says. *)
LEMMA TextIs ==
    ASSUME text \in Programs, src \in Nat \ {0}, ~AtEnd
    PROVE  src \in DOMAIN text /\ Expression(text[src].expr) /\ (Fit => CallsFit(text[src].expr))
<1>1. text \in Seq(Range(text))
  BY ProgramsAssumption, Zenon
<1>2. src \in DOMAIN text
  <2>1. Len(text) \in Nat /\ DOMAIN text = 1 .. Len(text)
    BY <1>1
  <2> QED
    BY <2>1 DEF AtEnd
<1> DEFINE e == text[src].expr
<1>3. /\ e \in Seq(Range(e))
      /\ \A k \in DOMAIN e : e[k][1] = "num" => e[k][2] \in Ints
  BY <1>2, ProgramsAssumption, Zenon
<1>4. Fit => CallsFit(e)
  BY <1>2, Zenon DEF Fit
<1> HIDE DEF e
<1>5. Len(e) \in Nat /\ DOMAIN e = 1 .. Len(e)
  BY <1>3
<1>6. Expression(e)
  BY <1>3, <1>5, Zenon DEF Expression
<1> QED
  BY <1>2, <1>4, <1>6 DEF e

(* The code of the condition at hand leaves one value.                     *)
LEMMA ConditionIs ==
    ASSUME text \in Programs, src \in Nat \ {0}, ~AtEnd
    PROVE  Piece(compile_expr(text[src].expr), 1, ValuesOf(text[src].expr), Fit)
BY TextIs, ExpressionIs, Zenon

(* A piece of code whose arguments are also in B.                          *)
LEMMA PieceGrows ==
    ASSUME NEW w, NEW n, NEW A, NEW B, NEW fit, Piece(w, n, A, fit), A \subseteq B
    PROVE  Piece(w, n, B, fit)
<1>1. \A i \in Plain(A) : i \in Plain(B)
  BY DEF Plain
<1>2. w \in Seq(Plain(A))
  BY DEF Piece
<1>3. \A k \in 1 .. Len(w) : w[k] \in Plain(A)
  BY <1>2
<1>4. \A k \in 1 .. Len(w) : w[k] \in Plain(B)
  BY <1>1, <1>3, Zenon
<1>5. w \in Seq(Plain(B))
  BY <1>2, <1>4, SequenceOf, Zenon
<1> QED
  BY <1>5, Zenon DEF Piece

(* An expression and the instruction that takes its value leave nothing.   *)
LEMMA ExpressionThen ==
    ASSUME text \in Programs, src \in Nat \ {0}, ~AtEnd, NEW op \in {"STORE_VAR", "PRINT"}, NEW arg
    PROVE  \E A : Piece(compile_expr(text[src].expr) \o <<Instr(op, arg)>>, 0, A, Fit)
<1> DEFINE w == compile_expr(text[src].expr)
           A == ValuesOf(text[src].expr) \cup {arg}
           i == Instr(op, arg)
<1>1. Piece(w, 1, ValuesOf(text[src].expr), Fit)
  BY ConditionIs
<1> HIDE DEF w
<1>2. Piece(w, 1, A, Fit)
  BY <1>1, PieceGrows
<1>3. arg \in A
  OBVIOUS
<1> HIDE DEF A
<1>4. i \in Plain(A) /\ Effect(i) = -1
  BY <1>3 DEF i, Instr, Plain, LineOps, Effect
<1> HIDE DEF i
<1>5. PICK n \in Int : n = -1
  OBVIOUS
<1>6. Fit => Effect(i) <= n
  BY <1>4, <1>5
<1>7. Piece(<<i>>, n, A, Fit)
  BY <1>4, <1>5, <1>6, PieceOne, Zenon
<1>8. 1 \in Int /\ 1 + n = 0
  BY <1>5
<1>9. Piece(w \o <<i>>, 1 + n, A, Fit)
  BY <1>2, <1>5, <1>7, <1>8, PieceJoins, Zenon
<1> QED
  BY <1>8, <1>9 DEF w, i

(* The code of a statement leaves nothing on the stack.                    *)
LEMMA StatementIs ==
    ASSUME text \in Programs, src \in Nat \ {0}, AtItem({"assign", "print", "read", "junk", "else"})
    PROVE  \E A : Piece(StatementCode(text[src]), 0, A, Fit)
<1>1. ~AtEnd
  BY DEF AtItem
<1>2. text[src].kind \in {"assign", "print", "read", "junk", "else"}
  BY DEF AtItem
<1>3. CASE text[src].kind = "assign"
  <2>1. StatementCode(text[src]) = compile_expr(text[src].expr) \o <<Instr("STORE_VAR", text[src].name)>>
    BY <1>3 DEF StatementCode
  <2>2. \E A : Piece(compile_expr(text[src].expr) \o <<Instr("STORE_VAR", text[src].name)>>, 0, A, Fit)
    BY <1>1, ExpressionThen
  <2> QED
    BY <2>1, <2>2
<1>4. CASE text[src].kind = "print"
  <2>1. StatementCode(text[src]) = compile_expr(text[src].expr) \o <<Instr("PRINT", 0)>>
    BY <1>4 DEF StatementCode
  <2>2. \E A : Piece(compile_expr(text[src].expr) \o <<Instr("PRINT", 0)>>, 0, A, Fit)
    BY <1>1, ExpressionThen
  <2> QED
    BY <2>1, <2>2
<1>5. CASE text[src].kind = "read"
  <2> DEFINE i == Instr("READ_INT", text[src].name)
             A == {text[src].name}
  <2>1. StatementCode(text[src]) = <<i>>
    BY <1>5 DEF StatementCode
  <2>2. i \in Plain(A) /\ Effect(i) = 0
    BY DEF Instr, Plain, LineOps, Effect
  <2> HIDE DEF i, A
  <2>3. 0 \in Int /\ (Fit => Effect(i) <= 0)
    BY <2>2
  <2>4. Piece(<<i>>, 0, A, Fit)
    BY <2>2, <2>3, PieceOne, Zenon
  <2> QED
    BY <2>1, <2>4
<1>6. CASE text[src].kind \in {"junk", "else"}
  <2>1. StatementCode(text[src]) = <<>>
    BY <1>6 DEF StatementCode
  <2> QED
    BY <2>1, PieceEmpty
<1> QED
  BY <1>2, <1>3, <1>4, <1>5, <1>6

(* CompileLine: the line's code joins the code so far.                     *)
LEMMA CompileLineKeeps ==
    ASSUME CompilerInvariant, MachineInvariant, CompileLine
    PROVE  CompilerInvariant' /\ MachineInvariant'
<1>1. AtItem({"assign", "print", "read", "junk", "else"})
  BY DEF CompileLine
<1>2. text \in Programs /\ src \in Nat \ {0} /\ src \in Nat
  BY DEF CompilerInvariant
<1> DEFINE instrs == StatementCode(text[src])
<1>3. PICK A : Piece(instrs, 0, A, Fit)
  BY <1>1, <1>2, StatementIs
<1>4. EnterNames(instrs) /\ code' = CodeAfter(instrs)
  BY Zenon DEF CompileLine
<1>5. UNCHANGED <<text, shape, phase, blocks, loop_stack, machine>> /\ src' = src + 1
  BY DEF CompileLine
<1> HIDE DEF instrs
<1>6. /\ Sound(CodeAfter(instrs), Open(blocks, loop_stack), Starts(loop_stack), 0,
               Len(NamesAfter(instrs)), Len(StringsAfter(instrs)), Fit)
      /\ Tables(NamesAfter(instrs), StringsAfter(instrs))
  <2>1. /\ Sound(code, Open(blocks, loop_stack), Starts(loop_stack), 0,
                 Len(variable_names), Len(string_pool), Fit)
        /\ Tables(variable_names, string_pool)
    BY DEF CompilerInvariant
  <2> QED
    BY <1>2, <1>3, <2>1, SoundLine
<1>7. Fit' = Fit
  BY <1>5 DEF Fit
<1>8. CompilerInvariant'
  <2>1. src' \in Nat \ {0}
    BY <1>2, <1>5
  <2> QED
    BY <1>2, <1>4, <1>5, <1>6, <1>7, <2>1 DEF CompilerInvariant, EnterNames
<1>9. MachineInvariant'
  <2>1. phase' = "compile"
    BY <1>1, <1>5 DEF AtItem, Compiling
  <2> QED
    BY <1>5, <2>1, CompilingKeeps
<1> QED
  BY <1>8, <1>9

(* Completing jumps changes neither the length of the code nor what it does. *)
LEMMA PatchIs ==
    ASSUME NEW c, NEW open, NEW starts, NEW n, NEW nv, NEW ns, NEW fit,
           Sound(c, open, starts, n, nv, ns, fit), NEW places, NEW target
    PROVE  /\ Len(Patch(c, places, target)) = Len(c)
           /\ \A k \in 1 .. Len(c) : Patch(c, places, target)[k].op = c[k].op
<1>1. PICK A : c \in Seq(Instructions(A))
  BY DEF Sound
<1> DEFINE w == Patch(c, places, target)
<1>2. DOMAIN c = 1 .. Len(c) /\ DOMAIN w = 1 .. Len(c) /\ Len(c) \in Nat
  BY <1>1 DEF Patch
<1>3. Len(w) = Len(c)
  <2>1. w = [k \in 1 .. Len(c) |-> w[k]]
    BY <1>2 DEF Patch
  <2> HIDE DEF w
  <2> QED
    BY <1>2, <2>1
<1>4. ASSUME NEW k \in 1 .. Len(c)
      PROVE  w[k].op = c[k].op
  <2>1. w[k] = IF k \in places THEN [c[k] EXCEPT !.arg = target] ELSE c[k]
    BY <1>2 DEF Patch
  <2>2. c[k] \in Instructions(A)
    BY <1>1
  <2> HIDE DEF w
  <2> QED
    BY <2>1, <2>2 DEF Instructions
<1> QED
  BY <1>3, <1>4 DEF w

(* Jumps completed that need not be open any more.                         *)
LEMMA SoundCompleted ==
    ASSUME NEW c, NEW open, NEW starts, NEW nv, NEW ns, NEW fit,
           Sound(c, open, starts, 0, nv, ns, fit),
           NEW places, NEW target \in starts \cup {Len(c) + 1}, places \subseteq open,
           NEW left, left \subseteq open, open \ places \subseteq left,
           NEW fewer, fewer \subseteq starts
    PROVE  Sound(Patch(c, places, target), left, fewer, 0, nv, ns, fit)
<1>1. \A k \in open : k \in 1 .. Len(c) /\ c[k].op \in JumpOps
  BY Zenon DEF Sound
<1>2. \A k \in places : k \in 1 .. Len(c) => c[k].op \in JumpOps
  BY <1>1, Zenon
<1> DEFINE w == Patch(c, places, target)
<1>3. Sound(w, open \ places, starts, 0, nv, ns, fit)
  BY <1>2, SoundPatched
<1>6. Len(w) = Len(c) /\ \A k \in 1 .. Len(c) : w[k].op = c[k].op
  BY PatchIs
<1> HIDE DEF w
<1>4. \A k \in left : k \in 1 .. Len(w) /\ w[k].op \in JumpOps
  <2>1. \A k \in left : k \in 1 .. Len(c) /\ c[k].op \in JumpOps
    BY <1>1, Zenon
  <2> QED
    BY <1>6, <2>1
<1>5. Sound(w, left, fewer, 0, nv, ns, fit)
  BY <1>3, <1>4, SoundWeakens, Zenon
<1> QED
  BY <1>5 DEF w

(* The jumps that naw_compile emits, one after the other: one to be completed later. *)
LEMMA SoundLeaves ==
    ASSUME NEW c, NEW open, NEW starts, NEW fit, NEW nv \in Nat, NEW ns \in Nat,
           Sound(c, open, starts, 0, nv, ns, fit), NEW arg, NEW i \in Nat
    PROVE  Sound(Append(c, Tagged("JMP", arg, i)), open \cup {Len(c) + 1}, starts, 0, nv, ns, fit)
<1>1. PICK m \in Int : m = 0
  OBVIOUS
<1>2. PICK op : op = "JMP"
  OBVIOUS
<1>3. PICK more : more = {Len(c) + 1}
  OBVIOUS
<1>4. op \in JumpOps \cup {"HALT"}
  BY <1>2 DEF JumpOps
<1>5. \/ (op = "HALT" /\ more = {})
      \/ (op \in JumpOps /\ more = {Len(c) + 1})
      \/ (op \in JumpOps /\ more = {} /\ arg \in starts)
  BY <1>2, <1>3 DEF JumpOps
<1>6. fit => Takes(c, m, op, i)
  BY <1>1, <1>2 DEF Takes
<1>7. Sound(c, open, starts, m, nv, ns, fit)
  BY <1>1
<1>8. Sound(Append(c, Tagged(op, arg, i)), open \cup more, starts, 0, nv, ns, fit)
  BY <1>1, <1>4, <1>5, <1>6, <1>7, SoundAppended
<1> QED
  BY <1>2, <1>3, <1>8

(* The jump back to the start of a loop.                                   *)
LEMMA SoundReturns ==
    ASSUME NEW c, NEW open, NEW starts, NEW fit, NEW nv \in Nat, NEW ns \in Nat,
           Sound(c, open, starts, 0, nv, ns, fit), NEW arg \in starts, NEW i \in Nat
    PROVE  Sound(Append(c, Tagged("JMP", arg, i)), open \cup {}, starts, 0, nv, ns, fit)
<1>1. PICK m \in Int : m = 0
  OBVIOUS
<1>2. PICK op : op = "JMP"
  OBVIOUS
<1>3. PICK more : more = {}
  OBVIOUS
<1>4. op \in JumpOps \cup {"HALT"}
  BY <1>2 DEF JumpOps
<1>5. \/ (op = "HALT" /\ more = {})
      \/ (op \in JumpOps /\ more = {Len(c) + 1})
      \/ (op \in JumpOps /\ more = {} /\ arg \in starts)
  BY <1>2, <1>3 DEF JumpOps
<1>6. fit => Takes(c, m, op, i)
  BY <1>1, <1>2 DEF Takes
<1>7. Sound(c, open, starts, m, nv, ns, fit)
  BY <1>1
<1>8. Sound(Append(c, Tagged(op, arg, i)), open \cup more, starts, 0, nv, ns, fit)
  BY <1>1, <1>4, <1>5, <1>6, <1>7, SoundAppended
<1> QED
  BY <1>2, <1>3, <1>8

(* The jump on a condition that ends a header.                             *)
LEMMA SoundDecides ==
    ASSUME NEW c, NEW open, NEW starts, NEW fit, NEW nv \in Nat, NEW ns \in Nat,
           Sound(c, open, starts, 1, nv, ns, fit), NEW arg, NEW i \in Nat,
           fit => Len(c) >= 1 /\ c[Len(c)].item = i
    PROVE  Sound(Append(c, Tagged("JMP_IF_FALSE", arg, i)), open \cup {Len(c) + 1}, starts, 0, nv, ns, fit)
<1>1. PICK m \in Int : m = 1
  OBVIOUS
<1>2. PICK op : op = "JMP_IF_FALSE"
  OBVIOUS
<1>3. PICK more : more = {Len(c) + 1}
  OBVIOUS
<1>4. op \in JumpOps \cup {"HALT"}
  BY <1>2 DEF JumpOps
<1>5. \/ (op = "HALT" /\ more = {})
      \/ (op \in JumpOps /\ more = {Len(c) + 1})
      \/ (op \in JumpOps /\ more = {} /\ arg \in starts)
  BY <1>2, <1>3 DEF JumpOps
<1>6. fit => Takes(c, m, op, i)
  BY <1>1, <1>2 DEF Takes
<1>7. Sound(c, open, starts, m, nv, ns, fit)
  BY <1>1
<1>8. Sound(Append(c, Tagged(op, arg, i)), open \cup more, starts, 0, nv, ns, fit)
  BY <1>1, <1>4, <1>5, <1>6, <1>7, SoundAppended
<1> QED
  BY <1>2, <1>3, <1>8

(* The end of the program.                                                 *)
LEMMA SoundEnds ==
    ASSUME NEW c, NEW open, NEW starts, NEW fit, NEW nv \in Nat, NEW ns \in Nat,
           Sound(c, open, starts, 0, nv, ns, fit), NEW arg, NEW i \in Nat
    PROVE  Sound(Append(c, Tagged("HALT", arg, i)), open \cup {}, starts, 0, nv, ns, fit)
<1>1. PICK m \in Int : m = 0
  OBVIOUS
<1>2. PICK op : op = "HALT"
  OBVIOUS
<1>3. PICK more : more = {}
  OBVIOUS
<1>4. op \in JumpOps \cup {"HALT"}
  BY <1>2 DEF JumpOps
<1>5. \/ (op = "HALT" /\ more = {})
      \/ (op \in JumpOps /\ more = {Len(c) + 1})
      \/ (op \in JumpOps /\ more = {} /\ arg \in starts)
  BY <1>2, <1>3 DEF JumpOps
<1>6. fit => Takes(c, m, op, i)
  BY <1>1, <1>2 DEF Takes
<1>7. Sound(c, open, starts, m, nv, ns, fit)
  BY <1>1
<1>8. Sound(Append(c, Tagged(op, arg, i)), open \cup more, starts, 0, nv, ns, fit)
  BY <1>1, <1>4, <1>5, <1>6, <1>7, SoundAppended
<1> QED
  BY <1>2, <1>3, <1>8

(* One instruction emitted after the code so far.                          *)
LEMMA LongerIs ==
    ASSUME NEW c, NEW open, NEW starts, NEW n, NEW nv, NEW ns, NEW fit,
           Sound(c, open, starts, n, nv, ns, fit), NEW e
    PROVE  /\ Len(c) \in Nat /\ Len(Append(c, e)) = Len(c) + 1
           /\ \A k \in 1 .. Len(c) : Append(c, e)[k] = c[k]
           /\ Append(c, e)[Len(c) + 1] = e
<1>1. PICK A : c \in Seq(Instructions(A))
  BY DEF Sound
<1>2. PICK S : S = Instructions(A) \cup {e}
  OBVIOUS
<1>3. c \in Seq(S) /\ e \in S
  BY <1>1, <1>2
<1> QED
  BY <1>3, AppendedIs

(* What the invariant says of the compiler, taken apart.                   *)
LEMMA CompilerIs ==
    ASSUME CompilerInvariant
    PROVE  /\ src \in Nat \ {0} /\ src \in Nat /\ text \in Programs
           /\ Frames(blocks, loop_stack)
           /\ Sound(code, Open(blocks, loop_stack), Starts(loop_stack), 0,
                    Len(variable_names), Len(string_pool), Fit)
           /\ Tables(variable_names, string_pool)
           /\ Len(code) \in Nat /\ Len(variable_names) \in Nat /\ Len(string_pool) \in Nat
<1>1. Len(code) \in Nat
  <2>1. \E A : code \in Seq(Instructions(A))
    BY DEF CompilerInvariant, Sound
  <2> QED
    BY <2>1
<1>2. Len(variable_names) \in Nat /\ Len(string_pool) \in Nat
  BY DEF CompilerInvariant, Tables
<1> QED
  BY <1>1, <1>2 DEF CompilerInvariant

(* CompileBreak and CompileContinue: the innermost loop gets a jump more.  *)
LEMMA CompileLeaveKeeps ==
    ASSUME CompilerInvariant, MachineInvariant, NEW kind,
           NEW field \in {"break_jumps", "continue_jumps"}, CompileLeave(kind, field)
    PROVE  CompilerInvariant' /\ MachineInvariant'
<1>1. AtItem({kind}) /\ src' = src + 1
      /\ UNCHANGED <<text, shape, blocks, variable_names, string_pool, machine>>
  BY DEF CompileLeave
<1>2. phase = "compile"
  BY <1>1 DEF AtItem, Compiling
<1>3. Fit' = Fit
  BY <1>1 DEF Fit
<1>4. src' \in Nat \ {0}
  BY <1>1 DEF CompilerInvariant
<1>5. CASE loop_stack = <<>>
  <2>1. UNCHANGED <<code, loop_stack, phase>>
    BY <1>5 DEF CompileLeave
  <2>2. CompilerInvariant'
    BY <1>1, <1>3, <1>4, <2>1 DEF CompilerInvariant
  <2> QED
    BY <1>1, <1>2, <2>1, <2>2, CompilingKeeps
<1>6. CASE loop_stack # <<>>
  <2> DEFINE ctx == Last(loop_stack)
             arg == IF kind = "break" THEN 0 ELSE ctx.loop_start
             j == Len(code) + 1
  <2>1. /\ code' = Append(code, Tagged("JMP", arg, src))
        /\ loop_stack' = Append(Front(loop_stack), [ctx EXCEPT ![field] = Append(@, j)])
        /\ phase' \in {"compile", "overrun"}
    BY <1>2, <1>6 DEF CompileLeave
  <2> HIDE DEF arg
  <2>2. Frames(blocks, loop_stack) /\ j \in Nat
    BY CompilerIs
  <2> HIDE DEF j
  <2>3. /\ Frames(blocks, loop_stack')
        /\ Open(blocks, loop_stack') = Open(blocks, loop_stack) \cup {j}
        /\ Starts(loop_stack') = Starts(loop_stack)
    <3>1. ctx \in Loop
      BY <1>6, <2>2, FrontIs DEF Frames
    <3>2. PICK new \in Loop : /\ new = [ctx EXCEPT ![field] = Append(@, j)]
                              /\ new.loop_start = ctx.loop_start
                              /\ Exits(new) = Exits(ctx) \cup {j}
      BY <2>2, <3>1, LoopLeaves
    <3>3. PICK m : m = Append(Front(loop_stack), new)
      OBVIOUS
    <3>4. loop_stack' = m
      BY <2>1, <3>2, <3>3, Zenon
    <3>6. new.loop_start = Last(loop_stack).loop_start /\ Exits(new) = Exits(Last(loop_stack)) \cup {j}
      BY <3>2
    <3>7. /\ Frames(blocks, Append(Front(loop_stack), new))
          /\ Open(blocks, Append(Front(loop_stack), new)) = Open(blocks, loop_stack) \cup {j}
          /\ Starts(Append(Front(loop_stack), new)) = Starts(loop_stack)
      BY <1>6, <2>2, <3>6, FrameLeaves, Zenon
    <3>5. /\ Frames(blocks, m)
          /\ Open(blocks, m) = Open(blocks, loop_stack) \cup {j}
          /\ Starts(m) = Starts(loop_stack)
      BY <3>3, <3>7, Zenon
    <3> QED
      BY <3>4, <3>5, Zenon
  <2>4. Sound(code', Open(blocks, loop_stack) \cup {j}, Starts(loop_stack), 0,
              Len(variable_names), Len(string_pool), Fit)
    <3>1. Sound(Append(code, Tagged("JMP", arg, src)), Open(blocks, loop_stack) \cup {Len(code) + 1},
                Starts(loop_stack), 0, Len(variable_names), Len(string_pool), Fit)
      BY CompilerIs, SoundLeaves, Zenon
    <3> QED
      BY <2>1, <3>1, Zenon DEF j
  <2>5. CompilerInvariant'
    BY <1>1, <1>3, <1>4, <2>1, <2>3, <2>4 DEF CompilerInvariant
  <2> QED
    BY <1>1, <2>1, <2>5, CompilingKeeps
<1> QED
  BY <1>5, <1>6

(* The end of the block of an `if`, wherever it is reached from.           *)
LEMMA AfterThenKeeps ==
    ASSUME NEW c, NEW jump, NEW i \in Nat \ {0}, NEW outer, NEW loops,
           NEW nv \in Nat, NEW ns \in Nat, NEW fit, Frames(outer, loops),
           Sound(c, Open(outer, loops) \cup {jump}, Starts(loops), 0, nv, ns, fit),
           AfterThen(c, jump, i, outer)
    PROVE  /\ Frames(blocks', loops)
           /\ Sound(code', Open(blocks', loops), Starts(loops), 0, nv, ns, fit)
           /\ src' \in Nat \ {0}
<1> DEFINE O == Open(outer, loops)
           S == Starts(loops)
           joined == i <= Len(text) /\ text[i].kind = "else"
           jmp_end == Len(c) + 1
           t == Append(c, Tagged("JMP", 0, i))
           skipping == Patch(t, {jump}, jmp_end + 1)
<1>1. Sound(c, O \cup {jump}, S, 0, nv, ns, fit)
  OBVIOUS
<1>2. Len(c) \in Nat
  <2>1. \E A : c \in Seq(Instructions(A))
    BY <1>1 DEF Sound
  <2> QED
    BY <2>1
<1>3. /\ joined /\ text[i].block =>
            /\ code' = skipping
            /\ blocks' = Append(outer, [kind |-> "else", jump |-> jmp_end, loop |-> 0])
            /\ src' = i + 1
      /\ joined /\ ~text[i].block =>
            code' = Patch(skipping, {jmp_end}, jmp_end + 1) /\ blocks' = outer /\ src' = i + 1
      /\ ~joined => code' = Patch(c, {jump}, jmp_end) /\ blocks' = outer /\ src' = i
  BY DEF AfterThen
<1>4. src' \in Nat \ {0}
  BY <1>3
<1> HIDE DEF O, S, joined
<1>5. Sound(skipping, O \cup {jmp_end}, S, 0, nv, ns, fit) /\ Len(skipping) = Len(c) + 1
  <2>1. Sound(t, (O \cup {jump}) \cup {jmp_end}, S, 0, nv, ns, fit) /\ Len(t) = Len(c) + 1
    <3>1. i \in Nat
      OBVIOUS
    <3>2. Sound(t, (O \cup {jump}) \cup {jmp_end}, S, 0, nv, ns, fit)
      BY <1>1, <3>1, SoundLeaves
    <3>3. Len(t) = Len(c) + 1
      BY <1>1, LongerIs
    <3> QED
      BY <3>2, <3>3
  <2> HIDE DEF t, jmp_end
  <2>2. jmp_end + 1 \in S \cup {Len(t) + 1}
    BY <2>1 DEF jmp_end
  <2>3. /\ {jump} \subseteq (O \cup {jump}) \cup {jmp_end}
        /\ O \cup {jmp_end} \subseteq (O \cup {jump}) \cup {jmp_end}
        /\ ((O \cup {jump}) \cup {jmp_end}) \ {jump} \subseteq O \cup {jmp_end}
        /\ S \subseteq S
    BY Zenon
  <2> QED
    <3>1. Sound(Patch(t, {jump}, jmp_end + 1), O \cup {jmp_end}, S, 0, nv, ns, fit)
      BY <2>1, <2>2, <2>3, SoundCompleted
    <3>2. Len(Patch(t, {jump}, jmp_end + 1)) = Len(t)
      BY <2>1, PatchIs
    <3> QED
      BY <2>1, <3>1, <3>2
<1> HIDE DEF skipping, t
<1>6. CASE joined /\ text[i].block
  <2>1. Frames(blocks', loops) /\ Open(blocks', loops) = O \cup {jmp_end}
    <3>1. jmp_end \in Nat /\ "else" \in {"if", "else"}
      BY <1>2
    <3> HIDE DEF jmp_end
    <3>2. /\ Frames(Append(outer, [kind |-> "else", jump |-> jmp_end, loop |-> 0]), loops)
          /\ Open(Append(outer, [kind |-> "else", jump |-> jmp_end, loop |-> 0]), loops) = O \cup {jmp_end}
      BY <3>1, FrameOpens DEF O
    <3> QED
      BY <1>3, <1>6, <3>2, Zenon
  <2> QED
    BY <1>3, <1>4, <1>5, <1>6, <2>1 DEF S
<1>7. CASE joined /\ ~text[i].block
  <2>1. jmp_end + 1 \in S \cup {Len(skipping) + 1}
    BY <1>5
  <2> HIDE DEF jmp_end
  <2>2. /\ {jmp_end} \subseteq O \cup {jmp_end} /\ O \subseteq O \cup {jmp_end}
        /\ (O \cup {jmp_end}) \ {jmp_end} \subseteq O
        /\ S \subseteq S
    BY Zenon
  <2>3. Sound(Patch(skipping, {jmp_end}, jmp_end + 1), O, S, 0, nv, ns, fit)
    BY <1>5, <2>1, <2>2, SoundCompleted, Zenon
  <2> QED
    BY <1>3, <1>4, <1>7, <2>3 DEF O, S
<1>8. CASE ~joined
  <2>1. jmp_end \in S \cup {Len(c) + 1}
    OBVIOUS
  <2> HIDE DEF jmp_end
  <2>2. /\ {jump} \subseteq O \cup {jump} /\ O \subseteq O \cup {jump}
        /\ (O \cup {jump}) \ {jump} \subseteq O
        /\ S \subseteq S
    BY Zenon
  <2>3. Sound(Patch(c, {jump}, jmp_end), O, S, 0, nv, ns, fit)
    BY <1>1, <2>1, <2>2, SoundCompleted, Zenon
  <2> QED
    BY <1>3, <1>4, <1>8, <2>3 DEF O, S
<1> QED
  BY <1>6, <1>7, <1>8

(* The header of an `if` or of a `while`: its condition and JMP_IF_FALSE.  *)
LEMMA ConditionKeeps ==
    ASSUME CompilerInvariant, ~AtEnd, NEW starts,
           Sound(code, Open(blocks, loop_stack), starts, 0,
                 Len(variable_names), Len(string_pool), Fit),
           NEW instrs, instrs = compile_expr(text[src].expr),
           NEW c, c = Append(CodeAfter(instrs), Tagged("JMP_IF_FALSE", 0, src)),
           NEW jump, jump = Len(code) + Len(instrs) + 1
    PROVE  /\ Sound(c, Open(blocks, loop_stack) \cup {jump}, starts, 0,
                    Len(NamesAfter(instrs)), Len(StringsAfter(instrs)), Fit)
           /\ Tables(NamesAfter(instrs), StringsAfter(instrs))
           /\ Len(NamesAfter(instrs)) \in Nat /\ Len(StringsAfter(instrs)) \in Nat
           /\ Len(c) = jump /\ jump \in Nat
<1> DEFINE O == Open(blocks, loop_stack)
           A == ValuesOf(text[src].expr)
           w == CodeAfter(instrs)
           nv == Len(NamesAfter(instrs))
           ns == Len(StringsAfter(instrs))
<1>1. PICK n \in Int : n = 1
  OBVIOUS
<1>2. Piece(instrs, n, A, Fit)
  BY <1>1, CompilerIs, ConditionIs
<1> HIDE DEF A
<1>3. /\ Sound(w, O, starts, n, nv, ns, Fit)
      /\ Tables(NamesAfter(instrs), StringsAfter(instrs))
      /\ Len(w) = Len(code) + Len(instrs) /\ Len(instrs) \in Nat
      /\ Fit /\ n # 0 => Len(w) >= 1 /\ w[Len(w)].item = src
  BY <1>2, CompilerIs, SoundLine
<1>4. nv \in Nat /\ ns \in Nat
  BY <1>3 DEF Tables
<1> HIDE DEF O, w, nv, ns
<1>5. Sound(w, O, starts, 1, nv, ns, Fit) /\ (Fit => Len(w) >= 1 /\ w[Len(w)].item = src)
  BY <1>1, <1>3
<1>6. src \in Nat
  BY CompilerIs
<1>7. Sound(Append(w, Tagged("JMP_IF_FALSE", 0, src)), O \cup {Len(w) + 1}, starts, 0, nv, ns, Fit)
  BY <1>4, <1>5, <1>6, SoundDecides
<1>8. Len(Append(w, Tagged("JMP_IF_FALSE", 0, src))) = Len(w) + 1
  BY <1>5, LongerIs
<1>9. jump = Len(w) + 1 /\ jump \in Nat
  BY <1>3, CompilerIs
<1> QED
  BY <1>3, <1>4, <1>7, <1>8, <1>9 DEF O, w, nv, ns

(* compile_if                                                              *)
LEMMA CompileIfKeeps ==
    ASSUME CompilerInvariant, MachineInvariant, compile_if
    PROVE  CompilerInvariant' /\ MachineInvariant'
<1>1. AtItem({"if"}) /\ UNCHANGED <<text, shape, phase, loop_stack, machine>>
  BY DEF compile_if
<1>2. ~AtEnd /\ phase = "compile"
  BY <1>1 DEF AtItem, Compiling
<1>3. PICK instrs : instrs = compile_expr(text[src].expr)
  OBVIOUS
<1>4. PICK c : c = Append(CodeAfter(instrs), Tagged("JMP_IF_FALSE", 0, src))
  OBVIOUS
<1>5. PICK jump : jump = Len(code) + Len(instrs) + 1
  OBVIOUS
<1>6. /\ EnterNames(instrs)
      /\ text[src].block =>
            /\ code' = c
            /\ blocks' = Append(blocks, [kind |-> "if", jump |-> jump, loop |-> 0])
            /\ src' = src + 1
      /\ ~text[src].block => AfterThen(c, jump, src + 1, blocks)
  BY <1>3, <1>4, <1>5, Zenon DEF compile_if
<1> DEFINE O == Open(blocks, loop_stack)
           S == Starts(loop_stack)
           nv == Len(NamesAfter(instrs))
           ns == Len(StringsAfter(instrs))
<1>7. /\ src \in Nat \ {0} /\ Frames(blocks, loop_stack)
      /\ Sound(code, O, S, 0, Len(variable_names), Len(string_pool), Fit)
  BY CompilerIs
<1>8. /\ Sound(c, O \cup {jump}, S, 0, nv, ns, Fit)
      /\ Tables(NamesAfter(instrs), StringsAfter(instrs))
      /\ nv \in Nat /\ ns \in Nat /\ jump \in Nat
  BY <1>2, <1>3, <1>4, <1>5, <1>7, ConditionKeeps, Zenon
<1>9. /\ Frames(blocks', loop_stack)
      /\ Sound(code', Open(blocks', loop_stack), S, 0, nv, ns, Fit)
      /\ src' \in Nat \ {0}
  <2>1. CASE text[src].block
    <3>1. /\ Frames(Append(blocks, [kind |-> "if", jump |-> jump, loop |-> 0]), loop_stack)
          /\ Open(Append(blocks, [kind |-> "if", jump |-> jump, loop |-> 0]), loop_stack) = O \cup {jump}
      BY <1>7, <1>8, FrameOpens
    <3>2. Frames(blocks', loop_stack) /\ Open(blocks', loop_stack) = O \cup {jump}
      BY <1>6, <2>1, <3>1, Zenon
    <3>3. Sound(code', Open(blocks', loop_stack), S, 0, nv, ns, Fit)
      BY <1>6, <1>8, <2>1, <3>2, Zenon
    <3> QED
      BY <1>6, <1>7, <2>1, <3>2, <3>3
  <2>2. CASE ~text[src].block
    <3>1. src + 1 \in Nat \ {0} /\ AfterThen(c, jump, src + 1, blocks)
      BY <1>6, <1>7, <2>2
    <3> QED
      BY <1>7, <1>8, <3>1, AfterThenKeeps, Zenon
  <2> QED
    BY <2>1, <2>2
<1>10. Fit' = Fit
  BY <1>1 DEF Fit
<1>11. CompilerInvariant'
  <2>1. variable_names' = NamesAfter(instrs) /\ string_pool' = StringsAfter(instrs)
    BY <1>6 DEF EnterNames
  <2> QED
    BY <1>1, <1>8, <1>9, <1>10, <2>1 DEF CompilerInvariant
<1> QED
  BY <1>1, <1>2, <1>11, CompilingKeeps

(* compile_while                                                           *)
LEMMA CompileWhileKeeps ==
    ASSUME CompilerInvariant, MachineInvariant, compile_while
    PROVE  CompilerInvariant' /\ MachineInvariant'
<1>1. /\ AtItem({"while"}) /\ Len(loop_stack) < MAX_LOOP_DEPTH
      /\ src' = src + 1 /\ UNCHANGED <<text, shape, phase, machine>>
  BY DEF compile_while
<1>2. ~AtEnd /\ phase = "compile"
  BY <1>1 DEF AtItem, Compiling
<1>3. PICK instrs : instrs = compile_expr(text[src].expr)
  OBVIOUS
<1>4. PICK c : c = Append(CodeAfter(instrs), Tagged("JMP_IF_FALSE", 0, src))
  OBVIOUS
<1>5. PICK jump : jump = Len(code) + Len(instrs) + 1
  OBVIOUS
<1>6. PICK start : start = Len(code) + 1
  OBVIOUS
<1>7. /\ EnterNames(instrs)
      /\ text[src].block =>
            /\ code' = c
            /\ blocks' = Append(blocks, [kind |-> "while", jump |-> jump, loop |-> Len(loop_stack) + 1])
            /\ loop_stack' = Append(loop_stack,
                   [loop_start |-> start, break_jumps |-> <<>>, continue_jumps |-> <<>>])
      /\ ~text[src].block =>
            /\ code' = Patch(Append(c, Tagged("JMP", start, src)), {jump}, jump + 2)
            /\ UNCHANGED <<blocks, loop_stack>>
  BY <1>3, <1>4, <1>5, <1>6, Zenon DEF compile_while
<1> DEFINE O == Open(blocks, loop_stack)
           S == Starts(loop_stack)
           nv == Len(NamesAfter(instrs))
           ns == Len(StringsAfter(instrs))
<1>8. /\ src \in Nat \ {0} /\ src \in Nat /\ Frames(blocks, loop_stack)
      /\ Sound(code, O, S, 0, Len(variable_names), Len(string_pool), Fit)
      /\ start \in Nat
  BY <1>6, CompilerIs
<1>9. Sound(code, O, S \cup {start}, 0, Len(variable_names), Len(string_pool), Fit)
  BY <1>6, <1>8, SoundStarts
<1>10. /\ Sound(c, O \cup {jump}, S \cup {start}, 0, nv, ns, Fit)
       /\ Tables(NamesAfter(instrs), StringsAfter(instrs))
       /\ nv \in Nat /\ ns \in Nat /\ Len(c) = jump /\ jump \in Nat
  BY <1>2, <1>3, <1>4, <1>5, <1>9, ConditionKeeps, Zenon
<1>11. /\ Frames(blocks', loop_stack')
       /\ Sound(code', Open(blocks', loop_stack'), Starts(loop_stack'), 0, nv, ns, Fit)
  <2>1. CASE text[src].block
    <3>1. PICK b : b = Append(blocks, [kind |-> "while", jump |-> jump, loop |-> Len(loop_stack) + 1])
      OBVIOUS
    <3>2. PICK l : l = Append(loop_stack,
                   [loop_start |-> start, break_jumps |-> <<>>, continue_jumps |-> <<>>])
      OBVIOUS
    <3>3. Frames(b, l) /\ Open(b, l) = O \cup {jump} /\ Starts(l) = S \cup {start}
      BY <1>1, <1>8, <1>10, <3>1, <3>2, FrameLoops
    <3>4. blocks' = b /\ loop_stack' = l /\ code' = c
      BY <1>7, <2>1, <3>1, <3>2, Zenon
    <3> QED
      BY <1>10, <3>3, <3>4, Zenon
  <2>2. CASE ~text[src].block
    <3> DEFINE t == Append(c, Tagged("JMP", start, src))
    <3>1. start \in S \cup {start}
      OBVIOUS
    <3>2. Sound(t, (O \cup {jump}) \cup {}, S \cup {start}, 0, nv, ns, Fit)
      BY <1>8, <1>10, <3>1, SoundReturns
    <3>3. Len(t) = jump + 1
      BY <1>10, LongerIs
    <3> HIDE DEF t
    <3>4. jump + 2 \in (S \cup {start}) \cup {Len(t) + 1}
      BY <1>10, <3>3
    <3> HIDE DEF O, S, nv, ns
    <3>5. /\ {jump} \subseteq (O \cup {jump}) \cup {} /\ O \subseteq (O \cup {jump}) \cup {}
          /\ ((O \cup {jump}) \cup {}) \ {jump} \subseteq O
          /\ S \subseteq S \cup {start}
      BY Zenon
    <3>6. Sound(Patch(t, {jump}, jump + 2), O, S, 0, nv, ns, Fit)
      BY <3>2, <3>4, <3>5, SoundCompleted, Zenon
    <3>7. code' = Patch(t, {jump}, jump + 2) /\ blocks' = blocks /\ loop_stack' = loop_stack
      BY <1>7, <2>2 DEF t
    <3> QED
      BY <1>8, <3>6, <3>7, Zenon DEF O, S
  <2> QED
    BY <2>1, <2>2
<1>12. Fit' = Fit
  BY <1>1 DEF Fit
<1>13. CompilerInvariant'
  <2>1. variable_names' = NamesAfter(instrs) /\ string_pool' = StringsAfter(instrs)
    BY <1>7 DEF EnterNames
  <2>2. src' \in Nat \ {0} /\ text' \in Programs /\ phase' = "compile"
    BY <1>1, <1>2, CompilerIs
  <2> QED
    BY <1>10, <1>11, <1>12, <2>1, <2>2 DEF CompilerInvariant
<1> QED
  BY <1>1, <1>2, <1>13, CompilingKeeps

(* A step that changes nothing.                                            *)
LEMMA NothingKeeps ==
    ASSUME CompilerInvariant, MachineInvariant, UNCHANGED allVars
    PROVE  CompilerInvariant' /\ MachineInvariant'
<1>1. /\ UNCHANGED <<text, phase, src, blocks, loop_stack, code, variable_names, string_pool>>
      /\ UNCHANGED <<ip, stack, vars>>
  BY DEF allVars, machine
<1>2. Fit' = Fit
  BY <1>1 DEF Fit
<1>3. CompilerInvariant'
  BY <1>1, <1>2 DEF CompilerInvariant
<1>4. MachineInvariant'
  BY <1>1, <1>2 DEF MachineInvariant, Started
<1> QED
  BY <1>3, <1>4

(* The header of a loop nested too deep is skipped.                        *)
LEMMA SkipDeepLoopKeeps ==
    ASSUME CompilerInvariant, MachineInvariant, SkipDeepLoop
    PROVE  CompilerInvariant' /\ MachineInvariant'
<1>1. /\ AtItem({"while"}) /\ src' = src + 1
      /\ UNCHANGED <<text, shape, phase, blocks, loop_stack, code, variable_names, string_pool, machine>>
  BY DEF SkipDeepLoop
<1>2. phase = "compile"
  BY <1>1 DEF AtItem, Compiling
<1>3. Fit' = Fit
  BY <1>1 DEF Fit
<1>4. CompilerInvariant'
  <2>1. src' \in Nat \ {0}
    BY <1>1, CompilerIs
  <2> QED
    BY <1>1, <1>3, <2>1 DEF CompilerInvariant
<1> QED
  BY <1>1, <1>2, <1>4, CompilingKeeps

(* A block ends while compiling, and there is one.                         *)
LEMMA EndIs ==
    ASSUME EndOfBlock
    PROVE  blocks # <<>> /\ phase = "compile"
BY DEF EndOfBlock, AtItem, Compiling

(* EndWhile: the jump back, then the jumps out of the loop.                *)
LEMMA EndWhileKeeps ==
    ASSUME CompilerInvariant, MachineInvariant, EndWhile
    PROVE  CompilerInvariant' /\ MachineInvariant'
<1>1. /\ blocks # <<>> /\ phase = "compile" /\ Last(blocks).kind = "while"
      /\ UNCHANGED <<text, shape, phase, variable_names, string_pool, machine>>
      /\ loop_stack' = Front(loop_stack) /\ blocks' = Front(blocks) /\ src' = src + 1
  BY EndIs DEF EndWhile
<1>2. Frames(blocks, loop_stack) /\ src \in Nat \ {0} /\ src \in Nat
  BY CompilerIs
<1>3. PICK ctx : ctx = loop_stack[Len(loop_stack)]
  OBVIOUS
<1>4. PICK jump : jump = Last(blocks).jump
  OBVIOUS
<1>5. PICK O : O = Open(Front(blocks), Front(loop_stack))
  OBVIOUS
<1>6. PICK S : S = Starts(Front(loop_stack))
  OBVIOUS
<1>7. /\ Last(blocks).loop = Len(loop_stack)
      /\ Frames(Front(blocks), Front(loop_stack))
      /\ Open(blocks, loop_stack) = O \cup {jump} \cup Exits(ctx)
      /\ Starts(loop_stack) = S \cup {ctx.loop_start}
  BY <1>1, <1>2, <1>3, <1>4, <1>5, <1>6, FrameLoopEnds
<1>8. PICK start : start = ctx.loop_start
  OBVIOUS
<1>9. PICK breaks : breaks = Range(ctx.break_jumps)
  OBVIOUS
<1>10. PICK continues : continues = Range(ctx.continue_jumps)
  OBVIOUS
<1>11. PICK t : t = Append(code, Tagged("JMP", start, src))
  OBVIOUS
<1>12. PICK w : w = Patch(t, breaks \cup {jump}, Len(t) + 1)
  OBVIOUS
<1>13. code' = Patch(w, continues, start)
  BY <1>3, <1>4, <1>7, <1>8, <1>9, <1>10, <1>11, <1>12, Zenon DEF EndWhile
<1>14. Open(blocks, loop_stack) = (O \cup {jump}) \cup (breaks \cup continues)
  BY <1>7, <1>9, <1>10, Zenon DEF Exits
<1>15. Starts(loop_stack) = S \cup {start} /\ start \in S \cup {start}
  BY <1>7, <1>8
<1>16. PICK nv \in Nat : nv = Len(variable_names)
  BY CompilerIs
<1>17. PICK ns \in Nat : ns = Len(string_pool)
  BY CompilerIs
<1>18. Sound(code, (O \cup {jump}) \cup (breaks \cup continues), S \cup {start}, 0, nv, ns, Fit)
  BY <1>14, <1>15, <1>16, <1>17, CompilerIs
<1>19. Sound(t, ((O \cup {jump}) \cup (breaks \cup continues)) \cup {}, S \cup {start}, 0, nv, ns, Fit)
  BY <1>2, <1>11, <1>15, <1>18, SoundReturns
<1>20. Sound(w, O \cup continues, S \cup {start}, 0, nv, ns, Fit)
  <2>1. Len(t) + 1 \in (S \cup {start}) \cup {Len(t) + 1}
    OBVIOUS
  <2>2. PICK open : open = ((O \cup {jump}) \cup (breaks \cup continues)) \cup {}
    OBVIOUS
  <2>3. /\ breaks \cup {jump} \subseteq open /\ O \cup continues \subseteq open
        /\ open \ (breaks \cup {jump}) \subseteq O \cup continues
        /\ S \cup {start} \subseteq S \cup {start}
    BY <2>2, Zenon
  <2>4. Sound(t, open, S \cup {start}, 0, nv, ns, Fit)
    BY <1>19, <2>2
  <2> QED
    BY <1>12, <2>1, <2>3, <2>4, SoundCompleted
<1>21. Sound(code', O, S, 0, nv, ns, Fit)
  <2>1. start \in (S \cup {start}) \cup {Len(w) + 1}
    OBVIOUS
  <2>2. PICK open : open = O \cup continues
    OBVIOUS
  <2>3. /\ continues \subseteq open /\ O \subseteq open
        /\ open \ continues \subseteq O /\ S \subseteq S \cup {start}
    BY <2>2, Zenon
  <2>4. Sound(w, open, S \cup {start}, 0, nv, ns, Fit)
    BY <1>20, <2>2
  <2> QED
    BY <1>13, <2>1, <2>3, <2>4, SoundCompleted
<1>22. Fit' = Fit
  BY <1>1 DEF Fit
<1>23. CompilerInvariant'
  <2>1. src' \in Nat \ {0}
    BY <1>1, <1>2
  <2>2. Sound(code', Open(blocks', loop_stack'), Starts(loop_stack'), 0,
              Len(variable_names'), Len(string_pool'), Fit')
    BY <1>1, <1>5, <1>6, <1>16, <1>17, <1>21, <1>22
  <2> QED
    BY <1>1, <1>7, <2>1, <2>2 DEF CompilerInvariant
<1> QED
  BY <1>1, <1>23, CompilingKeeps

(* EndThen: the block of an `if` ends at its brace.                        *)
LEMMA EndThenKeeps ==
    ASSUME CompilerInvariant, MachineInvariant, EndThen
    PROVE  CompilerInvariant' /\ MachineInvariant'
<1>1. /\ blocks # <<>> /\ phase = "compile" /\ Last(blocks).kind # "while"
      /\ UNCHANGED <<text, shape, phase, loop_stack, variable_names, string_pool, machine>>
      /\ AfterThen(code, Last(blocks).jump, src + 1, Front(blocks))
  BY EndIs DEF EndThen
<1>2. /\ Frames(blocks, loop_stack) /\ src + 1 \in Nat \ {0}
      /\ Len(variable_names) \in Nat /\ Len(string_pool) \in Nat
  BY CompilerIs
<1>3. /\ Frames(Front(blocks), loop_stack)
      /\ Open(blocks, loop_stack) = Open(Front(blocks), loop_stack) \cup {Last(blocks).jump}
  BY <1>1, <1>2, FrameEnds
<1>4. Sound(code, Open(Front(blocks), loop_stack) \cup {Last(blocks).jump}, Starts(loop_stack), 0,
            Len(variable_names), Len(string_pool), Fit)
  BY <1>3, CompilerIs
<1>5. /\ Frames(blocks', loop_stack)
      /\ Sound(code', Open(blocks', loop_stack), Starts(loop_stack), 0,
               Len(variable_names), Len(string_pool), Fit)
      /\ src' \in Nat \ {0}
  BY <1>1, <1>2, <1>3, <1>4, AfterThenKeeps, Zenon
<1>6. Fit' = Fit
  BY <1>1 DEF Fit
<1>7. CompilerInvariant'
  BY <1>1, <1>5, <1>6 DEF CompilerInvariant
<1> QED
  BY <1>1, <1>7, CompilingKeeps

(* EndElse: the jump over the `else` is completed.                         *)
LEMMA EndElseKeeps ==
    ASSUME CompilerInvariant, MachineInvariant, EndElse
    PROVE  CompilerInvariant' /\ MachineInvariant'
<1>1. /\ blocks # <<>> /\ phase = "compile" /\ Last(blocks).kind # "while"
      /\ UNCHANGED <<text, shape, phase, loop_stack, variable_names, string_pool, machine>>
      /\ blocks' = Front(blocks) /\ src' = src + 1
      /\ code' = Patch(code, {Last(blocks).jump}, Len(code) + 1)
  BY EndIs DEF EndElse
<1>2. Frames(blocks, loop_stack) /\ src' \in Nat \ {0}
  BY <1>1, CompilerIs
<1>3. PICK O : O = Open(Front(blocks), loop_stack)
  OBVIOUS
<1>4. PICK S : S = Starts(loop_stack)
  OBVIOUS
<1>5. PICK jump : jump = Last(blocks).jump
  OBVIOUS
<1>6. Frames(Front(blocks), loop_stack) /\ Open(blocks, loop_stack) = O \cup {jump}
  BY <1>1, <1>2, <1>3, <1>5, FrameEnds
<1>7. Sound(code, O \cup {jump}, S, 0, Len(variable_names), Len(string_pool), Fit)
  BY <1>4, <1>6, CompilerIs
<1>8. Sound(code', O, S, 0, Len(variable_names), Len(string_pool), Fit)
  <2>1. Len(code) + 1 \in S \cup {Len(code) + 1}
    OBVIOUS
  <2>2. /\ {jump} \subseteq O \cup {jump} /\ O \subseteq O \cup {jump}
        /\ (O \cup {jump}) \ {jump} \subseteq O /\ S \subseteq S
    BY Zenon
  <2>3. code' = Patch(code, {jump}, Len(code) + 1)
    BY <1>1, <1>5
  <2> QED
    BY <1>7, <2>1, <2>2, <2>3, SoundCompleted
<1>9. Fit' = Fit
  BY <1>1 DEF Fit
<1>10. CompilerInvariant'
  BY <1>1, <1>2, <1>3, <1>4, <1>6, <1>8, <1>9 DEF CompilerInvariant
<1> QED
  BY <1>1, <1>10, CompilingKeeps

(* Nothing is open when the outermost text ends.                           *)
LEMMA NothingOpen ==
    ASSUME NEW l, Frames(<<>>, l)
    PROVE  l = <<>> /\ Open(<<>>, l) = {} /\ Starts(l) = {}
<1>1. Len(<<>>) = 0
  OBVIOUS
<1>2. l \in Seq(Loop) /\ \A m \in 1 .. Len(l) : \E x \in 1 .. 0 : <<>>[x].loop = m
  BY <1>1 DEF Frames, Matched
<1>3. \A m \in 1 .. Len(l) : FALSE
  <2>1. \A x \in 1 .. 0 : FALSE
    OBVIOUS
  <2> QED
    BY <1>2, <2>1, Zenon
<1>4. Len(l) = 0
  <2>1. Len(l) \in Nat
    BY <1>2
  <2>2. Len(l) # 0 => 1 \in 1 .. Len(l)
    BY <2>1
  <2> QED
    BY <1>3, <2>1, <2>2, Zenon
<1>5. l = <<>>
  BY <1>2, <1>4
<1>6. \A x \in 1 .. 0 : FALSE
  OBVIOUS
<1>7. JumpsOf(<<>>) = {} /\ ExitsOf(l) = {} /\ Starts(l) = {}
  BY <1>1, <1>5, <1>6 DEF JumpsOf, ExitsOf, Starts
<1> QED
  BY <1>5, <1>7 DEF Open

(* FinishCompile: the code is complete, and the machine starts on it.      *)
LEMMA FinishCompileKeeps ==
    ASSUME CompilerInvariant, MachineInvariant, FinishCompile
    PROVE  CompilerInvariant' /\ MachineInvariant'
<1>1. /\ blocks = <<>> /\ phase' = "run" /\ ip' = 1 /\ stack' = <<>>
      /\ vars' = [v \in 1 .. MAX_VARS |-> 0]
      /\ code' = Append(code, Tagged("HALT", 0, src))
      /\ UNCHANGED <<text, shape, src, blocks, loop_stack, variable_names, string_pool, shown>>
  BY DEF FinishCompile
<1>2. PICK nv \in Nat : nv = Len(variable_names)
  BY CompilerIs
<1>3. PICK ns \in Nat : ns = Len(string_pool)
  BY CompilerIs
<1>4. loop_stack = <<>> /\ Open(blocks, loop_stack) = {} /\ Starts(loop_stack) = {}
  BY <1>1, CompilerIs, NothingOpen
<1>5. Sound(code, {}, {}, 0, nv, ns, Fit) /\ src \in Nat
  BY <1>2, <1>3, <1>4, CompilerIs
<1>6. Sound(code', {}, {}, 0, nv, ns, Fit)
  <2>1. Sound(code', {} \cup {}, {}, 0, nv, ns, Fit)
    BY <1>1, <1>5, SoundEnds
  <2> QED
    BY <2>1
<1>7. /\ Len(code) \in Nat /\ Len(code') = Len(code) + 1
      /\ \A k \in 1 .. Len(code) : code'[k] = code[k]
      /\ code'[Len(code) + 1] = Tagged("HALT", 0, src)
  BY <1>1, <1>5, LongerIs
<1>8. Fit' = Fit
  BY <1>1 DEF Fit
<1>9. CompilerInvariant'
  <2>1. Sound(code', Open(blocks', loop_stack'), Starts(loop_stack'), 0,
              Len(variable_names'), Len(string_pool'), Fit')
    BY <1>1, <1>2, <1>3, <1>4, <1>6, <1>8
  <2> QED
    BY <1>1, <2>1 DEF CompilerInvariant
<1>10. Ends(code')
  <2>1. code'[Len(code) + 1].op = "HALT"
    BY <1>7 DEF Tagged
  <2>2. ASSUME NEW k \in 1 .. Len(code'), code'[k].op \in JumpOps
        PROVE  code'[k].arg \in 1 .. Len(code')
    <3>1. k # Len(code) + 1
      BY <2>1, <2>2 DEF JumpOps
    <3>2. k \in 1 .. Len(code) /\ code'[k] = code[k]
      BY <1>7, <3>1
    <3>3. code[k].arg \in 1 .. Len(code) + 1
      BY <1>5, <2>2, <3>2 DEF Sound
    <3> QED
      BY <1>7, <3>2, <3>3
  <2> QED
    BY <1>7, <2>1, <2>2 DEF Ends
<1>11. ASSUME Fit
       PROVE  Levelled(code', stack', ip')
  <2>1. PICK d : Levels(code', {}, {}, 0, d)
    BY <1>6, <1>11 DEF Sound
  <2>2. d[1] = 0
    BY <2>1 DEF Levels, Depths
  <2>3. Len(stack') <= d[ip']
    BY <1>1, <2>2
  <2> QED
    BY <2>1, <2>3, Zenon DEF Levelled
<1>12. MachineInvariant'
  <2>1. vars' \in [1 .. MAX_VARS -> Ints]
    BY <1>1, ZeroIsInt
  <2>2. StackFits(stack')
    <3>1. <<>> \in Seq(Values({})) /\ Len(<<>>) = 0
      OBVIOUS
    <3> QED
      BY <1>1, <3>1, SizesAssumption DEF StackFits
  <2>3. ip' \in 1 .. Len(code')
    BY <1>1, <1>7
  <2> QED
    BY <1>1, <1>4, <1>8, <1>10, <1>11, <2>1, <2>2, <2>3 DEF MachineInvariant
<1> QED
  BY <1>9, <1>12

(* Every step of the compiler.                                             *)
LEMMA CompilerKeeps ==
    ASSUME CompilerInvariant, MachineInvariant, naw_compile
    PROVE  CompilerInvariant' /\ MachineInvariant'
<1>1. CASE CompileLine
  BY <1>1, CompileLineKeeps
<1>2. CASE CompileBreak
  BY <1>2, CompileLeaveKeeps DEF CompileBreak
<1>3. CASE CompileContinue
  BY <1>3, CompileLeaveKeeps DEF CompileContinue
<1>4. CASE compile_if
  BY <1>4, CompileIfKeeps
<1>5. CASE compile_while
  BY <1>5, CompileWhileKeeps
<1>6. CASE SkipDeepLoop
  BY <1>6, SkipDeepLoopKeeps
<1>7. CASE EndWhile
  BY <1>7, EndWhileKeeps
<1>8. CASE EndThen
  BY <1>8, EndThenKeeps
<1>9. CASE EndElse
  BY <1>9, EndElseKeeps
<1>10. CASE StrayBrace
  BY <1>10, NothingKeeps DEF StrayBrace
<1>11. CASE FinishCompile
  BY <1>11, FinishCompileKeeps
<1> QED
  BY <1>1, <1>2, <1>3, <1>4, <1>5, <1>6, <1>7, <1>8, <1>9, <1>10, <1>11, Zenon DEF naw_compile

-----------------------------------------------------------------------------
(* The machine keeps the invariant                                         *)

\* A value whose integer the machine can hold.
ValueFits(v) == v.type = "int" => v.int_value \in Ints

(* One value more on a stack that has room.                                *)
LEMMA AppendFits ==
    ASSUME NEW s, StackFits(s), Len(s) < STACK_SIZE, NEW v, ValueFits(v)
    PROVE  StackFits(Append(s, v)) /\ Len(Append(s, v)) = Len(s) + 1
<1>1. PICK V : s \in Seq(Values(V))
  BY DEF StackFits
<1>2. v \in Values(V \cup {v}) /\ Values(V) \subseteq Values(V \cup {v})
  BY DEF Values, ValueFits
<1>3. PICK S : S = Values(V \cup {v})
  OBVIOUS
<1>4. s \in Seq(S) /\ v \in S
  <2>3. \A k \in 1 .. Len(s) : s[k] \in Values(V)
    BY <1>1
  <2>1. \A k \in 1 .. Len(s) : s[k] \in S
    BY <1>2, <1>3, <2>3, Zenon
  <2> QED
    BY <1>1, <1>2, <1>3, <2>1, SequenceOf
<1>5. Append(s, v) \in Seq(S) /\ Len(Append(s, v)) = Len(s) + 1 /\ Len(s) \in Nat
  BY <1>4
<1>6. Len(Append(s, v)) <= STACK_SIZE
  BY <1>5, SizesAssumption
<1> QED
  BY <1>3, <1>5, <1>6 DEF StackFits

(* vm_push, on a stack that may be full.                                   *)
LEMMA PushedFits ==
    ASSUME NEW s, StackFits(s), NEW v, ValueFits(v)
    PROVE  StackFits(Pushed(s, v)) /\ Len(Pushed(s, v)) <= Len(s) + 1
<1>1. Len(s) \in Nat
  BY DEF StackFits
<1>2. CASE Len(s) < STACK_SIZE
  <2>1. StackFits(Append(s, v)) /\ Len(Append(s, v)) = Len(s) + 1
    BY <1>2, AppendFits
  <2>2. Pushed(s, v) = Append(s, v)
    BY <1>2 DEF Pushed
  <2> QED
    BY <1>1, <2>1, <2>2
<1>3. CASE ~(Len(s) < STACK_SIZE)
  BY <1>1, <1>3 DEF Pushed
<1> QED
  BY <1>2, <1>3

(* vm_pop n times, on a stack that has as many values.                     *)
LEMMA DroppingFits ==
    ASSUME StackFits(stack), NEW n \in Nat, n <= Len(stack)
    PROVE  /\ StackFits(Dropping(n)) /\ Len(Dropping(n)) = Len(stack) - n
           /\ Len(stack) \in Nat /\ Len(stack) <= STACK_SIZE
<1>1. PICK V : stack \in Seq(Values(V))
  BY DEF StackFits
<1>2. PICK S : S = Values(V)
  OBVIOUS
<1>3. stack \in Seq(S) /\ Len(stack) \in Nat /\ Len(stack) <= STACK_SIZE
  BY <1>1, <1>2 DEF StackFits
<1>4. Dropping(n) \in Seq(S) /\ Len(Dropping(n)) = Len(stack) - n
  BY <1>3 DEF Dropping
<1>5. Len(Dropping(n)) <= STACK_SIZE
  BY <1>3, <1>4, SizesAssumption
<1> QED
  BY <1>2, <1>3, <1>4, <1>5 DEF StackFits

(* The values popped are those that were pushed.                           *)
LEMMA TopFits ==
    ASSUME StackFits(stack), NEW n \in Nat \ {0}, n <= Len(stack)
    PROVE  ValueFits(Top(n))
<1>1. PICK V : stack \in Seq(Values(V))
  BY DEF StackFits
<1>2. Len(stack) + 1 - n \in 1 .. Len(stack)
  BY <1>1
<1>3. Top(n) \in Values(V)
  BY <1>1, <1>2 DEF Top
<1> QED
  BY <1>3 DEF Values, ValueFits

(* The instruction at hand.                                                *)
LEMMA InstructionIs ==
    ASSUME CompilerInvariant, MachineInvariant, phase = "run"
    PROVE  /\ ip \in 1 .. Len(code) /\ Len(code) \in Nat
           /\ ArgumentFits(in, Len(variable_names), Len(string_pool))
           /\ in.op # "HALT" => ip + 1 \in 1 .. Len(code)
           /\ in.op \in JumpOps => in.arg \in 1 .. Len(code)
           /\ \A d : Levels(code, {}, {}, 0, d) =>
                 /\ d[ip] \in Int /\ d[ip] + Effect(in) <= d[ip + 1] /\ d[ip + 1] \in Int
                 /\ Settled(in, d[ip])
                 /\ in.op \in JumpOps => d[in.arg] = 0
<1>1. Started
  BY DEF Started
<1>2. ip \in 1 .. Len(code) /\ Len(code) \in Nat /\ Ends(code)
  BY <1>1, CompilerIs DEF MachineInvariant
<1>3. ArgumentFits(in, Len(variable_names), Len(string_pool))
  BY <1>2, CompilerIs DEF Sound, in
<1>4. in.op # "HALT" => ip + 1 \in 1 .. Len(code)
  BY <1>2 DEF Ends, in
<1>5. in.op \in JumpOps => in.arg \in 1 .. Len(code)
  BY <1>2 DEF Ends, in
<1>6. ASSUME NEW d, Levels(code, {}, {}, 0, d)
      PROVE  /\ d[ip] \in Int /\ d[ip] + Effect(in) <= d[ip + 1] /\ d[ip + 1] \in Int
             /\ Settled(in, d[ip])
             /\ in.op \in JumpOps => d[in.arg] = 0
  <2>1. /\ d \in [1 .. Len(code) + 1 -> Int]
        /\ \A k \in 1 .. Len(code) : d[k] + Effect(code[k]) <= d[k + 1]
    BY <1>6, Zenon DEF Levels, Depths
  <2>2. ip \in 1 .. Len(code) + 1 /\ ip + 1 \in 1 .. Len(code) + 1
    BY <1>2
  <2>3. Settled(in, d[ip]) /\ (in.op \in JumpOps => d[in.arg] = 0)
    BY <1>2, <1>6 DEF Levels, in
  <2> QED
    BY <1>2, <2>1, <2>2, <2>3 DEF in
<1> QED
  BY <1>2, <1>3, <1>4, <1>5, <1>6

(* A step of the machine, to an instruction that the stack's depth allows. *)
LEMMA MachineSteps ==
    ASSUME CompilerInvariant, MachineInvariant, phase = "run",
           UNCHANGED program, phase' \in {"run", "halted", "error", "trap"},
           vars' \in [1 .. MAX_VARS -> Ints], StackFits(stack'),
           ip' \in 1 .. Len(code),
           \A d : Levels(code, {}, {}, 0, d) /\ Len(stack) <= d[ip] => Len(stack') <= d[ip']
    PROVE  CompilerInvariant' /\ MachineInvariant'
<1>1. UNCHANGED <<text, shape, src, blocks, loop_stack, code, variable_names, string_pool>>
  BY DEF program
<1>2. Fit' = Fit
  BY <1>1 DEF Fit
<1>3. CompilerInvariant'
  BY <1>1, <1>2 DEF CompilerInvariant
<1>4. blocks = <<>> /\ loop_stack = <<>> /\ Ends(code) /\ (Fit => Levelled(code, stack, ip))
  BY DEF MachineInvariant, Started
<1>5. Fit => Levelled(code, stack', ip')
  <2>1. ASSUME Fit
        PROVE  Levelled(code, stack', ip')
    <3>1. PICK d : Levels(code, {}, {}, 0, d) /\ Len(stack) <= d[ip]
      BY <1>4, <2>1 DEF Levelled
    <3>2. Len(stack') <= d[ip']
      BY <3>1
    <3> QED
      BY <3>1, <3>2, Zenon DEF Levelled
  <2> QED
    BY <2>1
<1>6. MachineInvariant'
  BY <1>1, <1>2, <1>4, <1>5 DEF MachineInvariant
<1> QED
  BY <1>3, <1>6

(* A run that ends leaves everything as it is.                             *)
LEMMA AbortKeeps ==
    ASSUME CompilerInvariant, MachineInvariant, phase = "run",
           NEW how \in {"halted", "error", "trap"}, Abort(how)
    PROVE  CompilerInvariant' /\ MachineInvariant'
<1>1. UNCHANGED program /\ UNCHANGED <<ip, stack, vars>> /\ phase' = how
  BY DEF Abort, machine
<1>2. ip \in 1 .. Len(code) /\ StackFits(stack) /\ vars \in [1 .. MAX_VARS -> Ints]
  BY InstructionIs DEF MachineInvariant
<1>3. \A d : Levels(code, {}, {}, 0, d) /\ Len(stack) <= d[ip] => Len(stack') <= d[ip']
  BY <1>1
<1>4. phase' \in {"run", "halted", "error", "trap"}
  BY <1>1
<1>5. vars' \in [1 .. MAX_VARS -> Ints] /\ StackFits(stack') /\ ip' \in 1 .. Len(code)
  BY <1>1, <1>2
<1> QED
  BY <1>1, <1>3, <1>4, <1>5, MachineSteps

(* The stack after an instruction that goes on with the next.              *)
LEMMA NextKeeps ==
    ASSUME CompilerInvariant, MachineInvariant, phase = "run", in.op # "HALT",
           NEW s, StackFits(s), Effect(in) \in Int, Len(s) <= Len(stack) + Effect(in),
           vars' \in [1 .. MAX_VARS -> Ints], StepTo(s, ip + 1)
    PROVE  CompilerInvariant' /\ MachineInvariant'
<1>1. stack' = s /\ ip' = ip + 1 /\ phase' = phase /\ UNCHANGED program
  BY DEF StepTo
<1>2. Len(stack) \in Nat /\ Len(s) \in Nat
  BY DEF StackFits, MachineInvariant
<1>3. ASSUME NEW d, Levels(code, {}, {}, 0, d), Len(stack) <= d[ip]
      PROVE  Len(stack') <= d[ip']
  <2>1. d[ip] \in Int /\ d[ip] + Effect(in) <= d[ip + 1] /\ d[ip + 1] \in Int
    BY <1>3, InstructionIs
  <2>2. Len(s) <= d[ip + 1]
    BY <1>2, <1>3, <2>1
  <2> QED
    BY <1>1, <2>2
<1>4. ip' \in 1 .. Len(code)
  BY <1>1, InstructionIs
<1>5. phase' \in {"run", "halted", "error", "trap"} /\ StackFits(stack')
  BY <1>1
<1> QED
  BY <1>1, <1>3, <1>4, <1>5, MachineSteps

(* OP_PUSH_INT, OP_PUSH_STR and OP_LOAD_VAR.                               *)
LEMMA PushKeeps ==
    ASSUME CompilerInvariant, MachineInvariant, Push
    PROVE  CompilerInvariant' /\ MachineInvariant'
<1> DEFINE v == CASE in.op = "PUSH_INT" -> IntValue(in.arg)
                  [] in.op = "PUSH_STR" -> StrValue(<<string_pool[in.arg]>>)
                  [] in.op = "LOAD_VAR" -> IntValue(vars[in.arg])
<1>1. /\ phase = "run" /\ in.op \in {"PUSH_INT", "PUSH_STR", "LOAD_VAR"}
      /\ StepTo(Pushed(stack, v), ip + 1) /\ vars' = vars
  BY DEF Push, Running
<1>2. StackFits(stack) /\ vars \in [1 .. MAX_VARS -> Ints]
  BY DEF MachineInvariant
<1>3. ValueFits(v)
  <2>1. ArgumentFits(in, Len(variable_names), Len(string_pool))
    BY <1>1, InstructionIs
  <2>2. CASE in.op = "PUSH_INT"
    BY <2>1, <2>2 DEF ArgumentFits, ValueFits, IntValue
  <2>3. CASE in.op = "PUSH_STR"
    BY <2>3 DEF ValueFits, StrValue
  <2>4. CASE in.op = "LOAD_VAR"
    <3>1. in.arg \in 1 .. Len(variable_names)
      BY <2>1, <2>4 DEF ArgumentFits, VarOps
    <3>2. Len(variable_names) \in Nat /\ Len(variable_names) <= MAX_VARS
      BY CompilerIs DEF Tables
    <3>3. in.arg \in 1 .. MAX_VARS
      BY <3>1, <3>2, TextSizesAssumption
    <3>4. vars[in.arg] \in Ints
      BY <1>2, <3>3
    <3> QED
      BY <2>4, <3>4 DEF ValueFits, IntValue
  <2> QED
    BY <1>1, <2>2, <2>3, <2>4
<1> HIDE DEF v
<1>4. StackFits(Pushed(stack, v)) /\ Len(Pushed(stack, v)) <= Len(stack) + 1
  BY <1>2, <1>3, PushedFits
<1>5. Effect(in) = 1 /\ in.op # "HALT"
  BY <1>1 DEF Effect
<1> QED
  BY <1>1, <1>2, <1>4, <1>5, NextKeeps

(* The top of the stack is used up by an instruction that needs one value. *)
LEMMA OneDropped ==
    ASSUME MachineInvariant, Len(stack) >= 1
    PROVE  /\ StackFits(Dropping(1)) /\ Len(Dropping(1)) = Len(stack) + (-1)
           /\ Len(stack) \in Nat /\ ValueFits(Top(1))
<1>1. StackFits(stack) /\ Len(stack) \in Nat
  BY DEF MachineInvariant, StackFits
<1> QED
  BY <1>1, DroppingFits, TopFits

(* OP_STORE_VAR: the variable is one of the program's.                     *)
LEMMA StoreKeeps ==
    ASSUME CompilerInvariant, MachineInvariant, Store
    PROVE  CompilerInvariant' /\ MachineInvariant'
<1>1. phase = "run" /\ in.op = "STORE_VAR"
  BY DEF Store, Running
<1>2. CASE IsInt(1)
  <2>1. Len(stack) >= 1 /\ Top(1).type = "int"
    BY <1>2 DEF IsInt
  <2>2. vars' = [vars EXCEPT ![in.arg] = Top(1).int_value] /\ StepTo(Dropping(1), ip + 1)
    BY <1>2 DEF Store
  <2>3. Top(1).int_value \in Ints
    BY <2>1, OneDropped DEF ValueFits
  <2>4. vars' \in [1 .. MAX_VARS -> Ints]
    BY <2>2, <2>3 DEF MachineInvariant
  <2>5. Effect(in) = -1 /\ in.op # "HALT"
    BY <1>1 DEF Effect
  <2>6. StackFits(Dropping(1)) /\ Len(Dropping(1)) <= Len(stack) + Effect(in) /\ Effect(in) \in Int
    BY <2>1, <2>5, OneDropped
  <2> QED
    BY <1>1, <2>2, <2>4, <2>5, <2>6, NextKeeps
<1>3. CASE ~IsInt(1)
  BY <1>1, <1>3, AbortKeeps DEF Store
<1> QED
  BY <1>2, <1>3

(* The arithmetic has a value, a message or the processor's exception.     *)
LEMMA AppliedIs ==
    ASSUME NEW op, NEW a, NEW b
    PROVE  Apply(op, a, b).type \in {"int", "error", "trap"}
BY DEF Apply, Stops, IntValue

(* The binary operators.                                                   *)
LEMMA BinaryKeeps ==
    ASSUME CompilerInvariant, MachineInvariant, Binary
    PROVE  CompilerInvariant' /\ MachineInvariant'
<1> DEFINE v == IF Len(stack) < 2 THEN Stops("error") ELSE Apply(in.op, Top(2), Top(1))
<1>1. /\ phase = "run" /\ in.op \in AllOperators
      /\ v.type = "int" => StepTo(Append(Dropping(2), v), ip + 1) /\ UNCHANGED <<vars, shown>>
      /\ v.type # "int" => Abort(v.type)
  BY DEF Binary, Running
<1>2. StackFits(stack) /\ Len(stack) \in Nat
  BY DEF MachineInvariant, StackFits
<1>3. v.type \in {"int", "error", "trap"}
  BY AppliedIs DEF Stops
<1>4. CASE v.type = "int"
  <2>1. Len(stack) >= 2 /\ v = Apply(in.op, Top(2), Top(1))
    BY <1>2, <1>4 DEF Stops
  <2>2. ValueFits(Top(1)) /\ ValueFits(Top(2))
    BY <1>2, <2>1, TopFits
  <2>3. ValueFits(v)
    <3>1. ASSUME Apply(in.op, Top(2), Top(1)).type = "int"
          PROVE  Apply(in.op, Top(2), Top(1)).int_value \in Ints
      BY <1>1, <2>2, <3>1, ApplyIs DEF ValueFits
    <3> HIDE DEF v
    <3> QED
      BY <2>1, <3>1 DEF ValueFits
  <2> HIDE DEF v
  <2>4. /\ StackFits(Dropping(2)) /\ Len(Dropping(2)) = Len(stack) - 2
        /\ Len(stack) <= STACK_SIZE
    BY <1>2, <2>1, DroppingFits
  <2>5. Len(Dropping(2)) < STACK_SIZE
    BY <1>2, <2>4, SizesAssumption
  <2>6. StackFits(Append(Dropping(2), v)) /\ Len(Append(Dropping(2), v)) = Len(Dropping(2)) + 1
    BY <2>3, <2>4, <2>5, AppendFits
  <2>7. Effect(in) = -1 /\ in.op # "HALT"
    BY <1>1, OperatorsAre DEF Effect
  <2>8. Len(Append(Dropping(2), v)) <= Len(stack) + Effect(in) /\ Effect(in) \in Int
    BY <1>2, <2>4, <2>6, <2>7
  <2>9. vars' \in [1 .. MAX_VARS -> Ints]
    BY <1>1, <1>4 DEF MachineInvariant
  <2> QED
    BY <1>1, <1>4, <2>6, <2>7, <2>8, <2>9, NextKeeps
<1>5. CASE v.type # "int"
  <2>1. v.type \in {"halted", "error", "trap"} /\ Abort(v.type)
    BY <1>1, <1>3, <1>5
  <2> HIDE DEF v
  <2> QED
    BY <1>1, <2>1, AbortKeeps
<1> QED
  BY <1>4, <1>5

(* OP_JMP: where it leads, nothing is on the stack.                        *)
LEMMA JumpKeeps ==
    ASSUME CompilerInvariant, MachineInvariant, Jump
    PROVE  CompilerInvariant' /\ MachineInvariant'
<1>1. /\ phase = "run" /\ in.op = "JMP" /\ UNCHANGED program /\ phase' = phase
      /\ stack' = stack /\ ip' = in.arg /\ vars' = vars
  BY DEF Jump, Running, StepTo
<1>2. in.op \in JumpOps
  BY <1>1 DEF JumpOps
<1>3. ASSUME NEW d, Levels(code, {}, {}, 0, d), Len(stack) <= d[ip]
      PROVE  Len(stack') <= d[ip']
  <2>1. d[ip] = 0 /\ d[in.arg] = 0
    BY <1>1, <1>2, <1>3, InstructionIs DEF Settled
  <2> QED
    BY <1>1, <1>3, <2>1
<1>4. ip' \in 1 .. Len(code)
  BY <1>1, <1>2, InstructionIs
<1>5. vars' \in [1 .. MAX_VARS -> Ints] /\ StackFits(stack') /\ phase' \in {"run", "halted", "error", "trap"}
  BY <1>1 DEF MachineInvariant
<1> QED
  BY <1>1, <1>3, <1>4, <1>5, MachineSteps

(* OP_JMP_IF_FALSE: whichever way it goes, its condition was the last value. *)
LEMMA JumpIfFalseKeeps ==
    ASSUME CompilerInvariant, MachineInvariant, JumpIfFalse
    PROVE  CompilerInvariant' /\ MachineInvariant'
<1>1. phase = "run" /\ in.op = "JMP_IF_FALSE" /\ in.op \in JumpOps /\ in.op # "HALT"
  BY DEF JumpIfFalse, Running, JumpOps
<1>2. CASE IsInt(1)
  <2>1. Len(stack) >= 1
    BY <1>2 DEF IsInt
  <2>2. /\ StepTo(Dropping(1), IF Top(1).int_value = 0 THEN in.arg ELSE ip + 1)
        /\ UNCHANGED <<vars, shown>>
    BY <1>2 DEF JumpIfFalse
  <2>3. StackFits(Dropping(1)) /\ Len(Dropping(1)) = Len(stack) + (-1) /\ Len(stack) \in Nat
    BY <2>1, OneDropped
  <2>4. Effect(in) = -1
    BY <1>1 DEF Effect
  <2>5. vars' \in [1 .. MAX_VARS -> Ints]
    BY <2>2 DEF MachineInvariant
  <2>6. CASE Top(1).int_value # 0
    <3>1. StepTo(Dropping(1), ip + 1)
      BY <2>2, <2>6
    <3>2. Len(Dropping(1)) <= Len(stack) + Effect(in) /\ Effect(in) \in Int
      BY <2>3, <2>4
    <3> QED
      BY <1>1, <2>3, <2>5, <3>1, <3>2, NextKeeps
  <2>7. CASE Top(1).int_value = 0
    <3>1. UNCHANGED program /\ phase' = phase /\ stack' = Dropping(1) /\ ip' = in.arg
      BY <2>2, <2>7 DEF StepTo
    <3>2. ASSUME NEW d, Levels(code, {}, {}, 0, d), Len(stack) <= d[ip]
          PROVE  Len(stack') <= d[ip']
      <4>1. d[ip] <= 1 /\ d[in.arg] = 0 /\ d[ip] \in Int
        BY <1>1, <3>2, InstructionIs DEF Settled
      <4> QED
        BY <2>3, <3>1, <3>2, <4>1
    <3>3. ip' \in 1 .. Len(code)
      BY <1>1, <3>1, InstructionIs
    <3>4. phase' \in {"run", "halted", "error", "trap"} /\ StackFits(stack')
      BY <1>1, <2>3, <3>1
    <3> QED
      BY <1>1, <2>5, <3>1, <3>2, <3>3, <3>4, MachineSteps
  <2> QED
    BY <2>6, <2>7
<1>3. CASE ~IsInt(1)
  BY <1>1, <1>3, AbortKeeps DEF JumpIfFalse
<1> QED
  BY <1>2, <1>3

(* OP_NATIVE_CALL: the arguments it pops are replaced by one result.       *)
LEMMA NativeCallKeeps ==
    ASSUME CompilerInvariant, MachineInvariant, NativeCall
    PROVE  CompilerInvariant' /\ MachineInvariant'
<1>1. phase = "run" /\ in.op = "NATIVE_CALL" /\ in.op # "HALT"
  BY DEF NativeCall, Running
<1>2. PICK argc : argc = MathArity[in.arg]
  OBVIOUS
<1> DEFINE args == [k \in 1 .. argc |-> Top(argc + 1 - k).str_value]
           v == StrValue(<<in.arg>> \o FlattenSeq(args))
           fails == Len(stack) < argc \/ \E k \in 1 .. argc : Top(k).type # "str"
<1>3. /\ fails => Abort("error")
      /\ ~fails => StepTo(Pushed(Dropping(argc), v), ip + 1) /\ UNCHANGED <<vars, shown>>
  BY <1>2, Zenon DEF NativeCall
<1>4. argc \in 1 .. 3
  <2>1. in.arg \in DOMAIN MathArity
    BY <1>1, InstructionIs DEF ArgumentFits
  <2> QED
    BY <1>2, <2>1, ArityIs
<1>5. ValueFits(v)
  BY DEF ValueFits, StrValue
<1>6. CASE fails
  BY <1>1, <1>3, <1>6, AbortKeeps
<1>7. CASE ~fails
  <2>1. Len(stack) \in Nat /\ StackFits(stack)
    BY DEF MachineInvariant, StackFits
  <2>2. argc <= Len(stack) /\ argc \in Nat
    BY <1>4, <1>7, <2>1
  <2>3. StackFits(Dropping(argc)) /\ Len(Dropping(argc)) = Len(stack) - argc
    BY <2>1, <2>2, DroppingFits
  <2>4. StepTo(Pushed(Dropping(argc), v), ip + 1) /\ UNCHANGED <<vars, shown>>
    BY <1>3, <1>7
  <2> HIDE DEF v, fails
  <2>5. StackFits(Pushed(Dropping(argc), v)) /\ Len(Pushed(Dropping(argc), v)) <= Len(Dropping(argc)) + 1
    BY <1>5, <2>3, PushedFits
  <2>6. Effect(in) = 1 - argc
    BY <1>1, <1>2 DEF Effect
  <2>7. PICK s : s = Pushed(Dropping(argc), v)
    OBVIOUS
  <2>8. Len(s) <= Len(stack) + Effect(in) /\ Effect(in) \in Int
    <3>1. Len(s) \in Nat
      BY <2>5, <2>7 DEF StackFits
    <3> QED
      BY <2>1, <2>2, <2>3, <2>5, <2>6, <2>7, <3>1
  <2>9. vars' \in [1 .. MAX_VARS -> Ints] /\ StepTo(s, ip + 1) /\ StackFits(s)
    BY <2>4, <2>5, <2>7 DEF MachineInvariant
  <2> QED
    BY <1>1, <2>8, <2>9, NextKeeps
<1> QED
  BY <1>6, <1>7

(* OP_PRINT.                                                               *)
LEMMA ShowKeeps ==
    ASSUME CompilerInvariant, MachineInvariant, Show
    PROVE  CompilerInvariant' /\ MachineInvariant'
<1>1. phase = "run" /\ in.op = "PRINT" /\ in.op # "HALT"
  BY DEF Show, Running
<1>2. CASE stack = <<>>
  BY <1>1, <1>2, AbortKeeps DEF Show
<1>3. CASE stack # <<>>
  <2>1. StepTo(Dropping(1), ip + 1) /\ vars' = vars
    BY <1>3 DEF Show
  <2>2. Len(stack) >= 1
    <3>1. \E V : stack \in Seq(Values(V))
      BY DEF MachineInvariant, StackFits
    <3> QED
      BY <1>3, <3>1
  <2>3. Effect(in) = -1
    BY <1>1 DEF Effect
  <2>4. StackFits(Dropping(1)) /\ Len(Dropping(1)) <= Len(stack) + Effect(in) /\ Effect(in) \in Int
    BY <2>2, <2>3, OneDropped
  <2>5. vars' \in [1 .. MAX_VARS -> Ints]
    BY <2>1 DEF MachineInvariant
  <2> QED
    BY <1>1, <2>1, <2>4, <2>5, NextKeeps
<1> QED
  BY <1>2, <1>3

(* OP_READ_INT: what the user types is an integer of the machine.          *)
LEMMA ReadIntKeeps ==
    ASSUME CompilerInvariant, MachineInvariant, ReadInt
    PROVE  CompilerInvariant' /\ MachineInvariant'
<1>1. phase = "run" /\ in.op = "READ_INT" /\ in.op # "HALT" /\ StepTo(stack, ip + 1)
  BY DEF ReadInt, Running
<1>2. PICK n \in Inputs : vars' = [vars EXCEPT ![in.arg] = n]
  BY DEF ReadInt
<1>3. n \in Ints
  BY InputsAssumption
<1>4. vars' \in [1 .. MAX_VARS -> Ints]
  BY <1>2, <1>3 DEF MachineInvariant
<1>5. Effect(in) = 0
  BY <1>1 DEF Effect
<1>6. StackFits(stack) /\ Len(stack) <= Len(stack) + Effect(in) /\ Effect(in) \in Int
  BY <1>5 DEF MachineInvariant, StackFits
<1> QED
  BY <1>1, <1>4, <1>6, NextKeeps

(* OP_HALT.                                                                *)
LEMMA HaltKeeps ==
    ASSUME CompilerInvariant, MachineInvariant, Halt
    PROVE  CompilerInvariant' /\ MachineInvariant'
BY AbortKeeps DEF Halt, Running

(* Every step of the machine.                                              *)
LEMMA MachineKeeps ==
    ASSUME CompilerInvariant, MachineInvariant, vm_run
    PROVE  CompilerInvariant' /\ MachineInvariant'
BY PushKeeps, StoreKeeps, BinaryKeeps, JumpKeeps, JumpIfFalseKeeps, NativeCallKeeps, ShowKeeps,
   ReadIntKeeps, HaltKeeps, Zenon DEF vm_run

-----------------------------------------------------------------------------
(* The theorems                                                            *)

(* Nothing is compiled and nothing runs when nawlang_run begins.           *)
LEMMA InitKeeps ==
    ASSUME Init
    PROVE  CompilerInvariant /\ MachineInvariant
<1>1. /\ text \in Programs /\ phase = "compile" /\ src = 1
      /\ blocks = <<>> /\ loop_stack = <<>>
      /\ code = <<>> /\ variable_names = <<>> /\ string_pool = <<>>
      /\ ip = 1 /\ stack = <<>> /\ vars = [v \in 1 .. MAX_VARS |-> 0]
  BY DEF Init
<1>2. Frames(<<>>, <<>>)
  <2>1. Len(<<>>) = 0 /\ \A x \in 1 .. 0 : FALSE
    OBVIOUS
  <2>2. Matched(<<>>, <<>>)
    BY <2>1, Zenon DEF Matched
  <2>3. <<>> \in Seq(Block) /\ <<>> \in Seq(Loop) /\ 0 <= MAX_LOOP_DEPTH
    BY TextSizesAssumption
  <2> QED
    BY <2>1, <2>2, <2>3 DEF Frames
<1>3. Open(blocks, loop_stack) = {} /\ Starts(loop_stack) = {}
  BY <1>1, <1>2, NothingOpen
<1>4. PICK n \in Nat : n = 0
  OBVIOUS
<1>5. Sound(<<>>, {}, {}, 0, n, n, Fit)
  BY SoundEmpty
<1>6. Len(variable_names) = n /\ Len(string_pool) = n
  BY <1>1, <1>4
<1>7. Sound(code, Open(blocks, loop_stack), Starts(loop_stack), 0,
            Len(variable_names), Len(string_pool), Fit)
  BY <1>1, <1>3, <1>5, <1>6
<1>8. Tables(variable_names, string_pool)
  <2>1. variable_names \in Seq({}) /\ string_pool \in Seq({})
    BY <1>1
  <2> QED
    BY <1>4, <1>6, <2>1, TextSizesAssumption, SizesAssumption DEF Tables
<1>9. CompilerInvariant
  BY <1>1, <1>2, <1>7, <1>8 DEF CompilerInvariant
<1>10. StackFits(stack)
  <2>1. <<>> \in Seq(Values({})) /\ Len(<<>>) = 0
    OBVIOUS
  <2> QED
    BY <1>1, <2>1, SizesAssumption DEF StackFits
<1>11. MachineInvariant
  <2>1. vars \in [1 .. MAX_VARS -> Ints]
    BY <1>1, ZeroIsInt
  <2>2. ~Started
    BY <1>1 DEF Started
  <2> QED
    BY <1>10, <2>1, <2>2 DEF MachineInvariant
<1> QED
  BY <1>9, <1>11

(* For every text of a program, every table size and every stack size, whatever the      *)
(* user types: the code compiled so far has all its jumps inside it but those that the   *)
(* blocks and the loops still open will complete, and the machine runs a program without *)
(* any such jump, from its first instruction to its HALT.                                *)
THEOREM InvariantHolds == Spec => []Inv
<1>1. Init => Inv
  BY InitKeeps DEF Inv
<1>2. Inv /\ [Next]_allVars => Inv'
  <2>1. SUFFICES ASSUME Inv, [Next]_allVars PROVE Inv'
    OBVIOUS
  <2>2. CompilerInvariant /\ MachineInvariant
    BY <2>1 DEF Inv
  <2>3. CASE naw_compile
    BY <2>2, <2>3, CompilerKeeps DEF Inv
  <2>4. CASE vm_run
    BY <2>2, <2>4, MachineKeeps DEF Inv
  <2>5. CASE UNCHANGED allVars
    BY <2>2, <2>5, NothingKeeps DEF Inv
  <2> QED
    BY <2>1, <2>3, <2>4, <2>5 DEF Next
<1> QED
  BY <1>1, <1>2, PTL DEF Spec

(* For every text, no entry beyond the loops', the variables' and the strings' tables *)
(* or the stack is used, by naw_compile, by vm_run or through the argument of an      *)
(* instruction.  (The jumps out of one loop are the exception: see `overrun`.)        *)
THEOREM TypesAreKept == Spec => []TypeOK
<1>1. Inv => TypeOK
  <2>1. SUFFICES ASSUME CompilerInvariant, MachineInvariant PROVE TypeOK
    BY DEF Inv
  <2>2. \A b \in Range(blocks) : b.jump \in DOMAIN code /\ b.loop \in 0 .. Len(loop_stack)
    <3>1. Frames(blocks, loop_stack)
      BY CompilerIs, <2>1
    <3>2. /\ blocks \in Seq(Block) /\ Len(loop_stack) \in Nat
          /\ \A x \in 1 .. Len(blocks) : blocks[x].loop <= Len(loop_stack)
      BY <3>1 DEF Frames, Matched
    <3>3. \A x \in 1 .. Len(blocks) : blocks[x].loop \in Nat
      <4>1. \A x \in 1 .. Len(blocks) : blocks[x] \in Block
        BY <3>2
      <4> QED
        BY <4>1 DEF Block
    <3>4. \A x \in 1 .. Len(blocks) : blocks[x].jump \in 1 .. Len(code)
      <4>1. Open(blocks, loop_stack) \subseteq 1 .. Len(code)
        BY <2>1, CompilerIs DEF Sound
      <4>2. \A x \in 1 .. Len(blocks) : blocks[x].jump \in Open(blocks, loop_stack)
        BY Zenon DEF Open, JumpsOf
      <4> QED
        BY <4>1, <4>2, Zenon
    <3>5. DOMAIN code = 1 .. Len(code)
      <4>1. \E A : code \in Seq(Instructions(A))
        BY <2>1, CompilerIs DEF Sound
      <4> QED
        BY <4>1
    <3>6. ASSUME NEW x \in 1 .. Len(blocks)
          PROVE  blocks[x].jump \in DOMAIN code /\ blocks[x].loop \in 0 .. Len(loop_stack)
      BY <3>2, <3>3, <3>4, <3>5
    <3>7. DOMAIN blocks = 1 .. Len(blocks)
      BY <3>2
    <3> QED
      BY <3>6, <3>7, Zenon DEF Range
  <2>3. Len(loop_stack) <= MAX_LOOP_DEPTH
    BY <2>1, CompilerIs DEF Frames
  <2>4. Len(variable_names) <= MAX_VARS /\ Len(string_pool) <= MAX_STRINGS
    BY <2>1, CompilerIs DEF Tables
  <2>5. \A k \in DOMAIN code :
           /\ code[k].op \in VarOps => code[k].arg \in 1 .. Len(variable_names)
           /\ code[k].op = "PUSH_STR" => code[k].arg \in 1 .. Len(string_pool)
    <3>1. \E A : code \in Seq(Instructions(A))
      BY <2>1, CompilerIs DEF Sound
    <3>2. DOMAIN code = 1 .. Len(code)
      BY <3>1
    <3>3. \A k \in 1 .. Len(code) : ArgumentFits(code[k], Len(variable_names), Len(string_pool))
      BY <2>1, CompilerIs DEF Sound
    <3> QED
      BY <3>2, <3>3 DEF ArgumentFits
  <2>6. Len(stack) <= STACK_SIZE /\ vars \in [1 .. MAX_VARS -> Ints]
    BY <2>1 DEF MachineInvariant, StackFits
  <2>7. phase \in {"compile", "overrun", "run", "halted", "error", "trap"} /\ src \in Nat \ {0}
    BY <2>1 DEF CompilerInvariant
  <2> QED
    BY <2>2, <2>3, <2>4, <2>5, <2>6, <2>7 DEF TypeOK
<1> QED
  BY <1>1, InvariantHolds, PTL

(* For every text, however its blocks are nested, broken out of or left open, no jump *)
(* that naw_compile leaves behind leads out of the code, and vm_run, which checks no  *)
(* bound, fetches nothing from outside it.                                            *)
THEOREM MachineStaysInCode == Spec => []StaysInCode
<1>1. Inv => StaysInCode
  <2>1. SUFFICES ASSUME CompilerInvariant, MachineInvariant, Started PROVE
           ip \in DOMAIN code /\ \A k \in Jumps(code) : code[k].arg \in DOMAIN code
    BY DEF Inv, StaysInCode
  <2>2. Ends(code) /\ ip \in 1 .. Len(code)
    BY <2>1 DEF MachineInvariant
  <2>3. DOMAIN code = 1 .. Len(code)
    <3>1. \E A : code \in Seq(Instructions(A))
      BY <2>1, CompilerIs DEF Sound
    <3> QED
      BY <3>1
  <2> QED
    BY <2>2, <2>3 DEF Ends, Jumps, JumpOps
<1> QED
  BY <1>1, InvariantHolds, PTL

(* For every text whose calls have no more arguments than their functions take, the   *)
(* machine's stack is empty whenever it begins a statement, whichever jump led there: *)
(* no loop, however long, fills the stack.                                            *)
THEOREM StackIsEmptyBetween == Spec => []StackEmptyBetween
<1>1. Inv => StackEmptyBetween
  <2>1. SUFFICES ASSUME CompilerInvariant, MachineInvariant, Started,
                        ip = 1 \/ code[ip - 1].item # code[ip].item, Fit
                 PROVE  stack = <<>>
    BY DEF Inv, StackEmptyBetween, Fit
  <2>2. ip \in 1 .. Len(code) /\ Levelled(code, stack, ip)
    BY <2>1 DEF MachineInvariant
  <2>3. PICK d : Levels(code, {}, {}, 0, d) /\ Len(stack) <= d[ip]
    BY <2>2 DEF Levelled
  <2>4. d[ip] = 0
    <3>1. CASE ip = 1
      BY <2>3, <3>1 DEF Levels, Depths
    <3>2. CASE ip # 1
      <4>1. ip > 1
        BY <2>2, <3>2
      <4> QED
        BY <2>1, <2>2, <2>3, <3>2, <4>1 DEF Levels
    <3> QED
      BY <3>1, <3>2
  <2>5. PICK V : stack \in Seq(Values(V))
    BY <2>1 DEF MachineInvariant, StackFits
  <2> QED
    BY <2>3, <2>4, <2>5
<1> QED
  BY <1>1, InvariantHolds, PTL
=============================================================================
