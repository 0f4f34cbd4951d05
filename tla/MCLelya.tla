------------------------------- MODULE MCLelya -------------------------------
(* The programs Lelya is checked on: see README.md for what they cover. *)
EXTENDS Lelya

num(n) == <<"num", n>>
var(n) == <<"name", n>>
op(o) == <<"op", o>>

Loop(e) == Item("while", "", e, TRUE)
If(e) == Item("if", "", e, TRUE)
Else == Item("else", "", <<>>, TRUE)
Set(n, e) == Item("assign", n, e, FALSE)
Say(e) == Item("print", "", e, FALSE)
Word(kind) == Item(kind, "", <<>>, FALSE)

less == <<var("x"), op("<"), num(2)>>
more == <<var("x"), op("+"), num(1)>>
increment == Set("x", more)

\* A loop over a simple statement and one that holds at most one more in each block.
Simple == {increment, Say(<<var("x")>>), Word("break"), Word("continue"), Item("read", "x", <<>>, FALSE)}
Small == {<<>>} \cup {<<s>> : s \in Simple}
Branches ==
    {<<s>> : s \in Simple}
    \cup {<<If(less)>> \o b \o <<Closing>> : b \in Small}
    \cup {<<If(less)>> \o b \o <<Closing, Else>> \o c \o <<Closing>> : b \in Small, c \in Small}
    \cup {<<Loop(less)>> \o b \o <<Closing>> : b \in Small}
Nested == {<<Loop(less)>> \o b \o <<s, Closing, Say(<<var("x")>>)>> : b \in Branches, s \in Simple}
          \cup {<<Loop(less), s>> \o b \o <<Closing, Say(<<var("x")>>)>> : b \in Branches, s \in Simple}

\* Every sequence of at most four of these items, braces matching or not, and of at
\* most three with the rarer ones; z is a variable too many.
Items == {increment, Loop(less), If(less), Else, Closing, Word("break"), Word("junk"), Say(<<var("x")>>)}
RareItems == {Item("while", "", less, FALSE), Item("if", "", less, FALSE),
              Item("else", "", <<>>, FALSE), Word("continue"),
              Set("z", <<var("y"), op("-"), num(1), op("-"), var("x")>>)}
Arbitrary == UNION {[1 .. n -> Items] : n \in 0 .. 4}
             \cup UNION {[1 .. n -> Items \cup RareItems] : n \in 1 .. 3}

\* Two and three operands in every grouping, and calls with too few arguments, the
\* right number and too many for any function.
AnyOperand == {num(0), num(2), num(-4), var("x"), <<"str", "s">>}
Number == {num(2), num(-4), var("x")}
Arithmetic == {op("-"), op("*"), op("/")}
Grouped(e) == <<<<"(", "">>>> \o e \o <<<<")", "">>>>
Call(f, n) == <<<<"name", f>>, <<"(", "">>>>
              \o [k \in 1 .. 2 * n - 1 |-> IF k % 2 = 1 THEN <<"text", "a">> ELSE <<",", "">>]
              \o <<<<")", "">>>>
Expressions ==
    {<<a, o, b>> : a \in AnyOperand, o \in Arithmetic \cup {op("<")}, b \in AnyOperand}
    \cup {<<a, o, b, p, c>> : a \in Number, b \in Number, c \in Number,
                              o \in Arithmetic \cup {op("<")}, p \in Arithmetic \cup {op("<")}}
    \cup {Grouped(<<a, o, b>>) \o <<p, c>> : a \in Number, b \in Number, c \in Number,
                              o \in Arithmetic, p \in Arithmetic \cup {op("<")}}
    \cup {<<c, p>> \o Grouped(<<a, o, b>>) : a \in Number, b \in Number, c \in Number,
                              o \in Arithmetic, p \in Arithmetic \cup {op("<")}}
    \cup {Call("math_add", n) : n \in {1, 2, 4}}
    \cup {<<var("x"), op("-")>> \o Call("math_sin", n) : n \in {1, 4}}

MCPrograms == Arbitrary \cup Nested \cup {<<Say(e)>> : e \in Expressions}
=============================================================================
