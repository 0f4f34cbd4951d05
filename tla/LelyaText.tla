------------------------------ MODULE LelyaText ------------------------------
(***************************************************************************)
(* A Lelya program as the sequence of the items it is made of, its block   *)
(* structure, and the value of an expression.  An item is                  *)
(* - a simple statement with the rest of its line, which is skipped;       *)
(* - the header of an `if` or a `while`: an `if` up to its first closing   *)
(*   parenthesis, a `while` up to the one that ends its condition, and the *)
(*   brace that follows, if one does;                                      *)
(* - an `else`, with the brace that follows, if one does;                  *)
(* - a closing brace;                                                      *)
(* - a line that is no statement.                                          *)
(* Spaces and newlines matter to nothing else.  Names stand for their      *)
(* first 15 characters.                                                    *)
(***************************************************************************)
EXTENDS LelyaExpr, FiniteSetsExt, SequencesExt

CONSTANTS
    Programs,       \* the texts of programs
    Inputs,         \* the numbers a user types
    MAX_LOOP_DEPTH, \* a `while` inside this many others is not one
    MAX_VARS        \* there are this many variables

ASSUME TextSizesAssumption == MAX_LOOP_DEPTH \in Nat \ {0} /\ MAX_VARS \in Nat \ {0}

ASSUME InputsAssumption == Inputs \subseteq Ints

\* A text is a sequence of items, and a number in it one the machine can hold.
ASSUME ProgramsAssumption ==
    \A t \in Programs :
        /\ t \in Seq(Range(t))
        /\ \A i \in DOMAIN t :
              /\ t[i].expr \in Seq(Range(t[i].expr))
              /\ \A k \in DOMAIN t[i].expr : t[i].expr[k][1] = "num" => t[i].expr[k][2] \in Ints

Item(kind, name, expr, block) == [kind |-> kind, name |-> name, expr |-> expr, block |-> block]
Closing == Item("}", "", <<>>, FALSE)

-----------------------------------------------------------------------------
(* The structure of a text *)

(***************************************************************************)
(* For every item of t and the place after it: the headers whose blocks    *)
(* are open there, the outermost first, and whether an `else` there would  *)
(* belong to an `if` that has just ended.                                  *)
(***************************************************************************)
Openings(t) ==
    LET depth(open) == Cardinality({k \in DOMAIN open : t[open[k]].kind = "while"})
        scan[i \in 1 .. Len(t) + 1] ==
            IF i = 1 THEN [open |-> <<>>, joins |-> FALSE]
            ELSE LET before == scan[i - 1]
                     item == t[i - 1]
                     opens == item.block /\
                        \/ item.kind = "if"
                        \/ item.kind = "while" /\ depth(before.open) < MAX_LOOP_DEPTH
                        \/ item.kind = "else" /\ before.joins
                     closes == item.kind = "}" /\ before.open # <<>>
                 IN  [open |-> IF opens THEN Append(before.open, i - 1)
                               ELSE IF closes THEN SubSeq(before.open, 1, Len(before.open) - 1)
                               ELSE before.open,
                      joins |-> \/ item.kind = "if" /\ ~item.block
                                \/ closes /\ t[before.open[Len(before.open)]].kind = "if"]
    IN  scan

\* The end of the text closes the blocks still open.
Complete(t) == t \o [k \in 1 .. Len(Openings(t)[Len(t) + 1].open) |-> Closing]

\* The variables item it uses, in the order it uses them.
NamesOf(it) ==
    SelectSeq([k \in DOMAIN it.expr |->
                 IF it.expr[k][1] = "name" /\ ~IsCall(it.expr, k) THEN it.expr[k][2] ELSE ""]
              \o <<it.name>>, LAMBDA n : n # "")

(***************************************************************************)
(* The structure of t.  loop[i] is the loop around item i, or 0; close[i]  *)
(* the brace that closes the block of header i; land[i] the item that acts *)
(* when control comes to item i: a brace leads back to its `while` or on,  *)
(* an `else` met from above leads past its block, and text that is no      *)
(* statement, or is a `break` outside loops, leads on.  cell[n] is the     *)
(* variable name n stands for: names beyond MAX_VARS share the last one.   *)
(***************************************************************************)
StructureOf(t) ==
    LET c == Complete(t)
        openings == Openings(c)
        opener(i) == LET open == openings[i].open IN IF open = <<>> THEN 0 ELSE open[Len(open)]
        loops(i) == {k \in Range(openings[i].open) : c[k].kind = "while"}
        closes(j, i) == c[j].kind = "}" /\ opener(j) = i
        close == [i \in DOMAIN c |-> CHOOSE j \in i .. Len(c) :
                     IF \E k \in i .. Len(c) : closes(k, i) THEN closes(j, i) ELSE j = i]
        acts == {i \in DOMAIN c :
                   \/ c[i].kind \in {"assign", "print", "read", "if"}
                   \/ c[i].kind \in {"break", "continue"} /\ loops(i) # {}
                   \/ c[i].kind = "while" /\ Cardinality(loops(i)) < MAX_LOOP_DEPTH}
        land[i \in 1 .. Len(c) + 1] ==
            IF i = Len(c) + 1 \/ i \in acts THEN i
            ELSE IF \E h \in loops(i) : closes(i, h) THEN opener(i)
            ELSE IF c[i].kind = "else" /\ openings[i].joins THEN land[close[i] + 1]
            ELSE land[i + 1]
        names == FlattenSeq([i \in DOMAIN c |-> IF i \in acts THEN NamesOf(c[i]) ELSE <<>>])
        first(n) == Min({k \in DOMAIN names : names[k] = n})
        rank(n) == Cardinality({names[k] : k \in 1 .. first(n)})
    IN  [items |-> c,
         joins |-> [i \in DOMAIN openings |-> openings[i].joins],
         loop |-> [i \in DOMAIN c |-> Max({0} \cup loops(i))],
         close |-> close,
         land |-> land,
         cell |-> [n \in Range(names) |-> Min({rank(n), MAX_VARS})],
         balanced |-> \A j \in DOMAIN c : c[j].kind = "}" => opener(j) # 0]

-----------------------------------------------------------------------------
(* The value of an expression *)

(***************************************************************************)
(* value[i, j, level] is the value of tokens i to j of e: the last         *)
(* operator of the loosest level outside parentheses splits them in two.   *)
(* Parentheses hold no comparison.  A call with too few arguments fails, a *)
(* list of more than three reads as 0, and a list longer than the function *)
(* takes is not part of the language.                                      *)
(***************************************************************************)
Value(e, variable(_)) ==
    LET nested(i, k) == Cardinality({m \in i .. k : e[m][1] = "("})
                            # Cardinality({m \in i .. k : e[m][1] = ")"})
        splits(i, j, level) == {k \in i + 1 .. j - 1 :
            e[k][1] = "op" /\ e[k][2] \in Operators[level] /\ ~nested(i, k)}
        texts(i, j) == SelectSeq(SubSeq(e, i + 2, j - 1), LAMBDA token : token[1] = "text")
        \* Tokens i to j read f ( text , text , ... )
        call(i, j) == /\ IsCall(e, i) /\ j > i + 1 /\ e[j][1] = ")"
                      /\ \A k \in i + 2 .. j - 1 :
                            e[k][1] = IF (k - i) % 2 = 0 THEN "text" ELSE ","
                      /\ (j - i) % 2 = 1 \/ j = i + 2
        value[i \in 1 .. Len(e) + 1, j \in 0 .. Len(e), level \in 0 .. 3] ==
            IF i > j THEN Stops("malformed")
            ELSE IF level > 0
            THEN IF splits(i, j, level) = {} THEN value[i, j, level - 1]
                 ELSE LET k == Max(splits(i, j, level))
                          left == value[i, k - 1, level]
                          right == value[k + 1, j, level - 1]
                          failures == {v \in {left, right} : v.type \notin {"int", "str"}}
                      IN  IF failures = {} THEN Apply(e[k][2], left, right)
                          ELSE IF Stops("malformed") \in failures THEN Stops("malformed")
                          ELSE IF left \in failures THEN left ELSE right
            ELSE IF e[i][1] = "(" /\ e[j][1] = ")" THEN value[i + 1, j - 1, 2]
            ELSE IF call(i, j)
            THEN IF Len(texts(i, j)) < MathArity[e[i][2]] THEN Stops("error")
                 ELSE IF Len(texts(i, j)) > MAX_NATIVE_ARGS /\ j = Len(e) THEN IntValue(0)
                 ELSE IF Len(texts(i, j)) > MathArity[e[i][2]] THEN Stops("malformed")
                 ELSE StrValue(<<e[i][2]>> \o [k \in DOMAIN texts(i, j) |-> texts(i, j)[k][2]])
            ELSE IF i < j THEN Stops("malformed")
            ELSE CASE e[i][1] = "num"  -> IntValue(e[i][2])
                   [] e[i][1] = "str"  -> StrValue(<<e[i][2]>>)
                   [] e[i][1] = "name" -> IntValue(variable(e[i][2]))
                   [] OTHER -> Stops("malformed")
    IN  value[1, Len(e), 3]
=============================================================================
