----------------------------- MODULE LelyaSource -----------------------------
(***************************************************************************)
(* What a Lelya program means to the person who wrote it: control moves    *)
(* from statement to statement of the text, blocks are what stands between *)
(* matching braces, and an expression has the value its operators say.     *)
(* There is no code, no jump and no stack here.                            *)
(***************************************************************************)
EXTENDS LelyaText

VARIABLES
    text,       \* the program
    shape,      \* its structure
    status,     \* "idle", "running", "halted", "error" or "trap"
    at,         \* the item control is at
    vars,       \* the variables
    shown       \* what was printed last

sourceVars == <<text, shape, status, at, vars, shown>>

-----------------------------------------------------------------------------
(* Running the program *)

ValueNow == Value(IF at \in DOMAIN shape.items THEN shape.items[at].expr ELSE <<>>,
                  LAMBDA n : vars[shape.cell[n]])

SourceInit ==
    /\ text \in Programs /\ shape = StructureOf(text)
    /\ status = "idle"
    /\ at = 0
    /\ vars = [v \in 1 .. MAX_VARS |-> 0]
    /\ shown = <<>>

\* A text with a brace too many is never run.
Start ==
    /\ status = "idle"
    /\ shape.balanced
    /\ status' = "running"
    /\ at' = shape.land[1]
    /\ UNCHANGED <<text, shape, vars, shown>>

GoTo(i) == at' = shape.land[i] /\ UNCHANGED <<text, shape, status>>

At(kinds) ==
    /\ status = "running"
    /\ at \in DOMAIN shape.items
    /\ shape.items[at].kind \in kinds

Assign(v) ==
    /\ At({"assign"}) /\ v.type = "int"
    /\ vars' = [vars EXCEPT ![shape.cell[shape.items[at].name]] = v.int_value]
    /\ GoTo(at + 1)
    /\ UNCHANGED shown

Show(v) ==
    /\ At({"print"}) /\ v.type \in {"int", "str"}
    /\ shown' = v
    /\ GoTo(at + 1)
    /\ UNCHANGED vars

Read(n) ==
    /\ At({"read"})
    /\ vars' = [vars EXCEPT ![shape.cell[shape.items[at].name]] = n]
    /\ GoTo(at + 1)
    /\ UNCHANGED shown

Leave ==
    /\ \/ At({"break"}) /\ GoTo(shape.close[shape.loop[at]] + 1)
       \/ At({"continue"}) /\ GoTo(shape.loop[at])
    /\ UNCHANGED <<vars, shown>>

\* A header whose condition holds leads into its block; a `while` without a block
\* leads back to itself.  One whose condition fails leads past the block, and an
\* `if` then into the block of its `else`.
Test(v) ==
    LET past == shape.close[at] + 1
        loops == shape.items[at].kind = "while" /\ shape.close[at] = at
    IN  /\ At({"if", "while"}) /\ v.type = "int"
        /\ GoTo(IF v.int_value # 0 THEN IF loops THEN at ELSE at + 1
                ELSE IF /\ shape.items[at].kind = "if" /\ past \in DOMAIN shape.items
                        /\ shape.items[past].kind = "else"
                     THEN past + 1 ELSE past)
        /\ UNCHANGED <<vars, shown>>

End ==
    /\ status = "running"
    /\ at = Len(shape.items) + 1
    /\ status' = "halted"
    /\ UNCHANGED <<text, shape, at, vars, shown>>

\* Only a printed value may be a string, and only a condition or an assignment
\* needs its expression to have a number.
Fail(v) ==
    /\ At({"assign", "print", "if", "while"})
    /\ v.type \notin (IF At({"print"}) THEN {"int", "str"} ELSE {"int"})
    /\ status' = IF v.type = "trap" THEN "trap" ELSE "error"
    /\ UNCHANGED <<text, shape, at, vars, shown>>

SourceNext ==
    \/ Start
    \/ \E v \in {ValueNow} : Assign(v) \/ Show(v) \/ Test(v) \/ Fail(v)
    \/ \E n \in Inputs : Read(n)
    \/ Leave
    \/ End

SourceSpec == SourceInit /\ [][SourceNext]_sourceVars
=============================================================================
