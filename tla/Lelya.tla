-------------------------------- MODULE Lelya --------------------------------
(***************************************************************************)
(* The Lelya compiler and virtual machine (apps/nawlang/compiler.c, vm.c). *)
(* naw_compile turns the text into instructions one statement at a time,   *)
(* writing the targets of forward jumps when it gets there; vm_run then    *)
(* runs them on a stack.  The nested calls of compile_block are the        *)
(* sequence `blocks` of the blocks open.                                   *)
(*                                                                         *)
(* See LelyaText for the items a text is made of.  Positions in the code *)
(* count from 1.  The field `item` of an instruction is not in the code of *)
(* the program: it remembers which item the instruction was made for.      *)
(***************************************************************************)
EXTENDS LelyaText

CONSTANTS
    MAX_STRINGS,    \* strings in the pool
    MAX_JUMPS,      \* jumps out of one loop the compiler has room for
    STACK_SIZE      \* values on the machine's stack

ASSUME SizesAssumption ==
    MAX_STRINGS \in Nat \ {0} /\ MAX_JUMPS \in Nat \ {0} /\ STACK_SIZE \in Nat \ {0}

VARIABLES
    text,           \* the source, a sequence of items
    shape,          \* its structure; nothing below looks at it
    phase,          \* "compile", "run", "halted", "error", "trap", or "overrun"
    src,            \* the item the compiler is at
    blocks,         \* the blocks open, the innermost last
    loop_stack,     \* the loops open, the innermost last
    code,           \* the instructions so far
    variable_names, string_pool,
    ip, stack, vars,    \* the machine
    shown           \* what it printed last

machine == <<ip, stack, vars, shown>>
allVars == <<text, shape, phase, src, blocks, loop_stack, code, variable_names, string_pool, machine>>

-----------------------------------------------------------------------------
(* Emitting code *)

Tagged(op, arg, i) == [op |-> op, arg |-> arg, item |-> i]
Patch(c, places, target) ==
    [k \in DOMAIN c |-> IF k \in places THEN [c[k] EXCEPT !.arg = target] ELSE c[k]]

\* var_index and add_string: a full table gives its last entry to every new name.
Entered(table, max, ops, instrs) ==
    LET t[k \in 0 .. Len(instrs)] ==
            IF k = 0 THEN table
            ELSE LET before == t[k - 1]
                     name == instrs[k].arg
                 IN  IF instrs[k].op \in ops /\ name \notin Range(before) /\ Len(before) < max
                     THEN Append(before, name)
                     ELSE before
    IN  t[Len(instrs)]
IndexIn(table, n) ==
    IF n \in Range(table) THEN CHOOSE i \in DOMAIN table : table[i] = n ELSE Len(table)

VarOps == {"LOAD_VAR", "STORE_VAR", "READ_INT"}

\* The tables and the code once instrs are emitted.
NamesAfter(instrs) == Entered(variable_names, MAX_VARS, VarOps, instrs)
StringsAfter(instrs) == Entered(string_pool, MAX_STRINGS, {"PUSH_STR"}, instrs)
CodeAfter(instrs) ==
    code \o [k \in DOMAIN instrs |->
        Tagged(instrs[k].op,
               CASE instrs[k].op \in VarOps -> IndexIn(NamesAfter(instrs), instrs[k].arg)
                 [] instrs[k].op = "PUSH_STR" -> IndexIn(StringsAfter(instrs), instrs[k].arg)
                 [] OTHER -> instrs[k].arg,
               src)]
EnterNames(instrs) ==
    /\ variable_names' = NamesAfter(instrs)
    /\ string_pool' = StringsAfter(instrs)

-----------------------------------------------------------------------------
(* The compiler *)

\* A block is [kind, jump, loop]: the place of the jump to complete at its end, and
\* for a `while` the place of its LoopContext in loop_stack.
Compiling == phase = "compile"
AtEnd == src > Len(text)
AtItem(kinds) == Compiling /\ ~AtEnd /\ text[src].kind \in kinds

\* A statement that is its line, and text that is none: an `else` that follows no
\* `if` is skipped to the end of its line.
StatementCode(item) ==
    CASE item.kind = "assign" -> compile_expr(item.expr) \o <<Instr("STORE_VAR", item.name)>>
      [] item.kind = "print"  -> compile_expr(item.expr) \o <<Instr("PRINT", 0)>>
      [] item.kind = "read"   -> <<Instr("READ_INT", item.name)>>
      [] item.kind \in {"junk", "else"} -> <<>>

CompileLine ==
    /\ AtItem({"assign", "print", "read", "junk", "else"})
    /\ \E instrs \in {StatementCode(text[src])} :
           EnterNames(instrs) /\ code' = CodeAfter(instrs)
    /\ src' = src + 1
    /\ UNCHANGED <<text, shape, phase, blocks, loop_stack, machine>>

\* `break` and `continue`; outside loops they are nothing.
CompileLeave(kind, field) ==
    /\ AtItem({kind})
    /\ IF loop_stack = <<>> THEN UNCHANGED <<code, loop_stack, phase>>
       ELSE LET ctx == Last(loop_stack)
            IN  /\ code' = Append(code, Tagged("JMP", IF kind = "break" THEN 0 ELSE ctx.loop_start, src))
                /\ loop_stack' = Append(Front(loop_stack),
                                        [ctx EXCEPT ![field] = Append(@, Len(code) + 1)])
                \* There is room for MAX_JUMPS; one more is written over the count.
                /\ phase' = IF Len(ctx[field]) < MAX_JUMPS THEN phase ELSE "overrun"
    /\ src' = src + 1
    /\ UNCHANGED <<text, shape, blocks, variable_names, string_pool, machine>>

CompileBreak == CompileLeave("break", "break_jumps")
CompileContinue == CompileLeave("continue", "continue_jumps")

(***************************************************************************)
(* The end of the block of an `if`: c is the code with that block, jump    *)
(* the place of its JMP_IF_FALSE, i the item that follows.                 *)
(***************************************************************************)
AfterThen(c, jump, i, outer) ==
    LET joined == i <= Len(text) /\ text[i].kind = "else"
        jmp_end == Len(c) + 1
        skipping == Patch(Append(c, Tagged("JMP", 0, i)), {jump}, jmp_end + 1)
    IN  IF joined /\ text[i].block
        THEN /\ code' = skipping
             /\ blocks' = Append(outer, [kind |-> "else", jump |-> jmp_end, loop |-> 0])
             /\ src' = i + 1
        ELSE /\ code' = IF joined THEN Patch(skipping, {jmp_end}, jmp_end + 1)
                        ELSE Patch(c, {jump}, jmp_end)
             /\ blocks' = outer
             /\ src' = IF joined THEN i + 1 ELSE i

compile_if ==
    /\ AtItem({"if"})
    /\ \E instrs \in {compile_expr(text[src].expr)} :
       \E c \in {Append(CodeAfter(instrs), Tagged("JMP_IF_FALSE", 0, src))} :
       LET jmp_false == Len(code) + Len(instrs) + 1
       IN  /\ EnterNames(instrs)
           /\ IF text[src].block
              THEN /\ code' = c
                   /\ blocks' = Append(blocks, [kind |-> "if", jump |-> jmp_false, loop |-> 0])
                   /\ src' = src + 1
              ELSE AfterThen(c, jmp_false, src + 1, blocks)
    /\ UNCHANGED <<text, shape, phase, loop_stack, machine>>

\* Variant: the depth of the loops is not looked at.
compile_while_unchecked ==
    /\ AtItem({"while"})
    /\ \E instrs \in {compile_expr(text[src].expr)} :
           /\ EnterNames(instrs)
           /\ code' = Append(CodeAfter(instrs), Tagged("JMP_IF_FALSE", 0, src))
           /\ blocks' = Append(blocks, [kind |-> "while", jump |-> Len(code) + Len(instrs) + 1,
                                        loop |-> Len(loop_stack) + 1])
           /\ loop_stack' = Append(loop_stack, [loop_start |-> Len(code) + 1,
                                        break_jumps |-> <<>>, continue_jumps |-> <<>>])
    /\ src' = src + 1
    /\ UNCHANGED <<text, shape, phase, machine>>

compile_while ==
    /\ AtItem({"while"})
    /\ Len(loop_stack) < MAX_LOOP_DEPTH
    /\ \E instrs \in {compile_expr(text[src].expr)} :
       \E c \in {Append(CodeAfter(instrs), Tagged("JMP_IF_FALSE", 0, src))} :
       LET start == Len(code) + 1
           jmp_exit == Len(code) + Len(instrs) + 1
       IN  /\ EnterNames(instrs)
           /\ IF text[src].block
              THEN /\ code' = c
                   /\ blocks' = Append(blocks, [kind |-> "while", jump |-> jmp_exit,
                                                loop |-> Len(loop_stack) + 1])
                   /\ loop_stack' = Append(loop_stack,
                          [loop_start |-> start, break_jumps |-> <<>>, continue_jumps |-> <<>>])
              ELSE /\ code' = Patch(Append(c, Tagged("JMP", start, src)), {jmp_exit}, jmp_exit + 2)
                   /\ UNCHANGED <<blocks, loop_stack>>
    /\ src' = src + 1
    /\ UNCHANGED <<text, shape, phase, machine>>

\* Variant: the compiler stays at the header.
SkipDeepLoop_in_place ==
    /\ AtItem({"while"})
    /\ Len(loop_stack) >= MAX_LOOP_DEPTH
    /\ UNCHANGED allVars

\* The header of a loop too deep is skipped, with the brace on its line.
SkipDeepLoop ==
    /\ AtItem({"while"})
    /\ Len(loop_stack) >= MAX_LOOP_DEPTH
    /\ src' = src + 1
    /\ UNCHANGED <<text, shape, phase, blocks, loop_stack, code, variable_names, string_pool, machine>>

\* A block ends at its brace or at the end of the text.
EndOfBlock == blocks # <<>> /\ (AtItem({"}"}) \/ (Compiling /\ AtEnd))

\* Variant: a `break` leads to the jump back instead of past it.
EndWhile_short ==
    /\ EndOfBlock /\ Last(blocks).kind = "while"
    /\ LET ctx == loop_stack[Last(blocks).loop]
           looping == Append(code, Tagged("JMP", ctx.loop_start, src))
           leaving == Patch(looping, {Last(blocks).jump}, Len(looping) + 1)
       IN  code' = Patch(leaving, Range(ctx.break_jumps), Len(looping))
    /\ loop_stack' = Front(loop_stack)
    /\ blocks' = Front(blocks)
    /\ src' = src + 1
    /\ UNCHANGED <<text, shape, phase, variable_names, string_pool, machine>>

EndWhile ==
    /\ EndOfBlock /\ Last(blocks).kind = "while"
    /\ LET ctx == loop_stack[Last(blocks).loop]
           looping == Append(code, Tagged("JMP", ctx.loop_start, src))
           leaving == Patch(looping, Range(ctx.break_jumps) \cup {Last(blocks).jump}, Len(looping) + 1)
       IN  code' = Patch(leaving, Range(ctx.continue_jumps), ctx.loop_start)
    /\ loop_stack' = Front(loop_stack)
    /\ blocks' = Front(blocks)
    /\ src' = src + 1
    /\ UNCHANGED <<text, shape, phase, variable_names, string_pool, machine>>

EndThen ==
    /\ EndOfBlock /\ Last(blocks).kind = "if"
    /\ AfterThen(code, Last(blocks).jump, src + 1, Front(blocks))
    /\ UNCHANGED <<text, shape, phase, loop_stack, variable_names, string_pool, machine>>

\* Variant: the jump over the `else` is not completed.
EndElse_open ==
    /\ EndOfBlock /\ Last(blocks).kind = "else"
    /\ blocks' = Front(blocks)
    /\ src' = src + 1
    /\ UNCHANGED <<text, shape, phase, loop_stack, code, variable_names, string_pool, machine>>

EndElse ==
    /\ EndOfBlock /\ Last(blocks).kind = "else"
    /\ code' = Patch(code, {Last(blocks).jump}, Len(code) + 1)
    /\ blocks' = Front(blocks)
    /\ src' = src + 1
    /\ UNCHANGED <<text, shape, phase, loop_stack, variable_names, string_pool, machine>>

\* compile_statement returns at a brace without passing it, and naw_compile calls
\* it again: nothing changes any more.
StrayBrace ==
    /\ AtItem({"}"}) /\ blocks = <<>>
    /\ UNCHANGED allVars

\* The last instruction, and the start of vm_run.
FinishCompile ==
    /\ Compiling /\ AtEnd /\ blocks = <<>>
    /\ code' = Append(code, Tagged("HALT", 0, src))
    /\ phase' = "run"
    /\ ip' = 1
    /\ stack' = <<>>
    /\ vars' = [v \in 1 .. MAX_VARS |-> 0]
    /\ UNCHANGED <<text, shape, src, blocks, loop_stack, variable_names, string_pool, shown>>

naw_compile ==
    \/ CompileLine
    \/ CompileBreak
    \/ CompileContinue
    \/ compile_if
    \/ compile_while
    \/ SkipDeepLoop
    \/ EndWhile
    \/ EndThen
    \/ EndElse
    \/ StrayBrace
    \/ FinishCompile

-----------------------------------------------------------------------------
(* The machine *)

program == <<text, shape, src, blocks, loop_stack, code, variable_names, string_pool>>
in == code[ip]
Running(ops) == phase = "run" /\ in.op \in ops

Top(n) == stack[Len(stack) + 1 - n]
IsInt(n) == Len(stack) >= n /\ Top(n).type = "int"
Dropping(n) == SubSeq(stack, 1, Len(stack) - n)

\* A push on a full stack prints a message and is dropped.
Pushed(s, v) == IF Len(s) < STACK_SIZE THEN Append(s, v) ELSE s
StepTo(s, target) == stack' = s /\ ip' = target /\ UNCHANGED <<phase, program>>
Abort(how) == phase' = how /\ UNCHANGED <<program, machine>>

Push ==
    /\ Running({"PUSH_INT", "PUSH_STR", "LOAD_VAR"})
    /\ StepTo(Pushed(stack, CASE in.op = "PUSH_INT" -> IntValue(in.arg)
                              [] in.op = "PUSH_STR" -> StrValue(<<string_pool[in.arg]>>)
                              [] in.op = "LOAD_VAR" -> IntValue(vars[in.arg])),
              ip + 1)
    /\ UNCHANGED <<vars, shown>>

Store ==
    /\ Running({"STORE_VAR"})
    /\ IF IsInt(1) THEN /\ vars' = [vars EXCEPT ![in.arg] = Top(1).int_value]
                        /\ StepTo(Dropping(1), ip + 1)
                        /\ UNCHANGED shown
       ELSE Abort("error")

Binary ==
    /\ Running(AllOperators)
    /\ LET v == IF Len(stack) < 2 THEN Stops("error") ELSE Apply(in.op, Top(2), Top(1))
       IN  IF v.type = "int" THEN StepTo(Append(Dropping(2), v), ip + 1) /\ UNCHANGED <<vars, shown>>
           ELSE Abort(v.type)

Jump ==
    /\ Running({"JMP"})
    /\ StepTo(stack, in.arg)
    /\ UNCHANGED <<vars, shown>>

\* Variant: the condition is left on the stack.
JumpIfFalse_peeking ==
    /\ Running({"JMP_IF_FALSE"})
    /\ IF IsInt(1) THEN /\ StepTo(stack, IF Top(1).int_value = 0 THEN in.arg ELSE ip + 1)
                        /\ UNCHANGED <<vars, shown>>
       ELSE Abort("error")

JumpIfFalse ==
    /\ Running({"JMP_IF_FALSE"})
    /\ IF IsInt(1) THEN /\ StepTo(Dropping(1), IF Top(1).int_value = 0 THEN in.arg ELSE ip + 1)
                        /\ UNCHANGED <<vars, shown>>
       ELSE Abort("error")

NativeCall ==
    /\ Running({"NATIVE_CALL"})
    /\ LET argc == MathArity[in.arg]
           args == [k \in 1 .. argc |-> Top(argc + 1 - k).str_value]
       IN  IF Len(stack) < argc \/ \E k \in 1 .. argc : Top(k).type # "str" THEN Abort("error")
           ELSE /\ StepTo(Pushed(Dropping(argc), StrValue(<<in.arg>> \o FlattenSeq(args))), ip + 1)
                /\ UNCHANGED <<vars, shown>>

Show ==
    /\ Running({"PRINT"})
    /\ IF stack = <<>> THEN Abort("error")
       ELSE shown' = Top(1) /\ StepTo(Dropping(1), ip + 1) /\ UNCHANGED vars

ReadInt ==
    /\ Running({"READ_INT"})
    /\ \E n \in Inputs : vars' = [vars EXCEPT ![in.arg] = n]
    /\ StepTo(stack, ip + 1)
    /\ UNCHANGED shown

Halt == Running({"HALT"}) /\ Abort("halted")

vm_run == Push \/ Store \/ Binary \/ Jump \/ JumpIfFalse \/ NativeCall \/ Show \/ ReadInt \/ Halt

-----------------------------------------------------------------------------

Init ==
    /\ text \in Programs /\ shape = StructureOf(text)
    /\ phase = "compile"
    /\ src = 1
    /\ blocks = <<>> /\ loop_stack = <<>>
    /\ code = <<>> /\ variable_names = <<>> /\ string_pool = <<>>
    /\ ip = 1 /\ stack = <<>>
    /\ vars = [v \in 1 .. MAX_VARS |-> 0]
    /\ shown = <<>>

Next == naw_compile \/ vm_run

Spec == Init /\ [][Next]_allVars

\* The compiler and the machine run in the handler of the keyboard interrupt, and
\* nothing interrupts them.
FairSpec == Spec /\ WF_allVars(naw_compile) /\ WF_allVars(vm_run)

-----------------------------------------------------------------------------
(* Properties *)

Jumps(c) == {k \in DOMAIN c : c[k].op \in {"JMP", "JMP_IF_FALSE"}}
Started == phase \notin {"compile", "overrun"}

(***************************************************************************)
(* Type invariant: the compiler's and the machine's arrays are never       *)
(* indexed outside their bounds.                                           *)
(***************************************************************************)
TypeOK ==
    /\ phase \in {"compile", "overrun", "run", "halted", "error", "trap"}
    /\ src \in Nat \ {0}
    /\ \A b \in Range(blocks) : b.jump \in DOMAIN code /\ b.loop \in 0 .. Len(loop_stack)
    /\ Len(loop_stack) <= MAX_LOOP_DEPTH
    /\ Len(variable_names) <= MAX_VARS /\ Len(string_pool) <= MAX_STRINGS
    /\ \A k \in DOMAIN code :
           /\ code[k].op \in VarOps => code[k].arg \in 1 .. Len(variable_names)
           /\ code[k].op = "PUSH_STR" => code[k].arg \in 1 .. Len(string_pool)
    /\ Len(stack) <= STACK_SIZE
    /\ vars \in [1 .. MAX_VARS -> Ints]

(***************************************************************************)
(* Every jump that naw_compile leaves behind was completed, and leads into *)
(* the code; vm_run, which checks no bound, never fetches an instruction   *)
(* from outside it.                                                        *)
(***************************************************************************)
StaysInCode ==
    Started => /\ ip \in DOMAIN code
               /\ \A k \in Jumps(code) : code[k].arg \in DOMAIN code

(***************************************************************************)
(* The machine's stack is empty whenever it begins an item: no statement   *)
(* leaves anything on it, whichever way control came, if the calls in the  *)
(* text have no more arguments than they take.  So its 256 entries         *)
(* suffice, however long a loop runs.                                      *)
(***************************************************************************)
StackEmptyBetween ==
    /\ Started /\ (ip = 1 \/ code[ip - 1].item # code[ip].item)
    /\ \A i \in DOMAIN text : CallsFit(text[i].expr)
    => stack = <<>>

(***************************************************************************)
(* The interrupt handler that compiles a program comes out of the compiler *)
(* when every brace of the program closes a block.                         *)
(***************************************************************************)
CompileEnds == shape.balanced ~> phase # "compile"

(***************************************************************************)
(* What the machine does is what the text says, statement by statement.    *)
(***************************************************************************)
Source == INSTANCE LelyaSource WITH
    status <- IF Started THEN IF phase = "run" THEN "running" ELSE phase ELSE "idle",
    at <- IF Started THEN shape.land[code[ip].item] ELSE 0
ImplementsSource == Source!SourceSpec
=============================================================================
