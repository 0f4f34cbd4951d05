------------------------------ MODULE FileStore ------------------------------
(***************************************************************************)
(* What the shell and the editor may rely on when they call NawFS: a map   *)
(* from file names to texts that survives power loss.  One operation runs  *)
(* at a time.  An operation changes only the file it names; while it runs, *)
(* or if the power fails before it returns, that file may be found in any  *)
(* of the listed intermediate conditions; when it returns with success the *)
(* file is in its final condition.                                         *)
(*                                                                         *)
(* The weak points of the promise are deliberate, they are those of the    *)
(* code: a write is not atomic (a reader after a power loss may find the   *)
(* new text cut short), a delete may leave an empty file behind, and the   *)
(* formatting of an unrecognised disk says nothing about earlier contents. *)
(***************************************************************************)
EXTENDS Naturals

CONSTANTS
    Names,      \* file names, extension included
    Contents,   \* what a file can hold
    Blank,      \* the empty content
    Absent,     \* there is no such file
    Prefixes(_), \* the contents a text can be cut down to, itself included
    Stored(_)   \* the content a text is stored as

VARIABLES
    files,      \* name -> what a reader finds after a restart, now
    op,         \* the operation in progress or the last one: kind, name, text
    reply       \* "none", "busy", "ok" or "error"

storeVars == <<files, op, reply>>

NoCall == "none"
Kinds == {"create", "write", "delete"}
Views == Contents \cup {Absent}

(***************************************************************************)
(* The conditions operation o may leave its file in before it returns, and *)
(* the ones it returns success with, given the condition v it finds.       *)
(***************************************************************************)
During(o, v) ==
    CASE o.kind = "create" -> {v, Blank}
      [] o.kind = "write"  -> {v} \cup Prefixes(o.text)
      [] o.kind = "delete" -> {v, Blank, Absent}

After(o) ==
    CASE o.kind = "create" -> {Blank}
      [] o.kind = "write"  -> {Stored(o.text)}
      [] o.kind = "delete" -> {Blank, Absent}

\* A call may only be refused for a reason the caller can see: creating may also
\* fail because the store is full.
Refusable(o) ==
    CASE o.kind = "create" -> TRUE
      [] o.kind \in {"write", "delete"} -> files[o.name] = Absent

\* File n comes into one of those conditions, every other file stays as it was.
OnlyChanges(n, conditions) ==
    /\ files'[n] \in conditions
    /\ \A m \in Names \ {n} : files'[m] = files[m]

Idle == reply \in {"none", "ok", "error"}

-----------------------------------------------------------------------------

StoreInit ==
    /\ files = [n \in Names |-> Absent]
    /\ op.kind = NoCall
    /\ reply = "none"

\* An operation starts and may at once touch its own file.
Call ==
    /\ Idle
    /\ op.kind # "format"
    /\ reply' = "busy"
    /\ op'.kind \in Kinds
    /\ op'.name \in Names
    /\ OnlyChanges(op'.name, During(op', files[op'.name]))

Advance ==
    /\ reply = "busy"
    /\ OnlyChanges(op.name, During(op, files[op.name]))
    /\ UNCHANGED <<op, reply>>

Return ==
    /\ reply = "busy"
    /\ reply' = "ok"
    /\ OnlyChanges(op.name, After(op))
    /\ UNCHANGED op

Refuse ==
    /\ Idle
    /\ op.kind # "format"
    /\ reply' = "error"
    /\ op'.kind \in Kinds
    /\ op'.name \in Names => Refusable(op')
    /\ UNCHANGED files

\* An unrecognised disk is formatted while booting: nothing is promised of what
\* was on it.
FormatStep ==
    /\ reply = "none"
    /\ op.kind = NoCall \/ op.kind = "format"
    /\ op'.kind \in {NoCall, "format"}
    /\ op.kind = "format" \/ op'.kind = "format"
    /\ files' \in [Names -> Views]
    /\ reply' = "none"

PowerFails ==
    /\ op'.kind = NoCall
    /\ reply' = "none"
    /\ UNCHANGED files

StoreNext ==
    \/ Call \/ Advance \/ Return \/ Refuse
    \/ FormatStep
    \/ PowerFails

StoreSpec == StoreInit /\ [][StoreNext]_storeVars
=============================================================================
