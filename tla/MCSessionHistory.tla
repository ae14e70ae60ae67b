--------------------------- MODULE MCSessionHistory ---------------------------
(***************************************************************************)
(* Instances of SessionHistory for TLC.                                    *)
(***************************************************************************)
EXTENDS SessionHistoryProperties

CONSTANTS home, work, x, v, w

(* The runtimes of the adapters (request.rs 15-47): codex and dsh keep     *)
(* nothing, claude the directory; a persistent shell keeps everything.     *)
RequestOnly == [cwd |-> FALSE, variable |-> FALSE, function |-> FALSE]
CwdPersistent == [cwd |-> TRUE, variable |-> FALSE, function |-> FALSE]
PersistentShell == [cwd |-> TRUE, variable |-> TRUE, function |-> TRUE]

Nothing == [changes |-> <<>>, exit |-> NoPath, cd |-> FALSE]
ChangeDirectory == [changes |-> <<>>, exit |-> work, cd |-> TRUE]
ChangeSomewhere == [changes |-> <<>>, exit |-> NoPath, cd |-> TRUE]
Define == [Nothing EXCEPT !.changes = <<Bind("function", x, v)>>]
Redefine == [Nothing EXCEPT !.changes = <<Bind("function", x, v), Bind("function", x, w)>>]
DefineAndChange == [Define EXCEPT !.exit = work, !.cd = TRUE]
AssignAndForget ==
  [Nothing EXCEPT !.changes = <<Bind("variable", x, v), Unbind("variable", x)>>]

In(directory, variable, function) ==
  [cwd |-> directory, known |-> TRUE,
   values |-> [k \in Kind |-> [n \in Name |-> IF k = "variable" THEN variable ELSE function]]]
Unknown(directory) == [In(directory, Unset, Unset) EXCEPT !.known = FALSE]

ShellCommands == {DefineAndChange, AssignAndForget}
ShellReports == {In(home, Unset, v), In(work, w, Unset)}
ClientDeltas == {<<Bind("function", x, w)>>,
                 <<SetCwd(work, "runtime"), Unbind("function", x)>>}
NoDeltas == {}
FunctionCommands == {Define, Redefine}
DirectoryCommands == {Nothing, ChangeDirectory, ChangeSomewhere}
DirectoryReports == {Unknown(home), Unknown(work)}
===============================================================================
