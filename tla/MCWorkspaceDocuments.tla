------------------------ MODULE MCWorkspaceDocuments ------------------------
(* An instance of WorkspaceDocuments for TLC: a Python file with a C file of  *)
(* its own, and one opened as Python whose default destination is itself.     *)
EXTENDS WorkspaceDocuments

TwoPaths  == {"a.py", "b.c"}
TwoCFiles == {"a.c", "b.c"}
WithSuffixC == [p \in TwoPaths |-> IF p = "b.c" THEN "b.c" ELSE "a.c"]

(* Nothing reads the files that are not opened as Python, and no property of  *)
(* the run depends on what they hold.                                         *)
PythonFiles == [p \in Paths |-> files[p]]
WithoutCFiles ==
    <<bundleVars, linkVars, PythonFiles, documentSequence, revision, result>>
=============================================================================
