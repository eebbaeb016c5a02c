------------------------------ MODULE MCWopiLock -------------------------------
EXTENDS WopiLock

EditorsAndViewer == [s \in Session |-> IF s = 2 THEN "view" ELSE "edit"]
EditorAndCommenter == [s \in Session |-> IF s = 2 THEN "comment" ELSE "edit"]
=============================================================================
