------------------------------ MODULE MCStorage ------------------------------
(* Small instances of Storage.                                               *)
EXTENDS Storage, TLC

CONSTANTS n1, n2, n3, r1, r2, r3

OneFile(v)     == [i \in Parts |-> IF i = 1 THEN v ELSE None]
TwoFiles(v, w) == [i \in Parts |-> IF i = 1 THEN v ELSE IF i = 2 THEN w ELSE None]
Ask(kind, f, file) == [kind |-> kind, folder |-> f, file |-> file]

SlotSymmetry == Permutations(Reqs) \union Permutations(Names)

\* Uploads of one and of two files, of which one may be refused, and every kind
\* of read and removal in the subfolder; the root is listed too.
SomeJobs ==
  { Ask("upload", "sub", OneFile("ok")),
    Ask("upload", "sub", TwoFiles("ok", "type")),
    Ask("upload", "sub", TwoFiles("ok", "ok")),
    Ask("upload", "sub", TwoFiles("ok", "size")),
    Ask("get", "sub", OneFile("ok")),
    Ask("info", "sub", OneFile("ok")),
    Ask("list", "sub", OneFile("ok")),
    Ask("list", "root", OneFile("ok")),
    Ask("delete", "sub", OneFile("ok")),
    Ask("delete", "sub", TwoFiles("ok", "ok")) }
=============================================================================
