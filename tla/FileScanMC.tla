----------------------------- MODULE FileScanMC -----------------------------
(***************************************************************************)
(* Small file systems for FileScan.                                        *)
(***************************************************************************)
EXTENDS FileScan

CONSTANTS root, a, b, c, m,         \* directories
          top, usr, doc, mnt,       \* their names
          lib, txt                  \* file names

AllDirs == {root, a, b, c, m}

\* b and c may be called the same in different places.
Names == (root :> top) @@ (a :> usr) @@ (b :> doc) @@ (c :> doc) @@ (m :> mnt)

Files == (root :> {}) @@ (a :> {txt}) @@ (b :> {lib}) @@ (c :> {lib}) @@ (m :> {lib})

DocOfUsr == {<<top, usr, doc>>}
=============================================================================
