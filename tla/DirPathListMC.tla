---------------------------- MODULE DirPathListMC ----------------------------
(***************************************************************************)
(* Paths for DirPathList.  46 is '.', 47 is '/', 97 is 'a'.  In file names *)
(* 49 is '1', 111 is 'o', 115 is 's', 120 is 'x'.                          *)
(***************************************************************************)
EXTENDS DirPathList

\* /a  /a/a  /a/.  /a.a  /aa  /aa/a
SomePaths ==
  {<<47, 97>>, <<47, 97, 47, 97>>, <<47, 97, 47, 46>>, <<47, 97, 46, 97>>,
   <<47, 97, 97>>, <<47, 97, 97, 47, 97>>}

\* Every name of up to six of these characters.
SomeNames == UNION {[1 .. n -> {46, 49, 97, 111, 115, 120}] : n \in 1 .. 6}
=============================================================================
