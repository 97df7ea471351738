------------------------------ MODULE FileNames ------------------------------
(***************************************************************************)
(* Which files the scan takes for libraries and object files: the          *)
(* extensions of a file name (FSHelper, FSScanner).  A name is a sequence  *)
(* of character codes.                                                     *)
(***************************************************************************)
EXTENDS Integers, SequencesExt

CONSTANT FileNames    \* the file names that occur

ASSUME NamesAssumption == FileNames \subseteq Seq(Nat)

VARIABLES
  filename,  \* the file name the scan asked about last, <<>> before the first
  tracked    \* and what was answered

nameVars == <<filename, tracked>>

Dot == 46
Digits == 48 .. 57

\* .so, .o and .a
tracking_extensions == {<<46, 115, 111>>, <<46, 111>>, <<46, 97>>}

\* Where ext stands in name, from position first on, and is not followed by
\* more of a word.
MatchesFrom(first, name, ext) ==
  {k \in first .. Len(name) - Len(ext) + 1 :
     LET next == k + Len(ext)
     IN  /\ SubSeq(name, k, next - 1) = ext
         /\ next <= Len(name) => name[next] = Dot}

\* Mutant of Matches: the loop goes on to the first character.
MatchesAnywhere(name, ext) == MatchesFrom(1, name, ext)

\* The search from the right, which stops short of the first character.
Matches(name, ext) == MatchesFrom(2, name, ext)

\* filename_has_extension: the rightmost match decides, and has only a version
\* number after it.
HasExtension(name, ext) ==
  LET at == Matches(name, ext)
  IN  /\ at # {}
      /\ \A i \in Max(at) + Len(ext) .. Len(name) : name[i] \in Digits \cup {Dot}

\* filename_has_any_of_extensions, asked by scan_fs about a regular file.
AskExtensions ==
  \E name \in FileNames :
    /\ filename' = name
    /\ tracked' = \E ext \in tracking_extensions : HasExtension(name, ext)

\* A file is tracked if and only if its name is a stem, one of the extensions
\* and nothing or a version, wherever else in the name the characters of an
\* extension stand (filename_has_extension).
ExtensionIsExact ==
  filename # <<>> =>
    (tracked <=>
       \E k \in 1 .. Len(filename) - 1 :
         LET rest == SubSeq(filename, k + 1, Len(filename)) IN
         \E ext \in tracking_extensions :
           /\ IsPrefix(ext, rest)
           /\ LET tail == SubSeq(rest, Len(ext) + 1, Len(rest))
              IN  /\ ToSet(tail) \subseteq Digits \cup {Dot}
                  /\ tail # <<>> => tail[1] = Dot)
=============================================================================
