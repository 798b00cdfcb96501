-------------------------------- MODULE Paths --------------------------------
(***************************************************************************)
(* The functions of the path module (src/nodeqml/modules/path.cpp) and the *)
(* functions of Qt they are made of, which the module loader uses too.     *)
(*                                                                         *)
(* A path is the sequence of the names its slashes separate, and a name    *)
(* the sequence of the parts its dots separate: "/lib/a.js" is             *)
(* <<Empty, <<"lib">>, <<"a", "js">>>>, and the empty string <<Empty>>.    *)
(***************************************************************************)
EXTENDS Naturals, SequencesExt

Empty  == <<"">>           \* nothing, as between two slashes
Dot    == <<"", "">>
DotDot == <<"", "", "">>

NoString == <<Empty>>        \* ""
Here     == <<Dot>>          \* "."
Root     == <<Empty, Empty>> \* "/"

\* It begins with a slash.
IsAbsolute(p) == Len(p) > 1 /\ p[1] = Empty

EndsInSlash(p) == Len(p) > 1 /\ Last(p) = Empty

\* QString::split, which skips the empty parts.
Names(p) == FlattenSeq([i \in DOMAIN p |-> IF p[i] = Empty THEN <<>> ELSE <<p[i]>>])

-----------------------------------------------------------------------------
(* QDir and QFileInfo. *)

\* Mutant: ".." is a name like others.
CleanedNaively(p) == SelectSeq(p, LAMBDA n : n \notin {Empty, Dot})

\* A name after others: "." is dropped, and ".." is, with a name before it.
Then(before, n) ==
    IF n \in {Empty, Dot} THEN before
    ELSE IF n = DotDot /\ before # <<>> /\ Last(before) # DotDot THEN Front(before)
    ELSE Append(before, n)

Cleaned(p) ==
    LET cleaned[i \in 0..Len(p)] ==
            IF i = 0 THEN <<>> ELSE Then(cleaned[i - 1], p[i])
    IN cleaned[Len(p)]

\* QDir::cleanPath.
CleanPath(p) ==
    LET names == Cleaned(p)
    IN IF p = NoString THEN NoString
       ELSE IF IsAbsolute(p) THEN IF names = <<>> THEN Root ELSE <<Empty>> \o names
       ELSE IF names = <<>> THEN Here ELSE names

\* QFileInfo::absoluteFilePath, which keeps a slash at the end.
AbsoluteFilePath(p, wd) ==
    LET full == IF IsAbsolute(p) THEN p
                ELSE IF p \in {NoString, Here} THEN wd ELSE wd \o p
        clean == CleanPath(full)
    IN IF EndsInSlash(full) /\ full # Root THEN Append(clean, Empty) ELSE clean

\* QFileInfo::absolutePath: what is before the last slash.
AbsolutePath(p, wd) ==
    LET before == Front(AbsoluteFilePath(p, wd))
    IN IF before = <<Empty>> THEN Root ELSE before

\* QFileInfo::suffix: what is after the last dot of the name.
Suffix(p) == IF Len(Last(p)) = 1 THEN "" ELSE Last(Last(p))

\* The file name with a dot and a suffix after it.
WithSuffix(p, s) == Append(Front(p), Append(Last(p), s))

\* QDir::relativeFilePath, in the directory "from".
RelativeFilePath(from, to, wd) ==
    LET file  == CleanPath(to)
        down  == Names(file)
        up    == Names(CleanPath(AbsoluteFilePath(from, wd)))
        n     == Len(LongestCommonPrefix({up, down}))
        names == [i \in 1 .. Len(up) - n |-> DotDot] \o SubSeq(down, n + 1, Len(down))
    IN IF ~IsAbsolute(file) THEN file ELSE IF names = <<>> THEN Here ELSE names

-----------------------------------------------------------------------------
(* The functions of the module; wd is the process's directory.  An argument that *)
(* is not a string throws a TypeError (normalize goes on after that).            *)

Normalize(p) == CleanPath(p)

\* The arguments with slashes between them.
Join(args) == CleanPath(IF args = <<>> THEN NoString ELSE FlattenSeq(args))

\* Mutant: from the first absolute path on.
ResolveFirst(args, wd) ==
    LET i == SelectInSeq(args, IsAbsolute)
    IN CleanPath(IF i = 0 THEN wd \o FlattenSeq(args)
                 ELSE FlattenSeq(SubSeq(args, i, Len(args))))

\* From the last argument back to one that is absolute, or else to wd.
Resolve(args, wd) ==
    LET all   == <<wd>> \o args
        first == SelectLastInSeq(all, IsAbsolute)
    IN CleanPath(FlattenSeq(SubSeq(all, first, Len(all))))

Relative(from, to, wd) == RelativeFilePath(from, to, wd)

Dirname(p, wd) == AbsolutePath(p, wd)

\* ext, written like a name, is at the end of the last name.
HasExt(p, ext) ==
    LET n == Last(p)  k == Len(n) - Len(ext)
    IN ext # Empty /\ k >= 0 /\ Tail(ext) = SubSeq(n, k + 2, Len(n))
       /\ ext[1] \in {"", n[k + 1]}

\* QFileInfo::fileName, without ext if the path ends with it.
Basename(p, ext) ==
    LET n == Last(p)  k == Len(n) - Len(ext)
    IN IF HasExt(p, ext)
       THEN Append(SubSeq(n, 1, k), IF ext[1] = "" THEN n[k + 1] ELSE "")
       ELSE n

\* All that is after the first dot of the name, without it.
Extname(p) == IF Len(Last(p)) = 1 THEN Empty ELSE Tail(Last(p))
=============================================================================
