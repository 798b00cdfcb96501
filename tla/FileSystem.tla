------------------------------ MODULE FileSystem ------------------------------
(***************************************************************************)
(* The functions of the fs module (src/nodeqml/modules/filesystem.cpp).    *)
(*                                                                         *)
(* A disk maps the absolute, clean paths there are to "file" or "dir"; it  *)
(* has no links, and paths given to it do not end in a slash.              *)
(***************************************************************************)
EXTENDS Paths

Exists(disk, p) == p \in DOMAIN disk

IsFile(disk, p) == p \in DOMAIN disk /\ disk[p] = "file"

IsDir(disk, p) == p \in DOMAIN disk /\ disk[p] = "dir"

Parent(p) == AbsolutePath(p, Root)

\* p and all that is in it.
Tree(disk, p) == {q \in DOMAIN disk : IsPrefix(p, q)}

WithDir(disk, p) == [q \in DOMAIN disk \cup {p} |-> IF q = p THEN "dir" ELSE disk[q]]

WithoutDir(disk, p) == [q \in DOMAIN disk \ {p} |-> disk[q]]

\* The disk after a call, and whether the call throws.
Answer(disk, throws) == [disk |-> disk, throws |-> throws]

existsSync(disk, p) == Exists(disk, p)

\* mkdir and rmdir: the errno of the system call becomes an exception.
mkdirSync(disk, p) ==
    IF ~Exists(disk, p) /\ IsDir(disk, Parent(p))
    THEN Answer(WithDir(disk, p), FALSE)
    ELSE Answer(disk, TRUE)

rmdirSync(disk, p) ==
    IF IsDir(disk, p) /\ Tree(disk, p) = {p}
    THEN Answer(WithoutDir(disk, p), FALSE)
    ELSE Answer(disk, TRUE)

\* QFile::rename: moves a file or a directory, and replaces nothing.
Renamed(disk, p, q) ==
    LET Moved(x) == q \o SubSeq(x, Len(p) + 1, Len(x))
        moved == {Moved(x) : x \in Tree(disk, p)}
        stay == DOMAIN disk \ Tree(disk, p)
    IN IF /\ Exists(disk, p) /\ ~Exists(disk, q)
          /\ IsDir(disk, Parent(q)) /\ ~IsPrefix(p, q)
       THEN [y \in stay \cup moved |->
                IF y \in moved THEN disk[CHOOSE x \in Tree(disk, p) : Moved(x) = y] ELSE disk[y]]
       ELSE disk

\* renameSync throws if its arguments are not strings, and renames what they turn
\* into all the same; it does not throw if it cannot rename.
renameSync(disk, p, q, strings) == Answer(Renamed(disk, p, q), ~strings)

\* truncateSync changes no more than the size of a file.  It goes on with an argument
\* that is not a string too.
truncateSync(disk, p, strings) == Answer(disk, ~strings \/ ~IsFile(disk, p))
=============================================================================
