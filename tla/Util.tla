--------------------------------- MODULE Util ---------------------------------
(***************************************************************************)
(* format, of the util module (src/nodeqml/modules/util.cpp), with what    *)
(* util and console print with it (console.cpp).                           *)
(***************************************************************************)
EXTENDS Naturals, SequencesExt

-----------------------------------------------------------------------------
(* format.  A string is a sequence of pieces: the placeholders the regular         *)
(* expression %[sdj%] finds, and what is between them.  What is printed is a       *)
(* sequence too: of pieces, and of the numbers of arguments with the way they are  *)
(* turned into text.                                                               *)

Placeholder == {"%s", "%d", "%j", "%%"}

Text(piece) == [how |-> "text", what |-> piece]
Inspected(i) == [how |-> "inspect", what |-> i]
Json(i) == [how |-> "json", what |-> i]  \* the text [JSON], whatever the argument

\* The arguments from i on, each after a space.
Listed(i, argc) ==
    FlattenSeq([k \in 1 .. argc - i |-> <<Text(" "), Inspected(i + k - 1)>>])

\* Mutant: %j takes no argument.
TakesButJson(piece) == IF piece \in {"%%", "%j"} THEN 0 ELSE 1

\* How many arguments a placeholder takes.
Takes(piece) == IF piece = "%%" THEN 0 ELSE 1

Shown(piece, i) ==
    CASE piece = "%%" -> Text("%")
      [] piece \in {"%s", "%d"} -> Inspected(i)
      [] piece = "%j" -> Json(i)

\* One piece of the format; i is the argument to be used next.  When there is none
\* left a placeholder stays as it is, %% too.
Step(argc, done, piece) ==
    IF piece \notin Placeholder \/ done.i >= argc
    THEN [done EXCEPT !.text = Append(@, Text(piece))]
    ELSE [text |-> Append(done.text, Shown(piece, done.i)), i |-> done.i + Takes(piece)]

\* format: the arguments are numbered from 0, and isString says whether the first is
\* a string, of these pieces.
method_format(argc, isString, pieces) ==
    IF argc = 0 THEN <<>>
    ELSE IF ~isString THEN Tail(Listed(0, argc))
    ELSE LET done == FoldLeft(LAMBDA d, p : Step(argc, d, p),
                              [text |-> <<>>, i |-> 1], pieces)
         IN done.text \o Listed(done.i, argc)

\* console.log and info, console.error and warn, util.log.
method_log(argc, isString, pieces) ==
    [stream |-> "stdout", text |-> method_format(argc, isString, pieces)]

method_error(argc, isString, pieces) ==
    [stream |-> "stderr", text |-> method_format(argc, isString, pieces)]

LogWithTime(argc, isString, pieces) ==
    [stream |-> "stdout",
     text |-> <<Text("time"), Text(" - ")>> \o method_format(argc, isString, pieces)]

=============================================================================
