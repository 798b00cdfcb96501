--------------------------- MODULE MCModuleLoader ---------------------------
(* The module system with small trees of files and small graphs of requests. *)
EXTENDS ModuleLoader

App(names) == <<Empty, <<"app">>>> \o names

main  == App(<<<<"main", "js">>>>)
lib   == App(<<<<"lib">>>>)
index == App(<<<<"lib">>, <<"index", "js">>>>)
tool  == App(<<<<"lib">>, <<"tool", "js">>>>)
data  == App(<<<<"data", "json">>>>)
moved == App(<<<<"moved", "json">>>>)
notes == App(<<<<"lib">>, <<"notes", "txt">>>>)
made  == App(<<<<"made">>>>)

\* "./lib", "/app/lib/tool", "../data.json", "../lib/../data.json", "lib/notes.txt",
\* "events", "util", "./none"
ToLib == <<Dot, <<"lib">>>>
Tool == App(<<<<"lib">>, <<"tool">>>>)
ToData == <<DotDot, <<"data", "json">>>>
Data == <<DotDot, <<"lib">>, DotDot, <<"data", "json">>>>
ToNotes == <<<<"lib">>, <<"notes", "txt">>>>
Events == <<<<"events">>>>
Util == <<<<"util">>>>
ToNone == <<Dot, <<"none">>>>

Tree0 == [p \in {Root, App(<<>>), lib} |-> "dir"]
         @@ [p \in {main, index, tool, data, notes} |-> "file"]

Places == DOMAIN Tree0 \cup {moved, made}

\* main asks for lib, lib's index.js for tool and the data, tool for the data too, in a
\* way of its own.
Acyclic == (main :> {ToLib, Events}) @@ (index :> {Tool, Data})
           @@ (tool :> {ToData, ToNone})
           @@ (BundledFile(Events) :> {Util}) @@ [f \in Places |-> {}]

\* While main's script runs, it calls functions of lib's index.js and of its tool, which
\* require in their own names.  While index.js's runs, it calls one of tool, and a
\* listener of main, and while tool's runs one of the listeners of index.js and main, and
\* the global require.
Beside == (main :> {<<index, Tool>>, <<tool, ToData>>})
          @@ (index :> {<<tool, ToData>>, <<main, Events>>})
          @@ (tool :> {<<index, Data>>, <<main, Events>>, <<None, ToNotes>>})
          @@ [f \in Places \cup {BundledFile(Events)} |-> {}]

\* The files of Acyclic can be ranked, the calls counted in.
Ranking == [f \in File |-> CASE f = main -> 3 [] f = index -> 2 [] f = tool -> 1 [] OTHER -> 0]

ASSUME RankingDescends == Requests = Acyclic => Descending(Ranking)

HostRequests == {main, ToNotes}
Indexes == {index}

NativeRequests == {Util}
BundledRequests == {Events}

App0 == App(<<>>)
MovesData == {<<data, moved>>}
SomeDirs == {made}

\* Two files that require each other.
ToMain == <<DotDot, <<"main">>>>
Cycle == (main :> {ToLib}) @@ (index :> {ToMain}) @@ [f \in Places |-> {}]
MainOnly == {main}
Nobody == [f \in Places |-> {}]
=============================================================================
