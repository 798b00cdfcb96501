---------------------------- MODULE ModuleLoader ----------------------------
(***************************************************************************)
(* The module system: ModuleObject::require, load and compile              *)
(* (src/nodeqml/moduleobject.cpp) with the cache EnginePrivate keeps       *)
(* (src/nodeqml/engine.cpp).                                               *)
(*                                                                         *)
(* A require creates a module object for a file that is not cached, runs   *)
(* its script, and puts the object in the cache only when the script has   *)
(* ended.  While it runs, the script requires other files, so the objects  *)
(* being loaded form a stack.  Objects are numbered in the order of their  *)
(* creation; a file can get several when its loading requires itself.      *)
(*                                                                         *)
(* Requests and files are paths, and files on the disk may come and go     *)
(* between a require and the next: scripts call fs and process.chdir.      *)
(*                                                                         *)
(* A require belongs to a module, whoever calls it: while a script runs it *)
(* may call functions of other modules, fire their listeners or use their  *)
(* module objects, and these then require in their own names.              *)
(***************************************************************************)
EXTENDS FileSystem

CONSTANTS
    Place,       \* bound: where there may be files and directories
    FirstDisk,   \* the disk when the program starts
    FirstCwd,    \* the directory it is started in
    Request,     \* what may be asked for with the global require, the host's
    Requests,    \* Requests[f]: what may be with the require of the module of f
    Meanwhile,   \* Meanwhile[f]: the requests, each with the file whose module makes it
                 \* (None: the global require), in calls f's script makes while it runs
    Native,      \* the requests that get a module made of C++
    Bundled,     \* the names of the scripts in the program's resources
    Missing,     \* what a request resolves to that resolves to nothing
    Moves,       \* bound: the pairs of places renameSync is called with
    Dirs,        \* bound: the places mkdirSync, rmdirSync, chdir are called with
    Hosts,       \* programs: "binary" (exits on quit), "plugin" (goes on)
    Assigning,   \* bound: the files whose modules' exports are assigned
    MaxObjects,  \* bound: module objects created
    MaxExports,  \* bound: assignments to a module's exports
    None         \* no module object: the parent of what the host requires

\* The file of a bundled script, ":/js/<name>.js".
BundledFile(name) == <<<<":">>, <<"js">>>> \o WithSuffix(name, "js")

File == Place \cup {BundledFile(name) : name \in Bundled}

ASSUME LoaderAssumption ==
    /\ Missing \notin File /\ None \notin File
    /\ DOMAIN FirstDisk \subseteq Place
    /\ \A p \in DOMAIN FirstDisk : FirstDisk[p] \in {"file", "dir"}
    /\ DOMAIN Requests = File
    /\ DOMAIN Meanwhile = File
    /\ \A f \in File : \A ask \in Meanwhile[f] :
          ask[2] \in IF ask[1] = None THEN Request ELSE Requests[ask[1]]
    /\ \A m \in Moves : m \in Place \X Place
    /\ Dirs \subseteq Place
    /\ Hosts \subseteq {"binary", "plugin"}
    /\ MaxObjects \in Nat /\ MaxExports \in Nat \ {0}
    /\ None \notin Nat

VARIABLES
    modules,       \* the ModuleObjects, in the order of their creation
    cache,         \* m_cachedModules: pairs of a file and its object
    loading,       \* the objects whose scripts are running, innermost first
    hasException,  \* QV4::ExecutionEngine::hasException
    process,       \* "running", "exited" (by quit), or "aborted" (by qFatal)
    host,          \* the program the engine is embedded in
    disk,          \* the files and directories there are
    cwd,           \* the process's directory
    given,         \* history: a file and the object whose exports its require returned
    failed         \* history: the objects whose file could not be loaded or run

loader == <<modules, cache, loading, given, failed>>
world == <<disk, cwd>>
vars == <<loader, hasException, process, host, world>>

Object == 1..Len(modules)

Cached(f) == \E i \in Object : <<f, i>> \in cache

\* A script is running, or the host.
Running == process = "running" /\ ~hasException

-----------------------------------------------------------------------------
(* Requests. *)

\* Mutant: relative requests start from the process's directory.
FromCwd(p) == cwd

\* Where p's relative requests start: in the directory of its file; the host's in the
\* process's directory.
From(p) == IF p = None THEN cwd ELSE Front(modules[p].file)

\* The directories requests may start from, and what may be requested there.
Home == {FirstCwd} \cup Dirs \cup {Front(f) : f \in File}
Asked == Request \cup UNION {Requests[f] : f \in File}

\* What a request names in each of them, made absolute (with @@, TLC keeps a table).
FileName == <<>> @@
    [ask \in Home \X Asked |->
        AbsoluteFilePath(IF IsAbsolute(ask[2]) THEN ask[2] ELSE ask[1] \o ask[2], ask[1])]

\* resolveModule: a bundled script, a file, a file with ".js" after its name, or a
\* directory's index.js (no request names the root).
ResolveModule(request, from) ==
    LET name == FileName[<<from, request>>]
        Found(f) == IF IsFile(disk, f) THEN f ELSE Missing
    IN IF request \in Bundled THEN BundledFile(request)
       ELSE IF ~Exists(disk, name) THEN Found(WithSuffix(name, "js"))
       ELSE IF IsFile(disk, name) THEN name
       ELSE Found(Append(name, <<"index", "js">>))

\* The files a request could resolve to, whatever is on the disk.
Candidates(from, request) ==
    LET name == FileName[<<from, request>>]
    IN IF request \in Bundled THEN {BundledFile(request)}
       ELSE {name, WithSuffix(name, "js"), Append(name, <<"index", "js">>)}

\* Where the requests of f's module may start, or those of the host (None).
Starts(f) == IF f = None THEN {FirstCwd} \cup Dirs ELSE {Front(f)}

\* No files require each other in a circle: rank goes down from each file to all that
\* can be required while its script runs, by itself or by what it calls.
Descending(rank) ==
    \A f \in File : \A ask \in ({f} \X Requests[f]) \cup Meanwhile[f] :
        ask[2] \notin Native =>
            \A from \in Starts(ask[1]) : \A g \in Candidates(from, ask[2]) \cap File :
                rank[g] < rank[f]

\* The file whose module p is, and what may be asked for with p's require.
FileOf(p) == IF p = None THEN None ELSE modules[p].file
Own(p) == IF p = None THEN Request ELSE Requests[modules[p].file]

\* What may be asked for with p's require now.  While a script runs these are its own
\* requests, and those of others that it calls; when none does, a callback in any
\* module, or the host, may ask.
Now(p) ==
    IF loading = <<>> THEN Own(p)
    ELSE LET f == modules[Head(loading)].file IN
         {request \in Own(p) : p = Head(loading) \/ <<FileOf(p), request>> \in Meanwhile[f]}

\* Those who may ask: modules, and the host.
Caller == {p \in Object \cup {None} : Now(p) # {}}

\* What p's require may now be asked for that is not native.
Asks(p) == Now(p) \ Native

Resolved(p, request) == ResolveModule(request, From(p))

\* p's require is called with a request that resolves to f.
Calls(p, f) ==
    /\ Running
    /\ \E request \in Asks(p) : f = Resolved(p, request)

-----------------------------------------------------------------------------
(* Steps of require. *)

\* Mutant: the constructor forgets the parent's other children.
WithOnlyChild(p, f) ==
    Append([i \in Object |-> IF i = p THEN [modules[i] EXCEPT !.children =
                                                         <<Len(modules) + 1>>]
                             ELSE modules[i]],
           [file |-> f, parent |-> p, children |-> <<>>, loaded |-> FALSE, exports |-> 0])

\* The constructor: the new object becomes the last child of its parent.
WithNewModule(p, f) ==
    LET adopted == [i \in Object |->
                       IF i = p THEN [modules[i] EXCEPT !.children =
                                                      Append(@, Len(modules) + 1)]
                       ELSE modules[i]]
    IN Append(adopted, [file |-> f, parent |-> p, children |-> <<>>,
                        loaded |-> FALSE, exports |-> 0])

\* Mutants: a failed module is not cached; the next object is.
CacheLoaded(f, i) == IF i \in failed' THEN cache ELSE cache \cup {<<f, i>>}

CacheNext(f, i) == cache \cup {<<f, i + 1>>}

\* cacheModule; set() replaces what was cached for f.
CacheModule(f, i) == {e \in cache : e[1] # f} \cup {<<f, i>>}

\* Mutant: the exception is caught and nobody is told.
CatchOnly(threw) == UNCHANGED process

\* exceptionCheck: catch what was thrown, and emit quit(1).
ExceptionCheck(threw) ==
    process' = IF threw /\ host = "binary" THEN "exited" ELSE process

Answered(f, i) == [file |-> f, object |-> i]

\* A native module is given as it is.
RequireNative(p) ==
    /\ Running
    /\ Now(p) \cap Native # {}
    /\ UNCHANGED vars

RequireMissing(p) ==
    /\ Calls(p, Missing)
    /\ hasException' = TRUE
    /\ UNCHANGED <<loader, process, host, world>>

RequireCached(p, f) ==
    /\ Calls(p, f) /\ Cached(f)
    /\ given' = given \cup {Answered(f, e[2]) : e \in {e \in cache : e[1] = f}}
    /\ UNCHANGED <<modules, cache, loading, hasException, process, host, world, failed>>

\* Mutant: a new object for every require.
CanLoadAgain(p, f) == Calls(p, f) /\ f # Missing /\ Len(modules) < MaxObjects

\* require goes on to load f.
CanLoad(p, f) ==
    /\ Calls(p, f) /\ f # Missing /\ ~Cached(f)
    /\ Len(modules) < MaxObjects

\* compile starts the script of a .js file.
LoadJs(p, f) ==
    /\ CanLoad(p, f) /\ Suffix(f) = "js"
    /\ modules' = WithNewModule(p, f)
    /\ loading' = <<Len(modules) + 1>> \o loading
    /\ UNCHANGED <<cache, hasException, process, host, world, given, failed>>

\* A .json file is read at once.  If it cannot be read or is not JSON, load throws
\* and leaves "loaded" false; require catches that, quits, and caches the object.
LoadJson(p, f, valid) ==
    LET i == Len(modules) + 1
        new == WithNewModule(p, f)
    IN /\ CanLoad(p, f) /\ Suffix(f) = "json"
       /\ modules' = [new EXCEPT ![i].loaded = valid, ![i].exports = IF valid THEN 1 ELSE 0]
       /\ failed' = IF valid THEN failed ELSE failed \cup {i}
       /\ ExceptionCheck(~valid)
       /\ cache' = CacheModule(f, i)
       /\ given' = given \cup {Answered(f, i)}
       /\ UNCHANGED <<loading, hasException, host, world>>

\* "Wrong file type": qFatal.
LoadOther(p, f) ==
    /\ CanLoad(p, f) /\ Suffix(f) \notin {"js", "json"}
    /\ modules' = WithNewModule(p, f)
    /\ process' = "aborted"
    /\ UNCHANGED <<cache, loading, hasException, host, world, given, failed>>

\* The script ends, normally or with an exception; it need not have begun (the
\* file cannot be opened or parsed).  compile catches the exception and quits; if
\* the program goes on, the object is loaded and cached all the same.
EndScript(threw) ==
    LET i == Head(loading)
        f == modules[i].file
    IN /\ process = "running" /\ loading # <<>>
       /\ hasException => threw
       /\ hasException' = FALSE
       /\ ExceptionCheck(threw)
       /\ failed' = IF threw THEN failed \cup {i} ELSE failed
       /\ modules' = [modules EXCEPT ![i].loaded = TRUE]
       /\ cache' = CacheModule(f, i)
       /\ loading' = Tail(loading)
       /\ given' = given \cup {Answered(f, i)}
       /\ UNCHANGED <<host, world>>

\* A script catches an exception of require, fs or chdir; outside of modules the host
\* does.
Catch ==
    /\ process = "running" /\ hasException
    /\ hasException' = FALSE
    /\ UNCHANGED <<loader, process, host, world>>

-----------------------------------------------------------------------------
(* What else scripts do that requires depend on. *)

\* module.exports = an object, by a script that has the module i.
SetExports(i) ==
    /\ Running
    /\ modules[i].file \in Assigning /\ modules[i].exports < MaxExports
    /\ modules' = [modules EXCEPT ![i].exports = @ + 1]
    /\ UNCHANGED <<cache, loading, hasException, process, host, world, given, failed>>

\* A call of fs, which answers with the disk and whether it throws.
CallFs(answer) ==
    /\ Running
    /\ disk' = answer.disk /\ hasException' = answer.throws
    /\ UNCHANGED <<loader, process, host, cwd>>

\* Bound: the directory in use is not moved or removed, and nothing leaves Place.
InUse(p) == IsPrefix(p, cwd)

RenameFile ==
    \E m \in Moves, strings \in BOOLEAN :
        /\ ~InUse(m[1]) /\ DOMAIN Renamed(disk, m[1], m[2]) \subseteq Place
        /\ CallFs(renameSync(disk, m[1], m[2], strings))

MakeDir == \E d \in Dirs : CallFs(mkdirSync(disk, d))

RemoveDir == \E d \in Dirs : ~InUse(d) /\ CallFs(rmdirSync(disk, d))

Truncate ==
    \E m \in Moves, strings \in BOOLEAN : CallFs(truncateSync(disk, m[1], strings))

\* process.chdir.
Chdir(d) ==
    /\ Running
    /\ cwd' = IF IsDir(disk, d) THEN d ELSE cwd
    /\ hasException' = ~IsDir(disk, d)
    /\ UNCHANGED <<loader, process, host, disk>>

-----------------------------------------------------------------------------
Init ==
    /\ modules = <<>> /\ cache = {} /\ loading = <<>>
    /\ hasException = FALSE /\ process = "running"
    /\ host \in Hosts
    /\ disk = FirstDisk /\ cwd = FirstCwd
    /\ given = {} /\ failed = {}

Require(p, f) ==
    \/ RequireCached(p, f)
    \/ LoadJs(p, f)
    \/ \E valid \in BOOLEAN : LoadJson(p, f, valid)
    \/ LoadOther(p, f)

Next ==
    \/ \E p \in Caller :
          \/ RequireNative(p)
          \/ RequireMissing(p)
          \/ \E f \in File \cap {Resolved(p, request) : request \in Asks(p)} : Require(p, f)
    \/ \E threw \in BOOLEAN : EndScript(threw)
    \/ Catch
    \/ \E i \in Object : SetExports(i)
    \/ RenameFile \/ MakeDir \/ RemoveDir \/ Truncate
    \/ \E d \in Dirs : Chdir(d)

Spec == Init /\ [][Next]_vars

-----------------------------------------------------------------------------
(* Properties. *)

\* The types of the variables.
TypeOK ==
    /\ modules \in Seq([file : File, parent : Nat \cup {None},
                        children : Seq(Nat), loaded : BOOLEAN, exports : 0..MaxExports])
    /\ cache \subseteq File \X Object
    /\ loading \in Seq(Object)
    /\ hasException \in BOOLEAN
    /\ process \in {"running", "exited", "aborted"}
    /\ host \in Hosts
    /\ DOMAIN disk \subseteq Place /\ \A p \in DOMAIN disk : disk[p] \in {"file", "dir"}
    /\ cwd \in {FirstCwd} \cup Dirs
    /\ given \subseteq [file : File, object : Object]
    /\ failed \subseteq Object

\* cacheModule's assertion, Q_ASSERT(!m_cachedModules.contains(id)): when a script
\* ends, nobody has cached its file since require looked.
CacheAssertion ==
    loading # <<>> => ~Cached(modules[Head(loading)].file)

\* A file's script runs at most once, and all that require it are given the same
\* module object.
OneObjectPerFile ==
    /\ \A i, j \in Object : modules[i].file = modules[j].file => i = j
    /\ \A d, e \in given : d.file = e.file => d.object = e.object

\* "parent" and "children" describe the same tree: an object is once among the
\* children of its parent, and of nobody else, and was created after it.
ParentsAndChildrenAgree ==
    \A i \in Object :
        LET children == modules[i].children IN
        /\ \A j \in Object : modules[j].parent = i
              <=> \E k \in 1..Len(children) : children[k] = j
        /\ \A k, m \in 1..Len(children) : k < m => children[k] < children[m]
        /\ \A k \in 1..Len(children) : i < children[k]

\* In the nodeqml binary no script is ever given the module of a file that could
\* not be loaded or whose script threw: the program is gone first.  (In the plugin
\* it is given, cached and, for scripts, marked as loaded.)
FailedNeverGiven ==
    host = "binary" /\ process = "running" =>
        \A e \in given : e.object \notin failed

\* The module object that p's request gets without loading.
Known(p, request) ==
    LET f == Resolved(p, request) IN {i \in Object : <<f, i>> \in cache}

\* As long as the files stay where they are, a module that has been answered a request
\* is answered the same request with the same object, whatever is loaded by others,
\* fails, or makes another directory the process's.
AnswersKept ==
    [][disk' = disk => \A p \in Object : \A request \in Own(p) \ Native :
           Known(p, request) # {} => Known(p, request)' = Known(p, request)]_vars
=============================================================================
