-------------------------- MODULE ModuleLoaderProofs --------------------------
(***************************************************************************)
(* Proofs, for any files, requests, programs and bounds, of the safety     *)
(* properties of ModuleLoader.                                             *)
(***************************************************************************)
EXTENDS ModuleLoader, SequenceTheorems, TLAPS

ModuleType == [file : File, parent : Nat \cup {None}, children : Seq(Nat),
               loaded : BOOLEAN, exports : 0..MaxExports]

\* A sequence with an element put before it.
LEMMA Pushed ==
    ASSUME NEW S, NEW s \in Seq(S), NEW e \in S
    PROVE  /\ <<e>> \o s \in Seq(S) /\ Len(<<e>> \o s) = Len(s) + 1
           /\ (<<e>> \o s)[1] = e
           /\ \A k \in 1..Len(s) : (<<e>> \o s)[k + 1] = s[k]
OBVIOUS

-----------------------------------------------------------------------------
(* What the steps do to the list of modules. *)

\* The constructor adds an object and changes nothing of the others but the list of
\* its parent's children.
LEMMA Constructed ==
    ASSUME modules \in Seq(ModuleType), NEW p \in Object \cup {None}, NEW f \in File
    PROVE  LET n == Len(modules) + 1  new == WithNewModule(p, f) IN
           /\ new \in Seq(ModuleType) /\ Len(new) = n
           /\ new[n] = [file |-> f, parent |-> p, children |-> <<>>,
                        loaded |-> FALSE, exports |-> 0]
           /\ \A i \in Object :
                 /\ new[i].file = modules[i].file /\ new[i].parent = modules[i].parent
                 /\ new[i].exports = modules[i].exports
                 /\ new[i].children = IF i = p THEN Append(modules[i].children, n)
                                      ELSE modules[i].children
<1> DEFINE n == Len(modules) + 1
           adopted == [i \in Object |->
                          IF i = p THEN [modules[i] EXCEPT !.children = Append(@, n)]
                          ELSE modules[i]]
           added == [file |-> f, parent |-> p, children |-> <<>>,
                     loaded |-> FALSE, exports |-> 0]
<1>1. n \in Nat /\ Object = 1 .. Len(modules) /\ Len(modules) \in Nat
  BY DEF Object
<1>2. \A i \in Object : modules[i] \in ModuleType
  BY <1>1
<1>3. added \in ModuleType
  BY <1>1, LoaderAssumption DEF ModuleType
<1>4. \A i \in Object : adopted[i] \in ModuleType
  <2> SUFFICES ASSUME NEW i \in Object PROVE adopted[i] \in ModuleType
    OBVIOUS
  <2>1. /\ modules[i] \in ModuleType
        /\ Append(modules[i].children, n) \in Seq(Nat)
    BY <1>1, <1>2 DEF ModuleType
  <2> QED
    BY <2>1 DEF ModuleType
<1>5. adopted \in Seq(ModuleType) /\ Len(adopted) = Len(modules)
  <2>1. adopted \in [1 .. Len(modules) -> ModuleType]
    BY <1>1, <1>4
  <2> QED
    BY <1>1, <2>1
<1>6. WithNewModule(p, f) = Append(adopted, added)
  BY DEF WithNewModule
<1>7. \A i \in Object :
         /\ adopted[i].file = modules[i].file /\ adopted[i].parent = modules[i].parent
         /\ adopted[i].exports = modules[i].exports
         /\ adopted[i].children = IF i = p THEN Append(modules[i].children, n)
                                  ELSE modules[i].children
  BY <1>2 DEF ModuleType
<1> HIDE DEF adopted, added
<1>8. /\ Append(adopted, added) \in Seq(ModuleType)
      /\ Len(Append(adopted, added)) = n
      /\ Append(adopted, added)[n] = added
      /\ \A i \in Object : Append(adopted, added)[i] = adopted[i]
  BY <1>1, <1>3, <1>5
<1> QED
  BY <1>6, <1>7, <1>8, ZenonT(30) DEF added

\* After a step the objects there were have the same files, parents and children.
Same(i) ==
    /\ modules'[i].file = modules[i].file /\ modules'[i].parent = modules[i].parent
    /\ modules'[i].exports = modules[i].exports

Kept ==
    /\ modules' \in Seq(ModuleType) /\ Len(modules') = Len(modules)
    /\ \A i \in Object : Same(i) /\ modules'[i].children = modules[i].children

\* A step has made an object for the file f, required by p.
Grown(p, f) ==
    LET n == Len(modules) + 1 IN
    /\ modules' \in Seq(ModuleType) /\ Len(modules') = n
    /\ modules'[n].file = f /\ modules'[n].parent = p /\ modules'[n].children = <<>>
    /\ \A i \in Object :
          /\ Same(i)
          /\ modules'[i].children = IF i = p THEN Append(modules[i].children, n)
                                    ELSE modules[i].children

LEMMA LoadGrows ==
    ASSUME TypeOK, NEW p \in Object \cup {None}, NEW f \in File,
           \/ LoadJs(p, f)
           \/ \E valid \in BOOLEAN : LoadJson(p, f, valid)
           \/ LoadOther(p, f)
    PROVE  Grown(p, f)
<1> DEFINE n == Len(modules) + 1  new == WithNewModule(p, f)
<1>1. modules \in Seq(ModuleType) /\ n \in Nat /\ Len(modules) \in Nat /\ n \notin Object
      /\ Object = 1 .. Len(modules)
  BY DEF TypeOK, ModuleType, Object
<1>2. /\ new \in Seq(ModuleType) /\ Len(new) = n
      /\ new[n] = [file |-> f, parent |-> p, children |-> <<>>,
                   loaded |-> FALSE, exports |-> 0]
      /\ \A i \in Object :
            /\ new[i].file = modules[i].file /\ new[i].parent = modules[i].parent
            /\ new[i].exports = modules[i].exports
            /\ new[i].children = IF i = p THEN Append(modules[i].children, n)
                                 ELSE modules[i].children
  BY <1>1, Constructed
<1> HIDE DEF new
<1>5. CASE modules' = new
  BY <1>1, <1>2, <1>5 DEF Grown, Same
<1>6. CASE \E valid \in BOOLEAN : LoadJson(p, f, valid)
  <2> PICK valid \in BOOLEAN : LoadJson(p, f, valid)
    BY <1>6
  <2> DEFINE exports == IF valid THEN 1 ELSE 0
             loaded == [new[n] EXCEPT !.loaded = valid, !.exports = exports]
  <2>1. modules' = [new EXCEPT ![n] = loaded]
    BY <1>1, <1>2 DEF LoadJson, new
  <2>2. exports \in 0..MaxExports /\ valid \in BOOLEAN
    BY LoaderAssumption
  <2>3. /\ loaded \in ModuleType
        /\ loaded.file = f /\ loaded.parent = p /\ loaded.children = <<>>
    <3>1. new[n] \in ModuleType
      BY <1>1, <1>2
    <3> HIDE DEF exports
    <3>2. PICK r \in ModuleType : r = new[n]
      BY <3>1
    <3>3. loaded = [r EXCEPT !.loaded = valid, !.exports = exports]
      BY <3>2
    <3> HIDE DEF loaded
    <3>4. /\ loaded \in ModuleType /\ loaded.file = r.file
          /\ loaded.parent = r.parent /\ loaded.children = r.children
      BY <2>2, <3>3 DEF ModuleType
    <3> QED
      BY <1>2, <3>2, <3>4
  <2> HIDE DEF loaded
  <2>4. /\ modules' \in Seq(ModuleType) /\ Len(modules') = n /\ modules'[n] = loaded
        /\ \A i \in Object : modules'[i] = new[i]
    BY <1>1, <1>2, <2>1, <2>3
  <2> QED
    BY <1>1, <1>2, <2>3, <2>4 DEF Grown, Same
<1> QED
  BY <1>5, <1>6 DEF LoadJs, LoadOther, new

LEMMA EndScriptKeeps ==
    ASSUME TypeOK, NEW threw \in BOOLEAN, EndScript(threw)
    PROVE  /\ Kept
           /\ loading # <<>> /\ Head(loading) \in Object /\ loading' = Tail(loading)
           /\ loading' \in Seq(Object) /\ Object' = Object
           /\ modules[Head(loading)].file \in File
<1> DEFINE i == Head(loading)
<1>1. /\ modules \in Seq(ModuleType) /\ Object = 1 .. Len(modules) /\ Len(modules) \in Nat
      /\ loading # <<>> /\ loading \in Seq(Object)
  BY DEF TypeOK, ModuleType, Object, EndScript
<1>2. i \in Object /\ Tail(loading) \in Seq(Object)
  BY <1>1
<1>3. \A j \in Object : modules[j] \in ModuleType
  BY <1>1
<1>4. modules' = [modules EXCEPT ![i].loaded = TRUE] /\ loading' = Tail(loading)
  BY DEF EndScript
<1>5. [modules[i] EXCEPT !.loaded = TRUE] \in ModuleType
  BY <1>2, <1>3 DEF ModuleType
<1>6. modules' \in Seq(ModuleType) /\ Len(modules') = Len(modules)
  BY <1>1, <1>2, <1>4, <1>5
<1>7. \A j \in Object : Same(j) /\ modules'[j].children = modules[j].children
  <2> TAKE j \in Object
  <2>1. modules'[j] = IF j = i THEN [modules[i] EXCEPT !.loaded = TRUE] ELSE modules[j]
    BY <1>1, <1>2, <1>4
  <2>2. modules[j] \in ModuleType /\ modules[i] \in ModuleType
    BY <1>2, <1>3
  <2> QED
    BY <2>1, <2>2 DEF ModuleType, Same
<1>8. modules[i].file \in File
  BY <1>2, <1>3 DEF ModuleType
<1> QED
  BY <1>1, <1>2, <1>4, <1>6, <1>7, <1>8 DEF Kept, Object

\* Assigning exports keeps all but these.
LEMMA SetExportsKeeps ==
    ASSUME TypeOK, NEW i \in Object, SetExports(i)
    PROVE  /\ modules' \in Seq(ModuleType) /\ Len(modules') = Len(modules)
           /\ \A j \in Object :
                 /\ modules'[j].file = modules[j].file
                 /\ modules'[j].parent = modules[j].parent
                 /\ modules'[j].children = modules[j].children
                 /\ j # i => modules'[j].exports = modules[j].exports
<1>1. modules \in Seq(ModuleType) /\ Object = 1 .. Len(modules) /\ Len(modules) \in Nat
  BY DEF TypeOK, ModuleType, Object
<1>2. \A j \in Object : modules[j] \in ModuleType
  BY <1>1
<1>3. modules' = [modules EXCEPT ![i].exports = modules[i].exports + 1]
  BY DEF SetExports
<1>4. modules[i].exports + 1 \in 0..MaxExports
  BY <1>2, LoaderAssumption DEF ModuleType, SetExports
<1>5. [modules[i] EXCEPT !.exports = modules[i].exports + 1] \in ModuleType
  BY <1>2, <1>4 DEF ModuleType
<1>6. modules' \in Seq(ModuleType) /\ Len(modules') = Len(modules)
  BY <1>1, <1>3, <1>5
<1> QED
  BY <1>1, <1>2, <1>3, <1>6 DEF ModuleType

-----------------------------------------------------------------------------
(* The types. *)

LEMMA TypeInit == Init => TypeOK
<1> SUFFICES ASSUME Init PROVE TypeOK
  OBVIOUS
<1>1. modules = <<>> /\ loading = <<>> /\ given = {} /\ failed = {} /\ cache = {}
      /\ disk = FirstDisk /\ cwd = FirstCwd /\ host \in Hosts /\ hasException = FALSE
      /\ process = "running"
  BY DEF Init
<1>2. <<>> \in Seq(Object) /\ <<>> \in Seq(ModuleType)
  OBVIOUS
<1>3. modules \in Seq(ModuleType) /\ loading \in Seq(Object)
  BY <1>1, <1>2
<1> QED
  BY <1>1, <1>3, LoaderAssumption DEF TypeOK, ModuleType

\* The calls of fs leave a disk.
DiskType(d) == DOMAIN d \subseteq Place /\ \A p \in DOMAIN d : d[p] \in {"file", "dir"}

LEMMA FsKeepsDisk ==
    ASSUME TypeOK, RenameFile \/ MakeDir \/ RemoveDir \/ Truncate
    PROVE  DiskType(disk') /\ hasException' \in BOOLEAN
<1> DiskType(disk)
  BY DEF TypeOK, DiskType
<1>1. CASE RenameFile
  <2>1. PICK m \in Moves, strings \in BOOLEAN :
           /\ DOMAIN Renamed(disk, m[1], m[2]) \subseteq Place
           /\ CallFs(renameSync(disk, m[1], m[2], strings))
    BY <1>1 DEF RenameFile
  <2>2. disk' = Renamed(disk, m[1], m[2]) /\ hasException' = ~strings
    BY <2>1 DEF CallFs, renameSync, Answer
  <2> DEFINE p == m[1]  q == m[2]
             Moved(x) == q \o SubSeq(x, Len(p) + 1, Len(x))
             moved == {Moved(x) : x \in Tree(disk, p)}
             stay == DOMAIN disk \ Tree(disk, p)
             Source(y) == CHOOSE x \in Tree(disk, p) : Moved(x) = y
             new == [y \in stay \cup moved |-> IF y \in moved THEN disk[Source(y)] ELSE disk[y]]
  <2>3. Renamed(disk, p, q) = new \/ Renamed(disk, p, q) = disk
    BY DEF Renamed
  <2>4. \A y \in moved : Source(y) \in DOMAIN disk
    BY DEF Tree
  <2>5. \A y \in DOMAIN new : new[y] \in {"file", "dir"}
    <3> HIDE DEF moved, Source
    <3> QED
      BY <2>4 DEF DiskType
  <2> HIDE DEF new
  <2> QED
    BY <2>1, <2>2, <2>3, <2>5 DEF DiskType
<1>2. CASE MakeDir
  <2>1. PICK d \in Dirs : CallFs(mkdirSync(disk, d))
    BY <1>2 DEF MakeDir
  <2>2. DiskType(WithDir(disk, d))
    BY LoaderAssumption DEF DiskType, WithDir
  <2> QED
    BY <2>1, <2>2 DEF CallFs, mkdirSync, Answer
<1>3. CASE RemoveDir
  <2>1. PICK d \in Dirs : CallFs(rmdirSync(disk, d))
    BY <1>3 DEF RemoveDir
  <2>2. DiskType(WithoutDir(disk, d))
    BY DEF DiskType, WithoutDir
  <2> QED
    BY <2>1, <2>2 DEF CallFs, rmdirSync, Answer
<1>4. CASE Truncate
  <2>1. PICK m \in Moves, strings \in BOOLEAN : CallFs(truncateSync(disk, m[1], strings))
    BY <1>4 DEF Truncate
  <2>2. disk' = disk /\ hasException' = (~strings \/ ~IsFile(disk, m[1]))
    BY <2>1 DEF CallFs, truncateSync, Answer
  <2> QED
    BY <2>2
<1> QED
  BY <1>1, <1>2, <1>3, <1>4

\* A step that loads a file.
LEMMA TypeLoad ==
    ASSUME TypeOK, NEW p \in Object \cup {None}, NEW f \in File,
           \/ LoadJs(p, f)
           \/ \E valid \in BOOLEAN : LoadJson(p, f, valid)
           \/ LoadOther(p, f)
    PROVE  TypeOK'
<1> DEFINE n == Len(modules) + 1
<1>1. Grown(p, f)
  BY LoadGrows
<1>2. /\ modules' \in Seq(ModuleType) /\ n \in Nat /\ n \in Object'
      /\ Object \subseteq Object' /\ Object = 1 .. Len(modules)
  BY <1>1 DEF Grown, TypeOK, ModuleType, Object
<1>3. CASE LoadJs(p, f) \/ LoadOther(p, f)
  <2>1. loading' \in Seq(Object')
    <3>1. loading \in Seq(Object) /\ loading \in Seq(Object')
      <4>1. loading \in Seq(Object)
        BY DEF TypeOK
      <4> QED
        BY <1>2, <4>1, SeqMonotonic
    <3>2. loading' = <<n>> \o loading \/ loading' = loading
      BY <1>3 DEF LoadJs, LoadOther
    <3> DEFINE S == Object'
    <3> HIDE DEF S, n
    <3>3. loading \in Seq(S) /\ n \in S
      BY <1>2, <3>1 DEF S
    <3>4. <<n>> \o loading \in Seq(S)
      BY <3>3, Pushed
    <3> QED
      BY <3>2, <3>3, <3>4 DEF S
  <2> QED
    BY <1>2, <1>3, <2>1 DEF TypeOK, LoadJs, LoadOther, ModuleType, world
<1>4. CASE \E valid \in BOOLEAN : LoadJson(p, f, valid)
  <2>1. PICK valid \in BOOLEAN : LoadJson(p, f, valid)
    BY <1>4
  <2>3. Answered(f, n) \in [file : File, object : Object']
    BY <1>2 DEF Answered
  <2>4. /\ given' = given \cup {Answered(f, n)}
        /\ cache' = CacheModule(f, n)
        /\ failed' \subseteq failed \cup {n}
        /\ process' \in {process, "exited"}
        /\ UNCHANGED <<loading, hasException, host, disk, cwd>>
    BY <2>1 DEF LoadJson, ExceptionCheck, world
  <2>5. given' \subseteq [file : File, object : Object']
    BY <1>2, <2>3, <2>4 DEF TypeOK
  <2>6. cache' \subseteq File \X Object'
    BY <1>2, <2>4 DEF TypeOK, CacheModule
  <2>7. loading' \in Seq(Object')
    <3>1. loading \in Seq(Object)
      BY DEF TypeOK
    <3> QED
      BY <1>2, <2>4, <3>1, SeqMonotonic
  <2> QED
    BY <1>2, <2>4, <2>5, <2>6, <2>7 DEF TypeOK, ModuleType
<1> QED
  BY <1>3, <1>4

\* All other steps.
LEMMA TypeRest ==
    ASSUME TypeOK,
           \/ \E threw \in BOOLEAN : EndScript(threw)
           \/ \E i \in Object : SetExports(i)
           \/ \E p \in Caller, f \in File : RequireCached(p, f)
    PROVE  TypeOK'
<1>1. CASE \E threw \in BOOLEAN : EndScript(threw)
  <2>1. PICK threw \in BOOLEAN : EndScript(threw)
    BY <1>1
  <2> DEFINE i == Head(loading)  f == modules[i].file
  <2>2. /\ Kept /\ i \in Object /\ loading' \in Seq(Object') /\ Object' = Object
        /\ f \in File
    BY <2>1, EndScriptKeeps
  <2>3. modules' \in Seq(ModuleType)
    BY <2>2 DEF Kept
  <2>4. Answered(f, i) \in [file : File, object : Object]
    BY <2>2 DEF Answered
  <2>5. /\ given' = given \cup {Answered(f, i)}
        /\ cache' = CacheModule(f, i)
        /\ failed' \subseteq failed \cup {i}
        /\ process' \in {process, "exited"} /\ hasException' = FALSE
        /\ UNCHANGED <<host, disk, cwd>>
    BY <2>1 DEF EndScript, ExceptionCheck, world
  <2>6. given' \subseteq [file : File, object : Object]
    BY <2>4, <2>5 DEF TypeOK
  <2>7. cache' \subseteq File \X Object
    BY <2>2, <2>5, SMTT(30) DEF TypeOK, CacheModule
  <2> HIDE DEF i, f
  <2> QED
    BY <2>2, <2>3, <2>5, <2>6, <2>7 DEF TypeOK, ModuleType
<1>2. CASE \E i \in Object : SetExports(i)
  <2>1. PICK i \in Object : SetExports(i)
    BY <1>2
  <2>2. modules' \in Seq(ModuleType) /\ Object' = Object
    BY <2>1, SetExportsKeeps DEF Object
  <2> QED
    BY <2>1, <2>2 DEF TypeOK, ModuleType, SetExports, world
<1>3. CASE \E p \in Caller, f \in File : RequireCached(p, f)
  <2>1. PICK f \in File :
           /\ given' = given \cup {Answered(f, e[2]) : e \in {e \in cache : e[1] = f}}
           /\ UNCHANGED <<modules, cache, loading, hasException, process, host, disk, cwd,
                          failed>>
    BY <1>3 DEF RequireCached, world
  <2>3. \A e \in cache : Answered(f, e[2]) \in [file : File, object : Object]
    BY DEF Answered, TypeOK
  <2>4. given' \subseteq [file : File, object : Object]
    BY <2>1, <2>3 DEF TypeOK
  <2>5. Object' = Object
    BY <2>1 DEF Object
  <2> QED
    BY <2>1, <2>4, <2>5 DEF TypeOK
<1> QED
  BY <1>1, <1>2, <1>3

\* The steps that change nothing of the loader, by what they may change.
Quiet ==
    /\ UNCHANGED <<modules, cache, loading, given, failed, host>>
    /\ UNCHANGED process /\ hasException' \in BOOLEAN
    /\ DiskType(disk') /\ cwd' \in {FirstCwd} \cup Dirs

\* Next, by what its steps do.
LEMMA Steps ==
    ASSUME TypeOK, [Next]_vars
    PROVE  \/ Quiet
           \/ \E p \in Caller, f \in File : Calls(p, f) /\ RequireCached(p, f)
           \/ \E p \in Caller, f \in File :
                 /\ CanLoad(p, f)
                 /\ \/ LoadJs(p, f)
                    \/ \E valid \in BOOLEAN : LoadJson(p, f, valid)
                    \/ LoadOther(p, f)
           \/ \E threw \in BOOLEAN : EndScript(threw)
           \/ \E i \in Object : SetExports(i)
<1>0. /\ DiskType(disk) /\ cwd \in {FirstCwd} \cup Dirs /\ hasException \in BOOLEAN
  BY DEF TypeOK, DiskType
<1>1. CASE UNCHANGED vars \/ \E p \in Caller : RequireNative(p) \/ RequireMissing(p)
  BY <1>0, <1>1 DEF Quiet, RequireNative, RequireMissing, vars, loader, world
<1>2. CASE RenameFile \/ MakeDir \/ RemoveDir \/ Truncate
  <2>1. UNCHANGED <<loader, process, host, cwd>>
    BY <1>2 DEF RenameFile, MakeDir, RemoveDir, Truncate, CallFs
  <2> QED
    BY <1>0, <1>2, <2>1, FsKeepsDisk DEF Quiet, loader
<1>3. CASE Catch \/ \E d \in Dirs : Chdir(d)
  BY <1>0, <1>3 DEF Quiet, Catch, Chdir, loader, world
<1>4. CASE \E p \in Caller :
              \E f \in File \cap {Resolved(p, request) : request \in Asks(p)} : Require(p, f)
  BY <1>4, ZenonT(30) DEF Require, RequireCached, LoadJs, LoadJson, LoadOther
<1> QED
  BY <1>1, <1>2, <1>3, <1>4 DEF Next

LEMMA CallerType == TypeOK => Caller \subseteq Object \cup {None}
BY DEF Caller, TypeOK

LEMMA TypeStep == TypeOK /\ [Next]_vars => TypeOK'
<1> SUFFICES ASSUME TypeOK, [Next]_vars PROVE TypeOK'
  OBVIOUS
<1>1. CASE Quiet
  BY <1>1 DEF Quiet, TypeOK, DiskType, Object
<1> QED
  BY <1>1, Steps, TypeLoad, TypeRest, CallerType

\* The variables of the module loader keep their types, whatever scripts do.
THEOREM TypeCorrect == Spec => []TypeOK
BY TypeInit, TypeStep, PTL DEF Spec

-----------------------------------------------------------------------------
(* The tree of parents and children. *)

\* Parents and children are objects there are: without it a new object could be taken
\* for somebody's child already.
Related ==
    \A i \in Object :
        /\ modules[i].parent \in Object \cup {None}
        /\ \A k \in 1..Len(modules[i].children) : modules[i].children[k] \in Object

TreeInv == Related /\ ParentsAndChildrenAgree

LEMMA TreeInit == Init => TreeInv
BY DEF Init, TreeInv, Related, ParentsAndChildrenAgree, Object

\* Steps that make no object leave the tree as it is.
LEMMA TreeStays ==
    ASSUME Related, ParentsAndChildrenAgree, Object' = Object,
           \A i \in Object : /\ modules'[i].parent = modules[i].parent
                             /\ modules'[i].children = modules[i].children
    PROVE  Related' /\ ParentsAndChildrenAgree'
<1>1. Related'
  BY DEF Related
<1>2. ParentsAndChildrenAgree'
  BY DEF ParentsAndChildrenAgree
<1> QED
  BY <1>1, <1>2

\* A new object is a leaf, and the last child of its parent.
LEMMA TreeGrows ==
    ASSUME TypeOK, Related, ParentsAndChildrenAgree,
           NEW p \in Object \cup {None}, NEW f \in File, Grown(p, f)
    PROVE  Related' /\ ParentsAndChildrenAgree'
<1> DEFINE n == Len(modules) + 1
<1>1. /\ Object = 1 .. Len(modules) /\ Len(modules) \in Nat /\ Object' = Object \cup {n}
      /\ n \notin Object /\ None # n /\ None \notin Object
  BY LoaderAssumption, SMTT(30) DEF Grown, TypeOK, Object
<1>2. /\ modules'[n].parent = p /\ modules'[n].children = <<>>
      /\ \A i \in Object :
            /\ modules'[i].parent = modules[i].parent
            /\ modules'[i].children = IF i = p THEN Append(modules[i].children, n)
                                      ELSE modules[i].children
  BY DEF Grown, Same
<1>3. \A i \in Object : modules[i].children \in Seq(Nat)
  <2>1. modules \in Seq(ModuleType)
    BY DEF TypeOK, ModuleType
  <2>2. \A i \in Object : modules[i] \in ModuleType
    BY <1>1, <2>1
  <2> QED
    BY <2>2 DEF ModuleType
<1>4. ASSUME NEW i \in Object
      PROVE  LET c == modules[i].children  d == modules'[i].children IN
             /\ Len(c) \in Nat /\ \A k \in 1..Len(c) : c[k] \in Object /\ d[k] = c[k]
             /\ i # p => Len(d) = Len(c)
             /\ i = p => Len(d) = Len(c) + 1 /\ d[Len(d)] = n
  <2> DEFINE c == modules[i].children  d == modules'[i].children
  <2>1. c \in Seq(Nat) /\ n \in Nat /\ \A k \in 1..Len(c) : c[k] \in Object
    BY <1>1, <1>3 DEF Related
  <2>2. d = IF i = p THEN Append(c, n) ELSE c
    BY <1>2
  <2>3. /\ Len(c) \in Nat /\ \A k \in 1..Len(c) : c[k] \in Object /\ d[k] = c[k]
        /\ i # p => Len(d) = Len(c)
        /\ i = p => Len(d) = Len(c) + 1 /\ d[Len(d)] = n
    <3> HIDE DEF c, d, n
    <3>1. CASE i = p
      BY <2>1, <2>2, <3>1
    <3>2. CASE i # p
      BY <2>1, <2>2, <3>2
    <3> QED
      BY <3>1, <3>2
  <2> QED
    BY <2>3
<1>5. Related'
  <2> SUFFICES ASSUME NEW i \in Object'
               PROVE  /\ modules'[i].parent \in Object' \cup {None}
                      /\ \A k \in 1..Len(modules'[i].children) :
                            modules'[i].children[k] \in Object'
    BY DEF Related
  <2>1. CASE i = n
    BY <1>1, <1>2, <2>1
  <2>2. CASE i \in Object
    <3> DEFINE c == modules[i].children  d == modules'[i].children
    <3>1. /\ Len(c) \in Nat /\ \A k \in 1..Len(c) : c[k] \in Object /\ d[k] = c[k]
          /\ i # p => Len(d) = Len(c)
          /\ i = p => Len(d) = Len(c) + 1 /\ d[Len(d)] = n
      BY <1>4, <2>2
    <3>2. modules'[i].parent \in Object' \cup {None}
      BY <1>1, <1>2, <2>2 DEF Related
    <3> HIDE DEF c, d, n
    <3>3. \A k \in 1..Len(d) : d[k] \in Object'
      BY <1>1, <3>1
    <3> QED
      BY <3>2, <3>3 DEF d
  <2> QED
    BY <1>1, <2>1, <2>2
<1>6. ParentsAndChildrenAgree'
  <2> SUFFICES ASSUME NEW i \in Object'
               PROVE  LET d == modules'[i].children IN
                      /\ \A j \in Object' : modules'[j].parent = i
                            <=> \E k \in 1..Len(d) : d[k] = j
                      /\ \A k, m \in 1..Len(d) : k < m => d[k] < d[m]
                      /\ \A k \in 1..Len(d) : i < d[k]
    BY DEF ParentsAndChildrenAgree
  <2>1. CASE i = n
    <3>1. \A j \in Object' : modules'[j].parent # n
      BY <1>1, <1>2 DEF Related
    <3> QED
      BY <1>2, <2>1, <3>1
  <2>2. CASE i \in Object
    <3> DEFINE c == modules[i].children  d == modules'[i].children
    <3>1. /\ \A j \in Object : modules[j].parent = i <=> \E k \in 1..Len(c) : c[k] = j
          /\ \A k, m \in 1..Len(c) : k < m => c[k] < c[m]
          /\ \A k \in 1..Len(c) : i < c[k]
      BY <2>2 DEF ParentsAndChildrenAgree
    <3>2. /\ Len(c) \in Nat /\ \A k \in 1..Len(c) : c[k] \in Object /\ d[k] = c[k]
          /\ i # p => Len(d) = Len(c)
          /\ i = p => Len(d) = Len(c) + 1 /\ d[Len(d)] = n
      BY <1>4, <2>2
    <3> HIDE DEF c, d
    <3>3. \A j \in Object : modules'[j].parent = i <=> \E k \in 1..Len(d) : d[k] = j
      <4>1. \A j \in Object : (\E k \in 1..Len(c) : c[k] = j) <=> (\E k \in 1..Len(d) : d[k] = j)
        <5> HIDE DEF n
        <5>1. CASE i = p
          BY <1>1, <3>2, <5>1, SMTT(30)
        <5>2. CASE i # p
          BY <3>2, <5>2
        <5> QED
          BY <5>1, <5>2
      <4> QED
        BY <1>2, <3>1, <4>1
    <3>4. modules'[n].parent = i <=> \E k \in 1..Len(d) : d[k] = n
      <4> HIDE DEF n
      <4>1. CASE i = p
        BY <1>1, <1>2, <3>2, <4>1
      <4>2. CASE i # p
        BY <1>1, <1>2, <3>2, <4>2
      <4> QED
        BY <4>1, <4>2
    <3>5. \A k, m \in 1..Len(d) : k < m => d[k] < d[m]
      BY <1>1, <3>1, <3>2
    <3>6. \A k \in 1..Len(d) : i < d[k]
      BY <1>1, <2>2, <3>1, <3>2
    <3> QED
      BY <1>1, <3>3, <3>4, <3>5, <3>6 DEF d
  <2> QED
    BY <1>1, <2>1, <2>2
<1> QED
  BY <1>5, <1>6

LEMMA TreeStep == TypeOK /\ TreeInv /\ [Next]_vars => TreeInv'
<1> SUFFICES ASSUME TypeOK, TreeInv, [Next]_vars PROVE TreeInv'
  OBVIOUS
<1> USE DEF TreeInv
<1>1. CASE \/ Quiet
           \/ \E p \in Caller, f \in File : Calls(p, f) /\ RequireCached(p, f)
  <2>1. modules' = modules
    BY <1>1 DEF Quiet, RequireCached
  <2> QED
    BY <2>1, TreeStays DEF Object
<1>2. CASE \E p \in Caller, f \in File :
              /\ CanLoad(p, f)
              /\ \/ LoadJs(p, f)
                 \/ \E valid \in BOOLEAN : LoadJson(p, f, valid)
                 \/ LoadOther(p, f)
  <2>1. PICK p \in Caller, f \in File :
           \/ LoadJs(p, f)
           \/ \E valid \in BOOLEAN : LoadJson(p, f, valid)
           \/ LoadOther(p, f)
    BY <1>2
  <2>2. Grown(p, f) /\ p \in Object \cup {None}
    BY <2>1, CallerType, LoadGrows
  <2> QED
    BY <2>2, TreeGrows
<1>3. CASE \E threw \in BOOLEAN : EndScript(threw)
  <2>1. Kept /\ Object' = Object
    BY <1>3, EndScriptKeeps
  <2> QED
    BY <2>1, TreeStays DEF Kept, Same
<1>4. CASE \E i \in Object : SetExports(i)
  <2>1. /\ Object' = Object
        /\ \A j \in Object : /\ modules'[j].parent = modules[j].parent
                             /\ modules'[j].children = modules[j].children
    BY <1>4, SetExportsKeeps DEF Object
  <2> QED
    BY <2>1, TreeStays
<1> QED
  BY <1>1, <1>2, <1>3, <1>4, Steps

\* "parent" and "children" describe the same tree at all times.
THEOREM OneTree == Spec => []ParentsAndChildrenAgree
BY TypeInit, TypeStep, TreeInit, TreeStep, PTL DEF Spec, TreeInv

-----------------------------------------------------------------------------
(* What require gives. *)

\* In the binary nothing has failed while the program runs: stronger than to say that
\* nobody has been given what failed, because the object may be given later.
NothingFailed == host = "binary" /\ process = "running" => failed = {}

LEMMA FailedStep == TypeOK /\ NothingFailed /\ [Next]_vars => NothingFailed'
<1> SUFFICES ASSUME TypeOK, NothingFailed, [Next]_vars PROVE NothingFailed'
  OBVIOUS
<1>1. CASE \/ Quiet
           \/ \E p \in Caller, f \in File : RequireCached(p, f)
           \/ \E i \in Object : SetExports(i)
  BY <1>1 DEF NothingFailed, Quiet, RequireCached, SetExports
<1>2. CASE \E p \in Caller, f \in File :
              \/ LoadJs(p, f)
              \/ \E valid \in BOOLEAN : LoadJson(p, f, valid)
              \/ LoadOther(p, f)
  <2>1. CASE \E p \in Caller, f \in File : LoadJs(p, f) \/ LoadOther(p, f)
    BY <2>1 DEF NothingFailed, LoadJs, LoadOther
  <2>2. CASE \E p \in Caller, f \in File : \E valid \in BOOLEAN : LoadJson(p, f, valid)
    <3>1. PICK valid \in BOOLEAN :
             /\ host' = host /\ process = "running"
             /\ failed' = failed \/ ~valid
             /\ ExceptionCheck(~valid)
      BY <2>2 DEF LoadJson, CanLoad, Calls, Running
    <3> QED
      BY <3>1 DEF NothingFailed, ExceptionCheck
  <2> QED
    BY <1>2, <2>1, <2>2
<1>3. CASE \E threw \in BOOLEAN : EndScript(threw)
  <2>1. PICK threw \in BOOLEAN :
           /\ host' = host /\ process = "running"
           /\ failed' = failed \/ threw
           /\ ExceptionCheck(threw)
    BY <1>3 DEF EndScript
  <2> QED
    BY <2>1 DEF NothingFailed, ExceptionCheck
<1> QED
  BY <1>1, <1>2, <1>3, Steps

\* In the binary nobody is given the module of a file that failed.
THEOREM NoFailedModule == Spec => []FailedNeverGiven
<1>1. Init => NothingFailed
  BY DEF Init, NothingFailed
<1>2. NothingFailed => FailedNeverGiven
  BY DEF NothingFailed, FailedNeverGiven
<1> QED
  BY <1>1, <1>2, TypeInit, TypeStep, FailedStep, PTL DEF Spec

-----------------------------------------------------------------------------
(* The cache, if no files require each other in a circle. *)

\* Along the stack the ranks go up, and nothing on it is cached.
StackRises(rank) ==
    /\ \A k, m \in 1..Len(loading) : k < m => rank[modules[loading[k]].file] < rank[modules[loading[m]].file]
    /\ \A k \in 1..Len(loading) : ~Cached(modules[loading[k]].file)

\* While the program runs each object is cached or being loaded.
AllHeld ==
    process = "running" =>
        \A i \in Object : <<modules[i].file, i>> \in cache \/ \E k \in 1..Len(loading) : loading[k] = i

\* An object is cached, and given, for its own file, and for nobody else's.
OwnFiles ==
    /\ \A e \in cache : modules[e[2]].file = e[1]
    /\ \A e \in given : modules[e.object].file = e.file
    /\ \A i, j \in Object : modules[i].file = modules[j].file => i = j

CacheInv(rank) == StackRises(rank) /\ AllHeld /\ OwnFiles

LEMMA CacheInit == ASSUME NEW rank PROVE Init => CacheInv(rank)
BY DEF Init, CacheInv, StackRises, AllHeld, OwnFiles, Object

\* What is asked for while a script runs has a lower rank than its file.
LEMMA RankGoesDown ==
    ASSUME TypeOK, NEW rank \in [File -> Nat], Descending(rank), loading # <<>>,
           NEW p \in Caller, NEW f \in File, Calls(p, f)
    PROVE  rank[f] < rank[modules[Head(loading)].file]
<1> DEFINE g == modules[Head(loading)].file
<1>1. \A i \in Object : modules[i].file \in File
  <2>1. modules \in Seq(ModuleType) /\ Object = 1 .. Len(modules)
    BY DEF TypeOK, ModuleType, Object
  <2>2. \A i \in Object : modules[i] \in ModuleType
    BY <2>1
  <2> QED
    BY <2>2 DEF ModuleType
<1>2. Head(loading) \in Object /\ g \in File /\ None \notin Object
  <2>1. loading \in Seq(Object) /\ Object = 1 .. Len(modules) /\ Len(modules) \in Nat
    BY DEF TypeOK, Object
  <2>2. Head(loading) \in Object
    BY <2>1
  <2> QED
    BY <1>1, <2>1, <2>2, LoaderAssumption
<1>3. PICK request \in Asks(p) : f = ResolveModule(request, From(p))
  BY DEF Calls, Resolved
<1>4. request \notin Native /\ <<FileOf(p), request>> \in ({g} \X Requests[g]) \cup Meanwhile[g]
  <2>1. /\ request \in Own(p) /\ request \notin Native
        /\ p = Head(loading) \/ <<FileOf(p), request>> \in Meanwhile[g]
    BY <1>3 DEF Asks, Now
  <2>2. p = Head(loading) => FileOf(p) = g /\ Own(p) = Requests[g]
    BY <1>2 DEF FileOf, Own
  <2> QED
    BY <2>1, <2>2
<1>5. From(p) \in Starts(FileOf(p))
  <2>1. CASE p = None
    BY <2>1 DEF From, Starts, FileOf, TypeOK
  <2>2. CASE p # None
    <3>1. FileOf(p) # None
      BY <1>1, <2>2, LoaderAssumption DEF FileOf, Caller
    <3> QED
      BY <2>2, <3>1 DEF From, Starts, FileOf
  <2> QED
    BY <2>1, <2>2
<1>6. f \in Candidates(From(p), request)
  BY <1>3, LoaderAssumption DEF ResolveModule, Candidates
<1> QED
  BY <1>2, <1>4, <1>5, <1>6 DEF Descending

\* A file that is neither cached nor on the stack has no object.
LEMMA NewFile ==
    ASSUME TypeOK, NEW rank \in [File -> Nat], Descending(rank), CacheInv(rank),
           NEW p \in Caller, NEW f \in File, CanLoad(p, f)
    PROVE  /\ \A i \in Object : modules[i].file # f
           /\ \A k \in 1..Len(loading) : rank[f] < rank[modules[loading[k]].file]
<1>1. /\ loading \in Seq(Object) /\ Len(loading) \in Nat
      /\ \A i \in Object : modules[i].file \in File
  <2>1. modules \in Seq(ModuleType) /\ Object = 1 .. Len(modules) /\ loading \in Seq(Object)
    BY DEF TypeOK, ModuleType, Object
  <2>2. \A i \in Object : modules[i] \in ModuleType
    BY <2>1
  <2> QED
    BY <2>1, <2>2 DEF ModuleType
<1>2. Calls(p, f) /\ ~Cached(f) /\ process = "running"
  BY DEF CanLoad, Calls, Running
<1>3. \A k \in 1..Len(loading) : rank[f] < rank[modules[loading[k]].file]
  <2> TAKE k \in 1..Len(loading)
  <2>1. /\ loading # <<>> /\ Head(loading) = loading[1] /\ 1 \in 1..Len(loading)
        /\ loading[1] \in Object /\ loading[k] \in Object
    BY <1>1
  <2>2. rank[f] < rank[modules[loading[1]].file]
    BY <1>2, <2>1, RankGoesDown
  <2>3. k = 1 \/ rank[modules[loading[1]].file] < rank[modules[loading[k]].file]
    BY <1>1, <2>1 DEF CacheInv, StackRises
  <2>4. rank[f] \in Nat /\ rank[modules[loading[1]].file] \in Nat /\ rank[modules[loading[k]].file] \in Nat
    BY <1>1, <2>1
  <2> QED
    BY <2>2, <2>3, <2>4
<1>4. ASSUME NEW i \in Object, modules[i].file = f PROVE FALSE
  <2>1. <<f, i>> \notin cache
    BY <1>2 DEF Cached
  <2>2. PICK k \in 1..Len(loading) : loading[k] = i
    BY <1>2, <1>4, <2>1 DEF CacheInv, AllHeld
  <2>3. rank[f] < rank[f]
    BY <1>3, <1>4, <2>2
  <2> QED
    BY <2>3
<1> QED
  BY <1>3, <1>4

LEMMA CacheLoad ==
    ASSUME TypeOK, NEW rank \in [File -> Nat], Descending(rank), CacheInv(rank),
           NEW p \in Caller, NEW f \in File, CanLoad(p, f),
           \/ LoadJs(p, f)
           \/ \E valid \in BOOLEAN : LoadJson(p, f, valid)
           \/ LoadOther(p, f)
    PROVE  CacheInv(rank)'
<1> DEFINE n == Len(modules) + 1
<1>1. /\ \A i \in Object : modules[i].file # f
      /\ \A k \in 1..Len(loading) : rank[f] < rank[modules[loading[k]].file]
      /\ ~Cached(f)
  BY NewFile DEF CanLoad
<1>2. /\ modules'[n].file = f /\ \A i \in Object : modules'[i].file = modules[i].file
      /\ Object' = Object \cup {n} /\ n \notin Object
  <2>1. Grown(p, f)
    BY CallerType, LoadGrows
  <2>2. Len(modules) \in Nat
    BY DEF TypeOK
  <2> QED
    BY <2>1, <2>2 DEF Grown, Same, Object
<1>3. /\ loading \in Seq(Object) /\ Len(loading) \in Nat
      /\ \A k \in 1..Len(loading) : loading[k] \in Object
      /\ \A e \in cache : e[2] \in Object /\ e = <<e[1], e[2]>>
      /\ \A e \in given : e.object \in Object
  BY DEF TypeOK
<1>4. /\ \A e \in cache : modules'[e[2]].file = e[1]
      /\ \A e \in given : modules'[e.object].file = e.file
      /\ \A i, j \in Object' : modules'[i].file = modules'[j].file => i = j
  BY <1>1, <1>2, <1>3 DEF CacheInv, OwnFiles
<1> HIDE DEF n
<1>5. CASE LoadJs(p, f)
  <2>1. loading' = <<n>> \o loading /\ cache' = cache /\ given' = given /\ process' = process
    BY <1>5 DEF LoadJs, n
  <2>2. /\ loading'[1] = n /\ Len(loading') = Len(loading) + 1
        /\ \A k \in 1..Len(loading) : loading'[k + 1] = loading[k]
    <3>1. loading \in Seq(Object \cup {n})
      BY <1>3, SeqMonotonic
    <3> QED
      BY <2>1, <3>1, Pushed
  <2>3. \A k \in 1..Len(loading') :
           \/ k = 1
           \/ /\ k - 1 \in 1..Len(loading) /\ loading'[k] = loading[k - 1]
              /\ modules'[loading'[k]].file = modules[loading[k - 1]].file
    <3> TAKE k \in 1..Len(loading')
    <3>1. k = 1 \/ (k - 1 \in 1..Len(loading) /\ (k - 1) + 1 = k)
      BY <1>3, <2>2
    <3> QED
      BY <1>2, <1>3, <2>2, <3>1
  <2>4. modules'[loading'[1]].file = f
    BY <1>2, <2>2
  <2>5. StackRises(rank)'
    <3>1. ASSUME NEW k \in 1..Len(loading'), NEW m \in 1..Len(loading'), k < m
          PROVE  rank[modules'[loading'[k]].file] < rank[modules'[loading'[m]].file]
      <4>1. m # 1 /\ k \in Nat /\ m \in Nat
        BY <1>3, <2>2, <3>1
      <4>2. m - 1 \in 1..Len(loading) /\ modules'[loading'[m]].file = modules[loading[m - 1]].file
        BY <2>3, <4>1
      <4>3. CASE k = 1
        BY <1>1, <2>4, <4>2, <4>3
      <4>4. CASE k # 1
        <5>1. k - 1 \in 1..Len(loading) /\ modules'[loading'[k]].file = modules[loading[k - 1]].file
          BY <2>3, <4>4
        <5>2. k - 1 < m - 1
          BY <3>1, <4>1
        <5> QED
          BY <4>2, <5>1, <5>2 DEF CacheInv, StackRises
      <4> QED
        BY <4>3, <4>4
    <3>2. ASSUME NEW k \in 1..Len(loading') 
          PROVE  \A o \in Object' : <<modules'[loading'[k]].file, o>> \notin cache'
      <4>1. ASSUME NEW g, ~Cached(g) PROVE \A i \in Object' : <<g, i>> \notin cache
        BY <1>2, <1>3, <4>1 DEF Cached
      <4>2. ~Cached(modules'[loading'[k]].file)
        BY <1>1, <2>3, <2>4 DEF CacheInv, StackRises
      <4> QED
        BY <2>1, <4>1, <4>2 DEF Cached
    <3> QED
      BY <3>1, <3>2 DEF StackRises, Cached
  <2>6. AllHeld'
    <3> SUFFICES ASSUME process = "running", NEW i \in Object'
                 PROVE  <<modules'[i].file, i>> \in cache \/ \E k \in 1..Len(loading') : loading'[k] = i
      BY <2>1 DEF AllHeld
    <3>1. CASE i = n
      BY <1>3, <2>2, <3>1, SMTT(30)
    <3>2. CASE i \in Object /\ <<modules[i].file, i>> \in cache
      BY <1>2, <3>2
    <3>3. CASE \E k \in 1..Len(loading) : loading[k] = i
      <4>1. PICK k \in 1..Len(loading) : loading[k] = i
        BY <3>3
      <4>2. k + 1 \in 1..Len(loading') /\ loading'[k + 1] = i
        BY <1>3, <2>2, <4>1
      <4> QED
        BY <4>2
    <3> QED
      BY <1>2, <3>1, <3>2, <3>3 DEF CacheInv, AllHeld
  <2>7. OwnFiles'
    BY <1>4, <2>1 DEF OwnFiles
  <2> QED
    BY <2>5, <2>6, <2>7 DEF CacheInv
<1>6. CASE \E valid \in BOOLEAN : LoadJson(p, f, valid)
  <2>1. /\ loading' = loading /\ cache' = cache \cup {<<f, n>>}
        /\ \A e \in given' : e \in given \/ (e.object = n /\ e.file = f)
    <3>1. {e \in cache : e[1] # f} = cache
      BY <1>1, <1>3 DEF Cached
    <3>2. /\ loading' = loading /\ cache' = CacheModule(f, n)
          /\ given' = given \cup {Answered(f, n)}
      BY <1>6 DEF LoadJson, n
    <3> QED
      BY <3>1, <3>2 DEF CacheModule, Answered
  <2>2. StackRises(rank)'
    <3>1. \A k \in 1..Len(loading) : modules'[loading[k]].file = modules[loading[k]].file /\ modules[loading[k]].file # f
      BY <1>1, <1>2, <1>3
    <3>2. \A k \in 1..Len(loading) :
             \A o \in Object' : <<modules'[loading[k]].file, o>> \notin cache'
      <4> TAKE k \in 1..Len(loading)
      <4>1. ~Cached(modules[loading[k]].file)
        BY DEF CacheInv, StackRises
      <4> QED
        BY <1>2, <1>3, <2>1, <3>1, <4>1 DEF Cached
    <3> QED
      BY <2>1, <3>1, <3>2 DEF StackRises, CacheInv, Cached
  <2>3. AllHeld'
    <3>1. process = "running"
      BY DEF CanLoad, Calls, Running
    <3> QED
      BY <1>2, <2>1, <3>1 DEF AllHeld, CacheInv
  <2>4. OwnFiles'
    BY <1>2, <1>4, <2>1 DEF OwnFiles
  <2> QED
    BY <2>2, <2>3, <2>4 DEF CacheInv
<1>7. CASE LoadOther(p, f)
  <2>1. loading' = loading /\ cache' = cache /\ given' = given /\ process' = "aborted"
    BY <1>7 DEF LoadOther
  <2>2. StackRises(rank)'
    <3>1. \A k \in 1..Len(loading) : modules'[loading[k]].file = modules[loading[k]].file
      BY <1>2, <1>3
    <3>2. \A k \in 1..Len(loading) :
             \A o \in Object' : <<modules'[loading[k]].file, o>> \notin cache'
      <4> TAKE k \in 1..Len(loading)
      <4>1. ~Cached(modules[loading[k]].file)
        BY DEF CacheInv, StackRises
      <4> QED
        BY <1>2, <1>3, <2>1, <3>1, <4>1 DEF Cached
    <3> QED
      BY <2>1, <3>1, <3>2 DEF StackRises, CacheInv, Cached
  <2>3. AllHeld'
    BY <2>1 DEF AllHeld
  <2>4. OwnFiles'
    BY <1>4, <2>1 DEF OwnFiles
  <2> QED
    BY <2>2, <2>3, <2>4 DEF CacheInv
<1> QED
  BY <1>5, <1>6, <1>7

LEMMA CacheEnd ==
    ASSUME TypeOK, NEW rank \in [File -> Nat], CacheInv(rank),
           NEW threw \in BOOLEAN, EndScript(threw)
    PROVE  CacheInv(rank)'
<1> DEFINE i == Head(loading)  f == modules[i].file
<1>1. /\ \A j \in Object : modules'[j].file = modules[j].file
      /\ Object' = Object /\ loading # <<>> /\ i \in Object /\ loading' = Tail(loading)
      /\ f \in File
  BY EndScriptKeeps DEF Kept, Same
<1>2. /\ loading \in Seq(Object) /\ Len(loading) \in Nat \ {0} /\ i = loading[1]
      /\ \A k \in 1..Len(loading) : loading[k] \in Object
      /\ \A e \in cache : e[2] \in Object /\ e = <<e[1], e[2]>>
      /\ \A e \in given : e.object \in Object
  BY <1>1, SMTT(30) DEF TypeOK
<1>3. /\ Len(loading') = Len(loading) - 1
      /\ \A k \in 1..Len(loading') : loading'[k] = loading[k + 1] /\ k + 1 \in 2..Len(loading)
  BY <1>1, <1>2
<1>4. /\ cache' = CacheModule(f, i)
      /\ \A e \in given' : e \in given \/ (e.object = i /\ e.file = f)
      /\ process = "running"
  BY DEF EndScript, Answered
<1> HIDE DEF i, f
<1>5. StackRises(rank)'
  <2>1. \A k \in 1..Len(loading') : modules'[loading'[k]].file = modules[loading[k + 1]].file
    BY <1>1, <1>2, <1>3
  <2>2. \A k \in 1..Len(loading') : modules[loading[k + 1]].file # f
    <3> TAKE k \in 1..Len(loading')
    <3>1. 1 < k + 1 /\ 1 \in 1..Len(loading) /\ k + 1 \in 1..Len(loading)
      BY <1>2, <1>3
    <3>2. rank[f] < rank[modules[loading[k + 1]].file]
      BY <1>2, <3>1 DEF CacheInv, StackRises, f
    <3>3. rank[f] \in Nat
      BY <1>1
    <3> QED
      BY <3>2, <3>3
  <2>3. \A k \in 1..Len(loading') :
           \A o \in Object' : <<modules'[loading'[k]].file, o>> \notin cache'
    <3> TAKE k \in 1..Len(loading')
    <3>1. k + 1 \in 1..Len(loading)
      BY <1>2, <1>3
    <3>2. ~Cached(modules[loading[k + 1]].file)
      BY <3>1 DEF CacheInv, StackRises
    <3> QED
      BY <1>1, <1>4, <2>1, <2>2, <3>2 DEF Cached, CacheModule
  <2>4. ASSUME NEW k \in 1..Len(loading'), NEW m \in 1..Len(loading'), k < m
        PROVE  rank[modules'[loading'[k]].file] < rank[modules'[loading'[m]].file]
    <3>1. k + 1 \in 1..Len(loading) /\ m + 1 \in 1..Len(loading) /\ k + 1 < m + 1
      BY <1>2, <1>3, <2>4
    <3> QED
      BY <2>1, <3>1 DEF CacheInv, StackRises
  <2> QED
    BY <2>3, <2>4 DEF StackRises, Cached
<1>6. AllHeld'
  <2> SUFFICES ASSUME NEW j \in Object
               PROVE  <<modules'[j].file, j>> \in cache' \/ \E k \in 1..Len(loading') : loading'[k] = j
    BY <1>1 DEF AllHeld
  <2>1. CASE j = i
    BY <1>1, <1>4, <2>1 DEF CacheModule, f
  <2>2. CASE j # i /\ <<modules[j].file, j>> \in cache
    <3>1. modules[j].file # f
      BY <1>1, <2>2 DEF CacheInv, OwnFiles, f
    <3> QED
      BY <1>1, <1>4, <2>2, <3>1 DEF CacheModule
  <2>3. CASE j # i /\ \E k \in 1..Len(loading) : loading[k] = j
    <3>1. PICK k \in 1..Len(loading) : loading[k] = j
      BY <2>3
    <3>2. k # 1
      BY <1>2, <2>3, <3>1
    <3>3. k - 1 \in 1..Len(loading') /\ loading'[k - 1] = loading[k]
      BY <1>2, <1>3, <3>2
    <3> QED
      BY <3>1, <3>3
  <2> QED
    BY <1>4, <2>1, <2>2, <2>3 DEF CacheInv, AllHeld
<1>7. OwnFiles'
  <2>1. \A e \in cache' : modules'[e[2]].file = e[1]
    <3> TAKE e \in cache'
    <3>1. CASE e \in cache
      BY <1>1, <1>2, <3>1 DEF CacheInv, OwnFiles
    <3>2. CASE e = <<f, i>>
      BY <1>1, <3>2 DEF f
    <3> QED
      BY <1>4, <3>1, <3>2 DEF CacheModule
  <2>2. \A e \in given' : modules'[e.object].file = e.file
    <3> TAKE e \in given'
    <3>1. CASE e \in given
      BY <1>1, <1>2, <3>1 DEF CacheInv, OwnFiles
    <3>2. CASE e.object = i /\ e.file = f
      BY <1>1, <3>2 DEF f
    <3> QED
      BY <1>4, <3>1, <3>2
  <2>3. \A j, k \in Object' : modules'[j].file = modules'[k].file => j = k
    BY <1>1 DEF CacheInv, OwnFiles
  <2> QED
    BY <2>1, <2>2, <2>3 DEF OwnFiles
<1> QED
  BY <1>5, <1>6, <1>7 DEF CacheInv

LEMMA CacheStep ==
    ASSUME NEW rank \in [File -> Nat], Descending(rank)
    PROVE  TypeOK /\ CacheInv(rank) /\ [Next]_vars => CacheInv(rank)'
<1> SUFFICES ASSUME TypeOK, CacheInv(rank), [Next]_vars PROVE CacheInv(rank)'
  OBVIOUS
<1>1. CASE Quiet
  BY <1>1 DEF Quiet, CacheInv, StackRises, AllHeld, OwnFiles, Object, Cached
<1>2. CASE \E p \in Caller, f \in File : RequireCached(p, f)
  <2>1. PICK f \in File :
           /\ given' = given \cup {Answered(f, e[2]) : e \in {e \in cache : e[1] = f}}
           /\ UNCHANGED <<modules, cache, loading, process>>
    BY <1>2 DEF RequireCached
  <2>2. \A e \in given' : e \in given \/ modules[e.object].file = e.file
    BY <2>1 DEF Answered, CacheInv, OwnFiles
  <2> QED
    BY <2>1, <2>2 DEF CacheInv, StackRises, AllHeld, OwnFiles, Object, Cached
<1>3. CASE \E i \in Object : SetExports(i)
  <2>1. PICK i \in Object : SetExports(i)
    BY <1>3
  <2>2. /\ \A j \in Object : modules'[j].file = modules[j].file
        /\ Object' = Object
        /\ UNCHANGED <<cache, loading, process, given>>
    BY <2>1, SetExportsKeeps DEF Object, SetExports
  <2>3. /\ \A k \in 1..Len(loading) : loading[k] \in Object
        /\ \A e \in cache : e[2] \in Object
        /\ \A e \in given : e.object \in Object
    BY DEF TypeOK
  <2>4. StackRises(rank)'
    BY <2>2, <2>3 DEF CacheInv, StackRises, Cached
  <2>5. AllHeld'
    BY <2>2, <2>3 DEF CacheInv, AllHeld
  <2>6. OwnFiles'
    BY <2>2, <2>3 DEF CacheInv, OwnFiles
  <2> QED
    BY <2>4, <2>5, <2>6 DEF CacheInv
<1> QED
  BY <1>1, <1>2, <1>3, Steps, CacheLoad, CacheEnd

\* cacheModule's assertion holds if no files require each other in a circle.
THEOREM NobodyCachedMeanwhile ==
    ASSUME NEW rank \in [File -> Nat], Descending(rank)
    PROVE  Spec => []CacheAssertion
<1>1. TypeOK /\ CacheInv(rank) => CacheAssertion
  BY DEF TypeOK, CacheInv, StackRises, CacheAssertion
<1>2. Init => CacheInv(rank)
  BY CacheInit
<1>3. TypeOK /\ CacheInv(rank) /\ [Next]_vars => CacheInv(rank)'
  BY CacheStep
<1> QED
  BY <1>1, <1>2, <1>3, TypeInit, TypeStep, PTL DEF Spec

\* And then a file has one module object, which all that require it are given.
THEOREM OneObject ==
    ASSUME NEW rank \in [File -> Nat], Descending(rank)
    PROVE  Spec => []OneObjectPerFile
<1>1. TypeOK /\ CacheInv(rank) => OneObjectPerFile
  <2> SUFFICES ASSUME TypeOK, CacheInv(rank) PROVE OneObjectPerFile
    OBVIOUS
  <2>1. \A e \in given : e.object \in Object /\ modules[e.object].file = e.file
    BY DEF TypeOK, CacheInv, OwnFiles
  <2>2. \A i, j \in Object : modules[i].file = modules[j].file => i = j
    BY DEF CacheInv, OwnFiles
  <2> QED
    BY <2>1, <2>2 DEF OneObjectPerFile
<1>2. Init => CacheInv(rank)
  BY CacheInit
<1>3. TypeOK /\ CacheInv(rank) /\ [Next]_vars => CacheInv(rank)'
  BY CacheStep
<1> QED
  BY <1>1, <1>2, <1>3, TypeInit, TypeStep, PTL DEF Spec

\* The entries for a file that is cached do not change.
LEMMA EntriesKept ==
    ASSUME NEW rank \in [File -> Nat], Descending(rank), TypeOK, CacheInv(rank), [Next]_vars,
           NEW g, Cached(g)
    PROVE  /\ Object \subseteq Object' /\ \A i \in Object : modules'[i].file = modules[i].file
           /\ \A i : <<g, i>> \in cache' <=> <<g, i>> \in cache
<1>0. Len(modules) \in Nat
  BY DEF TypeOK
<1>1. CASE \/ Quiet
           \/ \E p \in Caller, f \in File : RequireCached(p, f)
  BY <1>1 DEF Quiet, RequireCached, Object
<1>2. CASE \E i \in Object : SetExports(i)
  BY <1>2, SetExportsKeeps DEF Object, SetExports
<1>3. CASE \E p \in Caller, f \in File :
              /\ CanLoad(p, f)
              /\ \/ LoadJs(p, f)
                 \/ \E valid \in BOOLEAN : LoadJson(p, f, valid)
                 \/ LoadOther(p, f)
  <2>1. PICK p \in Caller, f \in File :
           /\ CanLoad(p, f)
           /\ \/ LoadJs(p, f)
              \/ \E valid \in BOOLEAN : LoadJson(p, f, valid)
              \/ LoadOther(p, f)
    BY <1>3
  <2>2. Grown(p, f)
    BY <2>1, CallerType, LoadGrows
  <2>3. Object \subseteq Object' /\ \A i \in Object : modules'[i].file = modules[i].file
    BY <1>0, <2>2 DEF Grown, Same, Object
  <2>4. g # f
    BY <2>1 DEF CanLoad
  <2>5. cache' = cache \/ \E i : cache' = CacheModule(f, i)
    BY <2>1 DEF LoadJs, LoadJson, LoadOther
  <2> QED
    BY <2>3, <2>4, <2>5 DEF CacheModule
<1>4. CASE \E threw \in BOOLEAN : EndScript(threw)
  <2> DEFINE i == Head(loading)  f == modules[i].file
  <2>1. Kept /\ Object' = Object /\ loading # <<>>
    BY <1>4, EndScriptKeeps
  <2>2. g # f
    <3>1. 1 \in 1..Len(loading) /\ i = loading[1]
      BY <2>1 DEF TypeOK
    <3> QED
      BY <3>1 DEF CacheInv, StackRises
  <2>3. cache' = CacheModule(f, i)
    BY <1>4 DEF EndScript
  <2> QED
    BY <2>1, <2>2, <2>3 DEF CacheModule, Kept, Same
<1> QED
  BY <1>1, <1>2, <1>3, <1>4, Steps

\* A module is answered the same request with the same object, as long as the files
\* stay where they are and none require each other in a circle.
THEOREM SameAnswers ==
    ASSUME NEW rank \in [File -> Nat], Descending(rank)
    PROVE  Spec => AnswersKept
<1>1. TypeOK /\ CacheInv(rank) /\ [Next]_vars =>
        (disk' = disk => \A p \in Object : \A request \in Own(p) \ Native :
           Known(p, request) # {} => Known(p, request)' = Known(p, request))
  <2> SUFFICES ASSUME TypeOK, CacheInv(rank), [Next]_vars, disk' = disk,
                      NEW p \in Object, NEW request \in Own(p) \ Native, Known(p, request) # {}
               PROVE  Known(p, request)' = Known(p, request)
    OBVIOUS
  <2> DEFINE g == Resolved(p, request)
  <2>1. Cached(g)
    BY DEF Known, Cached
  <2>2. /\ Object \subseteq Object' /\ \A i \in Object : modules'[i].file = modules[i].file
        /\ \A i : <<g, i>> \in cache' <=> <<g, i>> \in cache
    BY <2>1, EntriesKept
  <2>3. Resolved(p, request)' = g
    <3>1. p # None
      BY LoaderAssumption DEF Object, TypeOK
    <3> QED
      BY <2>2, <3>1 DEF Resolved, From, ResolveModule, IsFile, Exists
  <2>4. \A i : <<g, i>> \in cache => i \in Object
    BY DEF TypeOK
  <2> HIDE DEF g
  <2>5. Known(p, request)' = {i \in Object' : <<g, i>> \in cache'}
    BY <2>3 DEF Known
  <2>6. Known(p, request) = {i \in Object : <<g, i>> \in cache}
    BY DEF Known, g
  <2> QED
    BY <2>2, <2>4, <2>5, <2>6
<1>2. Init => CacheInv(rank)
  BY CacheInit
<1>3. TypeOK /\ CacheInv(rank) /\ [Next]_vars => CacheInv(rank)'
  BY CacheStep
<1> QED
  BY <1>1, <1>2, <1>3, TypeInit, TypeStep, PTL DEF Spec, AnswersKept
=============================================================================
