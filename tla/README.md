# A formal model of node.qml

node.qml embeds a Node.js-like environment in Qt's V4 JavaScript engine: a C++
library (`src/src/nodeqml`), a QML plugin (`src/src/imports/nodeqml`) and a
command-line program, the *nodeqml binary* (`src/tools/nodeqml`).  This directory
holds TLA+ models of it, the TLC configurations that check them, and TLAPS proofs
of all of it but the liveness.  All paths below are relative to `src/`.

The code has no tests to speak of (`tests/auto/lib/node/tst_node.cpp` is empty) and
few stated contracts: a doc comment on `doneCheck`, an assertion in `cacheModule`,
the comments of the JavaScript modules.  Its difficulty is not concurrency between
threads (there is one) but **re-entrancy**: C++ handlers call scripts, scripts call
C++, and two places call back into code that is in the middle of something:
`doneCheck` runs the event loop inside event handlers, and `require` and `emit` run
scripts that call `require` and `emit` again.

## Inventory

| component | source | state | operations | called by |
|---|---|---|---|---|
| Engine and event loop | `src/nodeqml/engine.cpp`, `globalextensions.cpp` | `m_timeoutCallbacks`, `m_intervalCallbacks`, Qt's timers and posted events, V4's `hasException` | `require`, `setTimeout`, `clearTimeout`, `setInterval`, `clearInterval`, `nextTick`, `timerEvent`, `customEvent`, `doneCheck`, `exceptionCheck`, signal `quit` | scripts, the event dispatcher |
| nodeqml binary | `tools/nodeqml/main.cpp` | exit code | `require(script)`, `quit` connected to `::exit`, `app->exec()` | the user |
| QML plugin | `src/imports/nodeqml` | none of its own | creates an `Engine` in a QML engine; nobody listens to `quit` | QML |
| process object | `src/nodeqml/modules/process.cpp` | working directory, environment | `exit`, `nextTick`, `chdir`, `cwd` | scripts |
| Module loader | `src/nodeqml/moduleobject.cpp`, cache in `engine.cpp` | `m_cachedModules`, `m_coreModules`, the tree of `ModuleObject`s | `require`, `load`, `compile`, `resolveModule` | scripts, `EnginePrivate::require` |
| EventEmitter | `src/nodeqml/js/events.js` | `_events`, `_maxListeners` | `emit`, `addListener`, `once`, `removeListener`, `removeAllListeners`, `listeners` | scripts |
| Buffer | `src/nodeqml/types/buffer.cpp`, `util/qarraydataslice.h` | reference-counted memory, slices of it | construct, `slice`, `copy`, `fill`, `write`, read and write of integers and floats, `concat`, `compare` | scripts, the garbage collector |
| assert | `src/nodeqml/js/assert.js` | none | `deepEqual`, `throws`, ... | scripts |
| util, console | `modules/util.cpp`, `console.cpp` | `console.time` marks | `format`, `inherits`, `is*`; `log`, `error`, `time`, `timeEnd` | scripts |
| fs | `modules/filesystem.cpp` | the file system | `existsSync`, `renameSync`, `rmdirSync`, ... one system call each | scripts |
| path | `modules/path.cpp` | none | `normalize`, `join`, `relative`, `basename`, ... | scripts |
| os, dns, errno exceptions | `modules/os.cpp`, `dns.cpp`, `types/errnoexception.cpp` | none | reads of the system; `dns` is commented out | scripts |

Interactions.  The binary and the plugin call `Engine::require`, which loads a module
(Module loader) and then calls `doneCheck`.  Scripts call the Engine through globals
(`globalextensions.cpp`) and `process`.  The Qt dispatcher calls `timerEvent` and
`customEvent`, which call scripts; `timerEvent` calls `doneCheck`, which calls the
dispatcher.  `quit` goes from `doneCheck` and `exceptionCheck` to the host.  The
Module loader shares `hasException`, `exceptionCheck` and the cache with the Engine.
EventEmitter and Buffer are libraries scripts call.

What is hard, and what makes each component correct:

* **Event loop.**  A timer's callback can run while another timer's event is being
  handled; timers are cleared while an outer pass has them on its list; an exception
  left by one callback silences others; `quit` must come when nothing is left, not
  before, and must come at all.  Correct: each timeout and `nextTick` callback runs
  once, in order, unless it was cleared; nothing cleared runs; the tables and Qt's
  timers agree; callbacks are lost to a pending exception and to nothing else; the
  binary never waits for nothing, and ends when the event loop is told to.
* **Module loader.**  A module is cached when its script has ended, while its script
  can require others, and call functions and listeners of other modules, which require in
  the names of those.  Correct: one object per file, given to everyone; `parent` and
  `children` describe one tree; a module that failed is not handed out.
* **EventEmitter.**  Listeners change the listeners that are being called.  Correct:
  an `emit` calls those registered when it began; a `once` listener runs once; those
  that listen for `removeListener` hear of every removal.
* **Buffer.**  Memory is shared by slices and freed by counting them.  Correct: it
  lives as long as a slice does; ranges and widths are exact.
* **path, util, assert**: pure functions with many cases.  Correct: path's functions agree
  with each other; `format` uses each argument once;
  `deepEqual` holds of what looks the same.
* **fs**: one system call each.  What matters is what it does to the loader: files come
  and go between two requires, and the working directory changes.

## Plan

Done, in this order: the event loop with both hosts (the core of the system), its
abstract specification and proofs; the module loader; Buffer's arithmetic; Buffer's
memory, its abstract specification and proofs; EventEmitter, its abstract specification
and a first proof; `path` and `fs`, and the loader on a disk, with `resolveModule`,
`module.exports`, `chdir` and its proofs; `util.format` and `assert`;
Buffer's floats, `byteLength` and `toJSON`; the proofs of the event loop's
refinement, and about EventEmitter's arrays; the proofs that Buffer implements
`BufferViews` and EventEmitter `ListenerLists`, those about Buffer's arithmetic, about
`format`, and about what `removeAllListeners` tells; those about path's
functions and `deepEqual`; the requires that scripts make in the names of other
modules, and the writes past the end of a slice.
Left:

1. A composition of `Engine` and `ModuleLoader`: they share `hasException` and
   `exceptionCheck`, and a global `require` runs the event loop under the script.
2. console's marks (`time`, `timeEnd`) and Buffer's `inspect`.

## Modules

| module | what it is | code |
|---|---|---|
| `Engine` | the state machine of the event loop | `engine.cpp`, `globalextensions.cpp`, `process.cpp`, `main.cpp`, the plugin |
| `CallbackLife` | abstract: what becomes of each function given to `setTimeout`, `setInterval`, `nextTick` | the promise of `engine.cpp` |
| `EngineProperties` | invariants, liveness, the refinement of `CallbackLife` | |
| `EngineProofs` | type correctness, the safety invariants and the refinement of `CallbackLife`, proved | |
| `ModuleLoader` | `require`, `load`, `compile`, `resolveModule`, the cache, the tree, `module.exports`, with its properties | `moduleobject.cpp`, `engine.cpp:112-173`, `process.cpp` |
| `ModuleLoaderProofs` | all its properties, proved | |
| `FileSystem` | the functions of fs on a disk of files and directories | `filesystem.cpp` |
| `Paths` | the functions of path, and the functions of Qt they and the loader use | `path.cpp` |
| `Util` | `format`, and what prints with it | `util.cpp`, `console.cpp` |
| `Assert` | the assertions, `deepEqual` on a heap of objects | `assert.js` |
| `BufferBytes` | Buffer's arithmetic, as operators | `buffer.cpp` |
| `Buffer` | Buffers, slices, blocks and reference counts, a state machine | `buffer.cpp`, `qarraydataslice.h` |
| `BufferViews` | abstract: Buffers as sequences of shared cells | the promise of `buffer.cpp` |
| `BufferProperties` | invariants and the refinement of `BufferViews` | |
| `BytesProofs` | lemmas about the operators of `BufferBytes` for every input, proved | |
| `BufferProofs` | the invariants of Buffer and its refinement of `BufferViews`, proved | |
| `EventEmitter` | the functions of an EventEmitter and the listeners that call them, a state machine | `events.js` |
| `ListenerLists` | abstract: a list of listeners per type, and the emits in progress | the promise of `events.js` |
| `EventEmitterProperties` | invariants and the refinement of `ListenerLists` | |
| `EventEmitterProofs` | its invariants, and its refinement of `ListenerLists`, proved | |
| `MCEngine`, `MCModuleLoader`, `MCBuffer`, `MCEventEmitter` | constants for TLC | |
| `MCLibrary` | the inputs and the reference definitions for `BufferBytes`, `Paths`, `Util` and `Assert` | |
| `LibraryProofs` | its eight invariants about `BufferBytes` and `Util`, proved | |
| `PathsProofs` | its invariant about `Paths`, proved | |
| `AssertProofs` | its invariant about `Assert`, proved | |

What composes what: `ModuleLoader` extends `FileSystem`, which extends `Paths`; `Buffer`
extends `BufferBytes`; `EngineProperties`, `BufferProperties` and
`EventEmitterProperties` instantiate the abstract specifications.

Definitions whose comment begins with "Mutant" are deliberate mistakes: variants of
the definition after them, with which a property of a run fails.

### Engine

There is one thread; what is hard is who calls whom.  So the state is the **C++ call
stack**, frame by frame (`require`, `module`, `handler`, `tick`, `timer`, `check`,
`posted`, `timers`), next to the variables of the code: `timeouts` and `intervals` are
the keys of `m_timeoutCallbacks` and `m_intervalCallbacks`, `ticks` is Qt's queue of
posted `NextTickEvent`s, `running` and `due` are Qt's timers.  There is one action per
function a script may call, enabled when a script is on top of the stack; actions for
the ends of scripts; `CustomEvent`, `TimerEvent`, `FinishDoneCheck` for the handlers.
A handler that calls a script is cut in two at the call, since anything may happen
during it; `TimerEvent` does all up to the call, `TimerEnd` the `doneCheck` after it.
What a script does is a free choice of the functions in `Api`, and time (`ExpireTimer`)
passes whatever the program is doing, so a callback may outlive any timer's period.

A callback is identified with the id of its timer.  Each is registered at most once,
which loses nothing: a function registered twice has two ids.

What is taken from Qt and V4 (external in the map): Qt does not hand a timer id out
again; the event of a killed timer is not delivered; a timer's event is not delivered
inside its own delivery (`QTimerInfo::activateRef`); `sendPostedEvents` delivers what
was posted when it began; `QCoreApplication::exit` ends only loops that are running,
and interrupts `processEvents`; V4 does not enter a function while `hasException` is
set.  The plugin's host is modelled by how it calls in: the event loop delivers the
host's events too, so a handler (`HostCall`) runs when the loop is idle or in the middle
of a `doneCheck` (`Delivering`), and the QML engine catches what it throws.  `MaxDepth`
bounds what could otherwise nest for ever: a global `require` and a handler inside a
`doneCheck` begin only when the stack has fewer frames than that.

### ModuleLoader

`modules` is the sequence of `ModuleObject`s in the order of creation, with parent,
children, file, the loaded flag and the `exports`, of which only the number of
assignments matters; `loading` the stack of those whose scripts run; `cache` is
`m_cachedModules` as a set of pairs, so that an assertion about two entries can be
stated.  `require` of a file is one action per way it can go (native, missing, cached,
`.js`, `.json`, another suffix).  What a file's script may ask for is a constant,
`Requests`; it may ask any number of times, while it runs or later, from callbacks.

`require` is a function of a module object: it resolves in the directory of that module
and makes it the parent, **whoever calls it**.  A script that runs may call a function
of another module, fire a listener of one whose script is not done, or use
`module.parent.require`, and these requires are then made in the other's name.
`Meanwhile[f]` is the requests, each with its module or the host, that are made in such
calls while f's script runs; `Now` is what each module's require can be asked for at the
moment.  So the parent of what is loaded need not be the module being loaded: if
main calls `b.f()` before its script is done and `f` requires `./c`, c's parent is b.

`CacheAssertion`, `OneObjectPerFile` and `AnswersKept` hold only of programs in which
nothing that is required while f's script runs, by itself **or in such calls**, leads back
to f; `Descending` says so, of a rank of the files.  This is a real condition, and more
than that no files require each other in a circle: see the findings.

A request is resolved on the `disk` there is at that moment, by `ResolveModule`, which
translates `resolveModule`: first the bundled scripts, then the name in the directory of
the module that asks (of the process, for the host), as it is, with `.js`, or as a
directory with an `index.js`.  Scripts change the disk with `renameSync`, `mkdirSync` and
`rmdirSync` and the process's directory (`cwd`) with `chdir`, and assign
`module.exports`.  `cwd` and the places calls are made with are bounds (`Moves`, `Dirs`,
`Place`), and a directory in use is not moved or removed.

### Paths, FileSystem, Util, Assert

A path is the sequence of the names its slashes separate, a name the sequence of the
parts its dots separate: all that these functions tell apart.  `CleanPath`,
`AbsoluteFilePath`, `RelativeFilePath` and the others of Qt are external, modelled by
what the code needs of them.  `FileSystem` gives for each call the disk after it and
whether it throws: `renameSync` and `truncateSync` do their work even when they throw.

`Util` models `format` on pieces (placeholders and the text between them); what
`inspect` makes of an argument is left out, so its output is a sequence of pieces and
argument numbers.  `Assert` has a heap of objects with classes and own properties;
primitives are equal as the constant `LooselyEqual` says.  `DeepEqual` is the last of a
sequence of tables: the verdict on each two values when the recursion may go so many
calls deep, each table made from the one before by `Compared` (`_deepEqual`) and its loop
`ComparedProperties` (in `objEquiv`).  There are as many tables as pairs of objects and
one more: a recursion that goes deeper has come to a pair again and does not end.

### Buffer

A slice is `m_arrayData`, `m_begin` (as an offset) and `m_size`; a block is a
`QTypedArrayData`, with `ref` and bytes; a free block has `ref = 0` and may be used
again.  `slice()` and the constructor from a string hold a slice on the C++ stack while
`alloc<Buffer>` runs, and that can start the garbage collector: they are two actions
each, `BeginSlice` or `BeginString` and `Finish`, with `Collect` possible in between.
`Collect` may take any other Buffer, referenced or not: more than the collector does,
and the properties hold all the same.

`NODE_V4_OBJECT` (`v4integration.h:4`) does not set V4's *needs destroy* flag, so the
build may never run the destructor of a collected Buffer's slice.  The model has both
kinds of build (`destructs`), and counts what is lost (`leaked`): in the one, a block
is freed with its last holder, in the other it stays; the reference count is right in
both.

The contents of a string or array are members of `Datum`.  The encodings are modelled
by the sizes of what they give (`DecodeUtf8`, `DecodeFixed`); the digits of base64 and
hex are not.

Three operations compare their range with less than they write.  `fill` never looks at
the size of its Buffer, `Buffer.concat` does not compare the length it is given with
what it copies, and `write` adds its offset and length as ints, which may overflow.  As
long as they stay in the block of memory, what they do is well defined, and modelled:
`slice(0, 2).fill(1, 0, 4)` writes the two bytes behind the slice.  `Allocation` is the
size of a block, one byte more than was asked for, and `Room` what of it is behind the
beginning of a slice; `Limits` gives the two ways the comparison with an overflown sum
may come out.  What is past the block, an `end` less than the `offset` (a size of
2^64 for `memset`) and `fill('')` on a range that is not empty (no end) are guards that
the code does not have: undefined or endless, and left out.

`wrote`, a variable for the properties, says of each write to which Buffer it was and
whether it had to stay within it or could go "beyond".

### EventEmitter

Listeners run in the middle of `emit`, and since `addListener` and `removeListener` emit
events of their own, in the middle of those too, and call them again.  As in `Engine` the
**call stack** is state, here that of JavaScript: an `emit` with what is left of its copy
of the listeners, the function `g` of `once` before and after it removes itself,
`addListener` waiting for the listeners of `newListener`, `removeAllListeners` in its
loop over an array or over the types, a script.  Each function is cut where listeners
run and nowhere else.

`_events` holds nothing, a function or an array for each type, and arrays have
identities, because `removeAllListeners(type)` keeps a reference to the one it found
while listeners run, and `removeListener` may have replaced it.  An array is taken again
when nothing refers to it.  `removeAllListeners()` goes through the types with `for-in`,
which may or may not visit one that is added meanwhile: `NextKey` chooses.  An exception
unwinds the stack to any script on it, which catches it, or all the way.

The module assumes that a script has added `isFunction`, `isObject`, `isUndefined` and
`isNumber` to `require('util')`: `events.js` calls them and `util.cpp:19-26` does not
define them, so that as shipped its first use throws a TypeError.  What listeners call is
a constant, `Inside`.

## Runs

| run | instance | shows |
|---|---|---|
| `engine_safety` | binary, 3 callbacks, all timer functions | `TypeOK`; tables and timers agree (`TimersMatchCallbacks`); a timeout or tick runs once (`OneShotRunsOnce`), never after it was cleared (`ClearedTimeoutNeverRuns`); refinement of `CallbackLife` (`PromiseKept`) |
| `engine_plugin` | plugin, 2 callbacks, global `require`, exceptions, `process.exit`, host handlers inside `doneCheck`; `MaxDepth` = 6 (1.3 million states) | `PromiseKept`, though callbacks are entered in the middle of scripts and exceptions left pending: they are lost only while one is |
| `engine_live` | binary, 2 callbacks, no clearing | with fairness: timeouts and ticks are called unless the process ends or a callback has thrown (`TimeoutsFire`, `TicksRun`), the binary exits when no timer is left (`IdleQuits`) or when its event loop was told to (`ExitHonoured`); no deadlock, `NoHang` |
| `engine_hang` | binary, timeouts and ticks, clearing | violated: the binary can wait for ever (finding) |
| `engine_quit` | binary, ticks only | violated: quits with `nextTick` callbacks queued (finding) |
| `engine_interval` | binary, intervals | violated: a cleared interval runs again (finding) |
| `loader_acyclic` | 5 files: scripts in a directory with an `index.js`, JSON, an unloadable suffix; a bundled script, a native one, a missing one; the JSON file is moved away and back, a directory is made, entered and removed; both hosts; main's script calls functions of two modules, those of the directory call each other's, listeners of main and the global `require`; at most 6 module objects, one assignment of `exports` | types; one object per file, given to all who ask (`OneObjectPerFile`); `cacheModule`'s assertion holds; the tree's parents and children agree (`ParentsAndChildrenAgree`); the binary never goes on with a failed module (`FailedNeverGiven`); while the disk stays the same a module is answered the same (`AnswersKept`) |
| `loader_cycle` | 2 files that require each other | violated: `cacheModule`'s assertion (finding) |
| `library` | Buffer: bytes of 2 bits, Buffers of up to 4 bytes, indices -6..6, floats of 4 and 8 of these bytes; paths of up to 3 of 6 names; formats of up to 3 pieces and 4 arguments; heaps of 2 and 3 objects | each operator gives what is stated of it: ranges of `slice`, `toString`, `copy` and `checkRange`; `fill`; whole UTF-8 characters and `byteLength`; `compare` is a total order; numbers and JSON survive being written and read (`NumbersRoundTrip`); path's functions agree (`PathsAgree`); `FormatUsesAll`; `deepEqual` and `throws` (`AssertionsExact`) |
| `buffer` | 2 Buffers, the slice on the stack, 2 blocks of up to 5 bytes of 1 bit, arguments -1..2 and the largest int, which is 6; builds that run destructors and builds that do not | slices stay in allocated memory (`InBounds`), references are counted exactly (`CountsExact`), refinement of `BufferViews` (`ViewsKept`): bytes are shared with those one was sliced or copied from on purpose and with no others, though `fill` and `write` may go past the end of a slice |
| `emitter_lists` | 2 functions, 1 made by `once`, types `error`, `newListener`, `removeListener`, 5 calls by scripts in all; listeners call all but `removeAllListeners` | a `once` listener is called once (`OnceFiresOnce`), the loop of `removeAllListeners(type)` finds in `_events` the array it is emptying (`DrainFinds`; that the loop ends is not claimed), refinement of `ListenerLists` (`ListsKept`) |
| `emitter_unheard` | 1 function, 4 calls | violated: `removeAllListeners` drops a listener and tells no one (finding) |

Why the bounds are enough.  *Engine*: what could go wrong takes one callback that acts,
one that is acted on and one that keeps the loop going, so three; `exit`, `throw` and
`require` square the state space, so the runs that have them use two.  The stack is
bounded by the number of callbacks, except for the global `require` and the plugin's
handlers, which can nest without end; `MaxDepth` = 6 leaves room for a require in a
callback in a pass under a require, and for a handler in a pass.  *Loader*: calling is
optional too, so each part of `Beside` is a run of it; requiring is optional, so every part of
`Acyclic` is a run of it; a file that is asked for in three ways, from two directories,
and one that moves are there; there are at most six files to load in a run, so a second
object for a file would need the seventh or take the place of one that was never
required.  *Buffer*: two Buffers and the stack's slice
give three holders of one block or two blocks with several; -1..2 are a negative
argument and everything in and just outside Buffers of up to two bytes, concatenated to
four, of which a slice has other bytes behind it to write to; 2 and 6 add up to more
than the largest int.  *Library*: indices reach past both ends
from both ends; three names make `..` meet a name, another `..` and the root; a third
piece comes after the arguments ran out; a third object makes circles of two and three.  *EventEmitter*: two functions
can be told apart and make an array; `error` is at once the type that is special to
`emit` and, when someone listens, an ordinary one; every mistake tried on these
properties shows within four calls, so five leave room.

`CHECK_DEADLOCK FALSE` is there because these systems may stop: a binary whose scripts
clear their timers can hang (that is what `engine_hang` shows), the loader's process
ends, a Buffer program may have used all blocks, and the scripts of an EventEmitter all
their calls.

Fairness (`engine_live` only).  Scripts end: a script that does not is no matter of the
engine.  The dispatcher and the C++ code go on.  Time passes: a timer that runs comes
due.  Nothing is assumed of scripts' choices, and there is no fairness between timers:
that each gets its turn follows from the pass, which takes all that are due.

## Findings

Five runs show what the code does against what its own text says: `clearInterval` has
its condition inverted (`engine.cpp:266`); `doneCheck` quits with `nextTick` callbacks
pending and, after a `nextTick` callback has cleared the last timer, does not quit at
all (`engine.cpp:101-108`, `:315`); a circular `require` breaks `cacheModule`'s
assertion (`engine.cpp:153`); `removeAllListeners()` drops listeners, added by the very
listeners it tells of removals, of which it tells no one (`events.js:272`, `:292`).  Met while modelling, and not the subject of a run: most have no statement in the
repository to hold them against, and the one of `inherits` needs no states.

* A script that is not found makes the binary exit with 0: `require`'s `doneCheck`
  emits `quit(0)` before `main.cpp:32` can return 1.
* `process.exit(n)` called while the main script runs has no effect, as no event loop
  runs yet; called later, its code can lose to the 0 of `doneCheck`.
* An exception thrown by a callback stays in `hasException`; callbacks whose turn comes
  while it does are dropped (`lost` in `CallbackLife`).
* In the plugin a module whose script failed is cached as if loaded, and given to the
  next who requires it.
* A chain of timeouts, each setting the next and running past its time, nests without
  bound; the callbacks of the model are finitely many.
* `clearInterval` given the id of a timeout kills its timer and leaves the callback in
  the table, where it keeps `doneCheck` from quitting.
* A file is loaded twice, with no files that require each other, when a listener or
  function of a module asks for a file that is being loaded: `./lib` emits an event while
  it loads, and a listener of main requires `./lib`.  `cacheModule`'s assertion fails, and
  the two get different objects.
* `checkRange` refuses the last byte of a Buffer of the largest size.
* `removeAllListeners(type)` goes round for ever when a listener of `removeListener`,
  in the middle of it, removes itself and calls `removeAllListeners(type)`: `DrainFinds` fails once
  `Inside` has that function, which is why the passing run leaves it out.
* `events.js` needs four functions that `util.cpp` does not define (see EventEmitter).
* `fill('')` on a range that is not empty does not end (`buffer.cpp:853`).
* `slice(0, 2).fill(1, 0, 4)` writes outside the slice, into the Buffer it was made from,
  because `fill` refuses only a negative offset or end (`buffer.cpp:803-863`); from the
  end of the block on it writes into other memory, as `Buffer.concat` does when the
  length it is given is less than the Buffers' (`buffer.cpp:407-409`).
* `renameSync` and `truncateSync` go on after throwing for a bad argument, and
  `renameSync` throws nothing when it cannot rename (`filesystem.cpp:65`).
* `inherits` sets the internal prototypes of the constructors and leaves their `prototype`
  properties alone (`util.cpp:160`), so that what `new` makes inherits nothing:
  `assert.js:50-51` says `assert.AssertionError instanceof Error`, for which it calls
  `inherits`, and instances of `AssertionError` are no `Error`s.
* `format` leaves `%%` as it is when no argument is left; `path.join('', 'b')` is `/b`;
  `path.extname` gives all suffixes, without a dot.
* `deepEqual` of objects that contain themselves ends in a stack overflow unless a
  difference ends it first.

## Proofs

All are checked by `tlapm` for every value of the constants that satisfies their named
assumptions (`EngineAssumption`, `LoaderAssumption`, `BytesAssumption`, `EvenAssumption`,
`BufferAssumption`, `EmitterAssumption`, `AssertAssumption`, `LibraryAssumption`): what the
code fixes, such as that `None` is no callback, the set of Buffers finite, the number of
values of a byte even (it is 256, and 4 in the runs), JavaScript's `==` symmetric, and no
object, which are numbers in the heaps here, a primitive.

* **EngineProofs.**  `TypeCorrect`: `TypeOK` is inductive.  For the others it is
  strengthened by `CallbackInv`: `Registered` (what is in a table or the queue was
  given to the matching function), `Queued` (a one-shot callback that waits there has not
  run, and is in the queue once), `Silenced` (a cleared timeout is out of the table and has
  not run) and `Timers`.
  None of `OneShotRunsOnce`, `ClearedTimeoutNeverRuns` and `TimersMatchCallbacks` is
  inductive by itself: that a callback which is waiting has not run yet is what makes it
  run once.
  `NoHangCorrect`, for scripts that clear nothing, comes from `CheckOwed`: while
  the binary is alive, something waits in a table or a frame on the stack will come to the
  end of a `doneCheck`.
  `PromiseCorrect`: `Engine` implements `CallbackLife` under the mapping
  of `EngineProperties`, `Init` to `Init` and each step to a step or a stutter, from
  `TypeOK` and `CallbackInv`: that a callback is in one place at most (`LifeOf`), which
  only they say, is what makes its life a function of the state.
* **ModuleLoaderProofs.**  `TypeCorrect`: the types, through every change of the disk.
  `OneTree` from `TreeInv`: the tree, and that parents and children
  are older and younger objects, whoever's require makes a child.  `NoFailedModule`: nothing
  has failed while the binary runs.  The other three are false for files that
  require each other in a circle, or whose scripts call what requires them again, and are
  proved for any `rank` of the files by natural numbers that goes down from each file to
  all that may be required while its script runs, in any module's name (`Descending`):
  then what is being loaded rises in rank and is not cached (`StackRises`), each object is cached or
  being loaded (`AllHeld`), and no two objects have the same file (`OwnFiles`).  That there are
  such ranks is not taken for granted: TLC evaluates `RankingDescends` for the instance of
  `loader_acyclic`.  `SameAnswers` adds that no step takes away or replaces what is cached
  for a file that is (`EntriesKept`).
* **BytesProofs.**  What the operators of `BufferBytes` give for every input.  The
  library's induction theorems cannot be used with the installed provers, since they take
  a predicate as a parameter; what a recursive function computes is proved from
  well-foundedness instead: if it were wrong anywhere, there would be a least place
  where it is (`LeastNatural`), and the step to it is right.  `Recursion` gives in this way
  that such a function on `0..n` exists and has the values its equation says, from which
  `PowerIs`, `DecodeIs` and `SizesAre` follow.  `FillPatternRepeats` is about a recursion
  on what has been written, which doubles: `Stops` are the sizes at which it may stop.
  `DecodeEncode` needs quotients by products (`QuotientByProduct`) only; `CompareOrders`
  reads `Compare` as the lexicographic order (`Before`), the first difference being a least
  element too; `Utf8Fits` says that what is kept of a string is the longest prefix of
  characters that fits.
* **BufferProofs.**  `Inv` is `InBounds`, `CountsExact` and the types, without the
  values of bytes.  The two need each other: a block is freed when its count says so, and
  that no slice is left in it is because the count is exact; a new block is free, and
  therefore held by nobody.  The lemmas on `Retained`, `Released`, `Allocated`, `Written`
  and `SubSlice` say what each does to a memory; those on `Holders` what becoming and
  collecting a Buffer does to the number of holders; then there is one lemma per
  action.  `TypeCorrect` adds that blocks hold bytes, and is proved from `Inv`, because what
  is written is a byte only if it was read inside a block.  `ViewsCorrect` is the
  refinement: a cell is a place in a block, so that two Buffers have a cell in common only
  if they are in one block (`InBounds`) and a new block's cells are nobody's
  (`CountsExact`); a write changes the cells of its own slice, and one that goes beyond
  it other cells of the same block, which are in the memory of the Buffer it was made
  from (`BeyondViews`); a block that is freed takes no cell with it that is still used.
* **LibraryProofs.**  Eight of the invariants of `library`, each proved of every input, which
  stays what it is (`InputStays`).  Seven are about Buffers, indices
  and strings of any size: they bring the inputs and the reference definitions together
  with the lemmas of `BytesProofs`.
  `FormatCorrect`, for any number of pieces and arguments: `DoneOfIs` gives what the fold of
  `format` does for every set of pieces, from `Recursion`; then every piece gives one
  part of the output, at its place (`FormattedIs`), the argument used next counts the
  placeholders that took one (`NextIs`), and so do the parts that show an argument
  (`CountTo`, `WholeUses`).
* **PathsProofs.**  `PathsCorrect`: `PathsAgree`, for paths of any number of names; its lemmas
  hold for any names and any directory, and two of them, `ResolveIsJoin` and
  `RelativeLeads`, are listed for that.  All functions of path clean one, and cleaning goes
  name by name, so the proofs are about `After`, what a path makes of the names before it:
  it is done for two paths one after the other when it is for the first and then for the
  second (`AfterBoth`), gives clean names (`CleanedClean`), leaves clean ones as they are
  (`CleanStays`), and does not tell a path from what it is cleaned to (`AfterCleaned`).
  That what is normalised stays so, and that `resolve` is `join` made absolute, follow;
  `PathAgain` and `NameAgain` put a path together from its directory and name, and a
  name from what is before its extension and the extension.  `RelativeLeads`: as many `..` as
  names are left after the common part take them away (`AfterUps`), and the names of the
  other path come in their place (`AfterPlain`).  Sequences are built from their end
  (`FromBack`), which is well-foundedness again: a shortest one of which something is
  false has a front of which it is true.
* **AssertProofs.**  `DeepEqualIs`, for any objects and names of properties, and from it
  `AssertCorrect` for the inputs of `library`, of any number of objects.  The tables of
  `DeepEqual` exist and are made as they should (`TablesExist`, `MadeOf`); a verdict does not
  depend on which value comes first (`TablesSymmetric`: of the properties of two objects
  with the same names, the last that differs decides), and one that is not "overflow" is the
  same in every table after it (`VerdictsStay`).  `OverflowCircular`: the pairs that
  overflow can only become fewer from table to table; as there are more tables than pairs, two
  that follow each other have the same ones, and then an object of such a pair always has
  another in a property.  `SeenEqual` and `SeenDifferent` tie this to what
  the property looks at, the pairs met on the way down: below equal values there are only
  equal ones; below different ones that look alike there is a different one, found in
  an earlier table, so among them is one that is different at sight.
* **EventEmitterProofs.**  `TypeCorrect`, and `DrainCorrect` for programs whose listeners do
  not call `removeAllListeners` (with them doing so `DrainFinds` is false, as described
  above), both from `Kept`.  `ListsOK` adds to the types that each array belongs
  to one type: without it, removing a listener of one type could empty the array of
  another.  `StackOK` says that the frames of `removeAllListeners` are the bottom of the
  stack, so that no second one takes the array from `_events` while the first is emptying
  it.  `Drained` is what is kept of the array: no other type gets it, which needs that
  `Unused` looks at the frames too, and its own type has it as long as it has elements.
  `Dropped` and `Changed` say what a type that loses everything, or an array that changes,
  does to the three; `RemovedKeeps`, `AppendedKeeps` and `RemovedAllKeeps` follow for the
  functions, and the steps from those.
  `OnceCorrect`: `OnceFiresOnce`, from `FiredInv`, that the
  function of `once` has called its listener exactly when its variable `fired` says so;
  the bound itself is not inductive, as it does not tie the count to the variable.
  `ListsCorrect` is the refinement of `ListenerLists`, with no condition on what listeners
  call: the list of a type is what `_events` and the arrays give (`ListsOf`), the emits in
  progress are the frames of `emit`, named by their depth in the stack so that pushing
  and popping other frames leaves them as they are (`EmitsPushed`, `EmitsPopped`,
  `EmitsSuffix`).  `AppendedLists` and `RemovedLists` say that a change of one type's entry or
  array changes its list alone, again because an array has one owner; the lemmas
  `Promised...` say which step of the promise it is.
  `RemovalsHeard` says when `AllHeard`, which is violated in `emitter_unheard`, does hold: when
  no listener calls `addListener` or `once`.  `HeardInv`: what a frame of `removeAllListeners`
  found is what its type still has, or the type has nothing and there is nothing left in the
  array found (`Gone`), because then types only lose listeners (`Shrunk`): whoever began to
  add one is at the bottom of the stack (`AddsLast`).

Only model-checked: liveness (`IdleQuits`, `TimeoutsFire`, `TicksRun`, `ExitHonoured`), which
is out of the prover's reach.  Every other property of the runs that pass is stated by a
theorem; `NoHang`, `DrainFinds` and three of the loader's under the conditions given above.
The properties of the runs that end in a violation are false as they stand;
`NoHangCorrect`, `NobodyCachedMeanwhile` and `RemovalsHeard` give conditions under which
three of them hold.

## Not modelled

os (reads of the system, no state), dns (commented out in the source), errno exceptions
(they build an error object).  Of Buffer: base64 and hex digits, `inspect`.  Of
EventEmitter: domains, `setMaxListeners` and the warning it is for.  Of util and console:
`inspect`, the `is*` tests, console's marks, and `inherits`, one assignment whose effect
(see the findings) is seen without states.  Past the end of a block of memory: what
`fill`, `write` and `concat` do there.  Of process: the environment, arguments and
the constants of the platform.  `module.exports` set to something that is not an object is
undefined behaviour and not modelled.  Links, permissions and I/O errors of the disk.  The
static table of engines per QML engine is shared by threads without a lock, and no
program here has two threads.
