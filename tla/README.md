# IceSpider in TLA+

IceSpider serves HTTP requests, over FastCGI or CGI, by calling operations of ZeroC Ice interfaces. A route
compiler turns a configuration (JSON) and Slice files into C++ route handlers; a worker process loads them as
plug-ins, routes each request to one, reads the operation's parameters from the URL, the query string, headers,
cookies or the body, calls the operation over Ice and serializes what it returns in the format the client
accepts. A session manager plug-in keeps sessions in files.

Paths below are relative to `src/icespider/`.

## 1. The system

| Part | State | Operations | Talks to |
|---|---|---|---|
| **Session manager** `fileSessions/fileSessions.cpp` | a directory with one file per session, shared by all processes; nothing in memory but the configuration | `createSession`, `getSession`, `updateSession`, `destroySession`, `removeExpired` (from the destructor) | the file system only: `open`, `flock`, `mmap`, `pwrite`, `ftruncate`, `unlink`, a directory iterator |
| **Worker** `fcgi/main.cpp`, `core/core.cpp` | the request in progress; the error handler plug-ins; an Ice object adapter with the other plug-ins | constructor, accept, parse, `Core::process`, `Core::handleError`, `defaultErrorReport`, finish, destructor | one request at a time; the handlers may rewrite it and have it processed again; AdHoc's plug-in manager |
| **Router** `common/pathparts.cpp`, `core/core.cpp:140-180` | the routes, sorted by path, in a table by number of path elements; read-only once built | the constructor, `findRoute` | asked by `process` |
| **CGI request** `fcgi/cgiRequestBase.cpp`, `core/flatMap.h`, `core/xwwwFormUrlEncoded.cpp` | five flat maps: environment, query, cookies, headers, and the path | the constructor, the look-ups, `setCookie` | built from the web server's environment |
| **Request parameters** `core/ihttpRequest.h`, `core/util.h`, `core/xwwwFormUrlEncoded.cpp` | what is left of the body, and the map made of it | `getURLParam`, `getQueryStringParam`, `getHeaderParam`, `getCookieParam`, `getBody`, `getBodyParam` | asked by the generated `execute()`, before it calls the operations |
| **Content negotiation** `core/ihttpRequest.cpp:43-124`, `core/irouteHandler.cpp` | each route's serializers | `parseAccept`, `getSerializer`, `addRouteSerializer` | asked by `modelPartResponse`, after the operation has been called |
| **Route compiler** `compile/routeCompiler.cpp`, `compile/main.cpp` | the configuration, the parsed Slice units, two output files | `main`; `compile`: `loadConfiguration`, `loadUnits`, `applyDefaults`, `processBases`, `processRoute` | the Slice parser, a post-processor; runs at build time |
| **XSLT serializer** `xslt/` | one cached stylesheet and the time its file was written | `create`, `Serialize` | libxslt; whoever owns the stylesheet's file |

What is hard here:

* **Concurrency** is mostly in the session manager. Any number of processes, and threads of each, work on the same
  files. `flock` on the open file is the only order, taken after the file has been opened (and, by a reader,
  mapped) and dropped before what was read is acted on; files are written in place and unlinked by name. The XSLT serializer reads a
  file, twice, that others change.
* **Failure**: a process can die between any two system calls, a call can fail, a write can be short; a generator
  can throw with its output half written; a serializer can throw with the status line already sent.
* **Control flow that no signature shows**: `process` and `handleError` recurse; a response may come from five
  places, and every request must get exactly one.
* **Order that carries meaning**: routes by path text, headers in the reverse order of the environment's, Accept
  entries by a stable sort, a mashup's operations by the iteration order of a map.
* **State that goes stale**: a request that an error handler has rewritten, a stylesheet saved since it was parsed,
  plug-ins that come and go between a constructor and a destructor which both ask for the list.
* **Text**: percent-encoding tables indexed by byte, look-ahead past the end of a text, and a header parser whose
  loops must use the header up.

Everything else in a worker is sequential, so the other modules have one thread of control; their nondeterminism
is in their inputs and in what the code they call may do.

## 2. The modules

| Module | Models | Proofs | Runs |
|---|---|---|---|
| `FileSessions` | the session manager | `FileSessionsProofs` | `sessions_*` |
| `SharedSessions`, on `FileSessions` | that its workers together implement `SessionStore` | `SharedSessionsProofs` | `sessions_race` |
| `Router` | route table and look-up | `RouterProofs` | through `Worker` |
| `Core` | a worker's requests | `WorkerProofs` | `core_malformed`, and through `Worker` |
| `Worker`, on `Core` and `Router` | a worker from start to exit; that it implements `Server` | `WorkerProofs` | `worker` |
| `CgiRequest`, on `FlatMap` and `UrlEncoded` | a request's construction | `CgiRequestProofs` | through `Parameters` |
| `Parameters`, on `CgiRequest` | what a handler reads from the request | `CgiRequestProofs` | `request` |
| `Accept` | content negotiation | `AcceptProofs` | `accept` |
| `Xslt` | the stylesheet cache | `XsltProofs` | `xslt` |
| `RouteCompiler` | the generation of classes from routes | `CompileProofs` | through `Compile` |
| `Compile`, on `RouteCompiler` | the compiler program | `CompileProofs` | `compiler`, `compiler_overrides` |

`SessionStore` and `Server` are abstract: they know nothing of files and tables, and are what clients may rely on.
The `MC` modules give the constants their values for TLC (`Core` and `Xslt` need none). In every module the operators named
*Mutated form* are plausible bugs next to the definition they would replace; they are not part of the specification, and
show for each property of a passing run that it can fail.

### FileSessions

A *worker* is one thread inside one of the five operations. `pc` is its next system call; each call that another
worker could observe is one action: `Open`, `FlockEx`, `Pwrite`, `PwriteEnd`, `Ftruncate`, `Unlock` of `save()`;
`Exists`, `OpenRd`, `Mmap`, `FlockSh`, `Read` (with the unlock after it) of `load()`; then `Check` (expired?),
`Remove`, `NextEntry`. `pwrite` is two actions, because a reader's map may see it half done. `dir` maps ids to inodes
and `file` inodes to contents, so that a file may be unlinked while others have it open, lock it, or write to it.
Locks belong to an open file and are not a variable: who holds one follows from program counters. `mapLen` keeps the
length a map was made with, which the file may have outgrown. `Crash`, `SyscallFails` and `ShortWrite` may strike
anywhere, at an unlock or a look-up of a name too, up to a bound. `issued` and `alone` are history: ids clients know,
and calls no other call overlapped.

A session's contents are its id, time, duration, and a length that stands for its variables: all that locking,
truncation and expiry can tell apart. Durations are any of `Durations`: `createSession` gives the configured one,
narrowed to a short (`ToShort`), and `updateSession` saves whatever the client has set. Clients update only sessions
whose ids they were given. `Torn` is content that is not, or not wholly, one save's. A `Read` of it may fail; or, as
unmarshalling does not check, it yields any of `Garbled`, a session with any time, duration and length, which goes on
to `Check` and `Remove` as any other does. Its id is the file's, as every save to an inode writes the same one, or is
cut short and names no file.

### SessionStore and SharedSessions

`SessionStore` is a map from ids to sessions. Each call takes effect at one moment between its beginning and its end, and
`getSession` answers with something the map has held in that time. It says plainly what is *not* promised: a read that a
save overlaps may fail; an expired session may be removed by a call that met it earlier, when it is live again; a sweep
may leave sessions behind. `SharedSessions` says how the files are that map: an id's session is the content of the inode it
names, and that of the worker that is writing it while it is. A save takes effect when it begins to write, or, if its
file has been unlinked since it was opened, just before that (`Unlinked`, `Overtakes`): the update is lost, and the store
says so by ordering it before the removal. `seen` and `raced` are history variables.

### Router

`Init` is any sequence of routes sorted by path (the sort is not stable, and plug-ins load in any order). `Place`
is one turn of the constructor's loop, with the resize; `FindRoute`, `Scan` and `ScanEnd` are the look-up, element
by element of a row. A path element is its rank in string order, so that "`{` sorts after letters" is a statement
about numbers. Empty path elements are left out of the routes.

### Core

`out` is what the client has been sent of the current response. `Execute` chooses any outcome a generated handler can
have, an exception of any status among them; `findRoute` and `getSerializer` refuse with a 4xx (`Refuse4xx`). An error
handler that answers Handled has responded once, with any status, with or without a body (`RespondHandled`); one that
answers otherwise or throws has written nothing: that is asked of the plug-ins, as the code cannot enforce it.
`ModelPartResponse` and `Serialize` are separate, as the status is written between them. `frames` is the stack of
`handleError` calls, each at the plug-in it is asking. `Return` unwinds it. `MaxModified` bounds rewrites, which
nothing in the code bounds.

### Worker and Server

`Worker` is `main` with the constructors and destructor of `Core` and `CoreWithDefaultRouter` around it: `life` is
where that is. Its requests are `Core` with its choice of `findRoute`'s answer replaced by `Router`'s, whose choice of
a request is replaced by `client`, the request as its error handlers have left it. `Handle` rewrites it; `Forget` is
that `findRoute` is a call, which starts anew. `LibraryChange` adds or removes a plug-in while a request is executed;
the destructor goes by the list of then (`RemovePlugin`), and aborts at the null adapter or an identity that is not
registered.

`Server` promises of each request one answer: 404 if nothing fits its path, 405 if something does but for the method,
another 4xx for no method; or that it is performed on the first, by path, of the routes that fit it *as it is now*, and
then answered. `Worker` maps its outputs to that by what a client can make of them (`StatusOf`): the client's view,
where a body that broke off is no answer.

### RouteCompiler and Compile

The routes of a configuration go through `compile`, one after another; each action is one turn of one of its loops. Of
the generated text the model keeps the identifiers declared and used, the value of each `_pi_` constant, how often the
body is read and what each operation is passed. `cpp` is what is on disk: `"truncated"` rather than `"complete"` where
one of the unchecked writes or closes failed, and `"damaged"` by a post-processor, which works on the file itself
(`clang-format -i`). `pc = "undefined"` is the dereference of `end()` at lines 508 and 564. Names are numbers in the
order the maps iterate in. `findOperation` and `findType` (`OperationFound`, `TypeFound`) look for what a loaded slice
file declares: the one finds operations only, the other types only, and a name in `Unknown` is neither. `IsRoute` is
what `routes.ice` lets a configured route be.

`Compile` is the program around it: the command line, the search path, the loading of slice files, the post-processor
and the exit status, and the other way in, a caller that catches (`caught`, as the unit tests do). `created` counts
how often each parsed unit has been destroyed. An exception nobody catches terminates the program where it is thrown;
whether the stack is unwound first is up to the implementation, and g++'s and clang++'s do not, so no `ScopeExit`
runs.

### Accept

A header is a sequence of `Tokens`; `upto` is the lambda of `parseAccept`, blanks and all. `ReadRange` and
`ReadParameter` are the bodies of its two loops, `Sort` and `Choose` what follows, and the first three actions build
the route's map of serializers. Qualities are tenths; a text is cut into tokens so that a number is one of them
(`WholeNumbers`). A `NaN`, which `convert` accepts and the range test lets through, makes the sort's order arbitrary.
A header that is written as it should be is the text (`HeaderText`) of a sequence of parts, ranges and parameters,
with any number of spaces round their words; `Means` says which entries they stand for, and `request.wanted` remembers
those. The properties compare the answer with it, not with another parse. That such a header is read as it was written
is a property of its own (`ReadAsWritten`), so that what is chosen can be argued from what was wanted. Any other text
is a request without `wanted`.

### CgiRequest, FlatMap, UrlEncoded

`AddEnv` puts one entry of the environment into `envmap`; `SetPath`, `MapQuery`, `MapCookies` and `AddHeader` are
the rest of the constructor. `FlatMap` takes its comparison as a constant, as the C++ template does, and is
instantiated twice: `VarMap` and, without case, `HdrMap`. `UrlEncoded` works on bytes, 0 to 254; what the decoder
reads behind a text is modelled as far as it decides the outcome, and where the decoder walks past the end the state is
`"undefined"`. Names that the code compares with constants are numbers, everything a client sends is bytes.
The outcomes `Http400BadRequest` and `out_of_range` are those that `Core`'s `Construct` takes for a failed parse.

### Parameters

A route's parameters are fetched one after another from a request that `CgiRequest` has constructed, as the generated
`execute()` does; `input` is the body's stream, empty once it has been read, and `pbody` what the first keyed body parameter
has read from it. Conversions are sets of at most one value: empty where the code throws. `SetFromString` is the other
set of conversions, for form bodies, where a bool is a word. `sent` is what the client wrote into a form, a query or
its cookies before it encoded it, with the encoder of `setCookie`: the properties compare what arrives with it.

### Xslt

`Create` is the factory's look at the file's time, `Load` the parse, `Serialize` the transformation; `Save`, `PutBack` and
`Delete` may come between any two. `since` (the texts the file has had since `create` was called) and `fresh` are history.

## 3. What the runs show

| Run | Bounds | Shows |
|---|---|---|
| `sessions_race` | 3 workers, 1 id, 4 inodes, 4 calls, lengths 1-2, no failures | `NoGarbageRead`, `SavedWhole`, `QuiescentReadable`, `OneStore` |
| `sessions_faults` | 2 workers, 2 ids, 3 inodes, 4 calls, durations 0 and 1, 1 crash, 1 failing or short call | `TypeOK`, `RemovedInTime`, `SweepComplete` |
| `sessions_live` | 2 workers, 1 id, 1 crash, fair threads | `CallsEnd` |
| `worker` | all sets of up to 3 routes over 4 paths and 2 methods, 4 request paths, 3 methods; 2 requests, 2 error handlers, 1 rewrite of a request, 1 plug-in, 1 change of the plug-ins | `LookupCorrect`, `ScanInBounds`, `LiteralFirst`, `AnsweredOnce`, `Finished`, `PromiseKept` |
| `compiler` | single operations and mashups of two, 7 kinds of parameter, 5 paths; pairs of 5 routes with 5 lists of slice files, base classes and every command line | `SymbolsDeclared`, `UrlIndexInPath`, `BodyReadOnce`, `SingleOnItsProxy`, `NoHalfOutput`, `UnitsDestroyed`, `ZeroMeansCompiled` |
| `accept` | every text of at most 4 tokens; every list of at most 2 of 8 entries in two styles on 5 routes, of 3 in one style on one; bad qualities | `ReadAsWritten`, `BestServed`, `NeverRefused`, `OwnServed`, `ReadingEnds` |
| `request` | every query string of at most 4 bytes of 6; every order of 3 entries of 9 and one argument; 1385 jars of cookies; one or two parameters of 6 types from every source, with up to 2 pairs of texts with bytes of every kind, or a number or near-number of 17, by form, query or cookies | `MapsSorted`, `LatestCounts`, `HeadersTurned`, `CookiesReadBack`, `SentArrives`, `NumbersArrive`, `DefaultsForMissing` |
| `xslt` | 2 texts and a broken one, 4 changes of the file, 4 responses, 4 times | `SavedIsServed` |
| `sessions_relative_root` | 1 worker | violates `SweepComplete` |
| `sessions_stale_removal` | 2 workers | violates `LiveNeverRemoved` |
| `core_malformed` | 2 error handlers | violates `NeverTerminated` |
| `compiler_overrides` | as `compiler` | violates `OverridesHonoured` |

Why the bounds suffice. A race on one session file needs a writer, a second writer and a reader or a remover: three
workers. Lengths 1 and 2 are enough for a longer write under a shorter one and for a file that outgrows a map. An
inode per open file and one more keeps `open(O_CREAT)` from ever being short of one. Four calls let one session be
created, saved, read and removed with every overlap. Two sessions are needed for a sweep with a next entry, and two
durations for an update to shorten or lengthen a session's life. Two handlers are enough for one to throw or decline
and the next to act; one rewrite puts a `process` inside a `handleError`, and a second request shows that nothing of
the first is left. Three routes can be three of one length or of three lengths, in every order. A stylesheet needs one
change to break, one to be mended and two to race with a response. In `accept` and `request` the alphabets have one
member of each kind the code distinguishes, and the numbers are those on either side of the limits. Safety of
`FileSessions`, `SharedSessions`, `Router`, `Core`, `Worker`, `Xslt`, `RouteCompiler`, `Compile` and `Accept` does not
rest on these bounds: it is proved (section 5).

`CHECK_DEADLOCK FALSE` is set where the system may stop: sessions, requests and responses when the bounded calls are
used up, a compilation or a construction when it is over. `accept` states where it may: with deadlock checked,
`ReadingEnds` and the action `Answered` mean that every reading ends in an answer.

**Fairness.** `sessions_live` assumes weak fairness of each worker's own system calls, and nothing of `flock`: a
thread whose call can return is run at some time. A worker waiting for a lock is not promised to get it if others take
it again and again; calls are bounded, so they do not. `worker` assumes that the worker runs once it has a request, and
not that requests come.

## 4. Where the code and what is said of it part

Runs with an expected violation; each trace is short and ends in the state described.

* **Relative session directory** (`sessions_relative_root`, `fileSessions.cpp:143`). `removeExpired` hands `load()` a
  path that has `root` in front already and `load()` puts it there again; with a relative
  `IceSpider.FileSessions.Path` no entry is found and nothing is ever removed.
* **Stale removal** (`sessions_stale_removal`, `fileSessions.cpp:71`). A session is judged expired after its lock has
  been dropped, and removed by name: an update in between is lost.
* **Malformed request** (`core_malformed`, `fcgi/main.cpp:22`). The request is constructed outside every `try`; the
  `Http400BadRequest` of a bad one ends the worker.
* **Parameter overrides** (`compiler_overrides`, `routeCompiler.cpp:646`). A mashup asks for the override and then
  writes the operation's own parameter name.

The models contain more of the kind that no run is spent on; most of the hazards name the lines. Among them: a
getSession that meets a createSession may throw errors `session.ice` does not declare; one file left empty by a killed
process ends every later sweep at its place; a duration above 32767 wraps to a negative `short`; a serializer that
throws gets a second status written into its body; a cookie with a NUL byte is written but not read back; `%+` at the
very end of a text takes the decoder past it; of duplicate headers the first counts, of duplicate anything else the
last; a plug-in added while a worker runs makes its destructor abort; a stylesheet that failed to load, put back with
its old time, leaves the null sheet to be applied; a post-processor that fails, having perhaps damaged the files it
rewrites in place, is reported as success, as `main` returns `system()`'s wait status, of which the exit code is the
high byte; so is a generation any of whose writes failed, as none is checked; an exception ends the compiler without
the clean-up that would remove the half-written files (there is no `catch` in `main`); `applyDefaults` throws before
the units' clean-up is set; a number is read up to the first byte that is no digit, so `1x` is 1; a bool is `1` in a
query and `true` in a form; and a `Content-Type` with a parameter (`; charset=...`) is answered 415, as deserializers
are found by the whole text.

## 5. What is proved

The theorems hold for every value of the constants that the modules' named assumptions allow.

**FileSessionsProofs.** `TypeCorrect` first: `TypeOK` is not inductive alone, a worker's descriptor, path and session
depend on its program counter (`WorkerInv`). For the contents of files the invariant is `IInv`: locks exclude each
other (`LockExclusion`, which is `flock`'s own promise, kept by crashes and failing calls); no inode has two names,
and a name's file is for that id (`OneNamePerFile`, `NameInv`); a torn file has its writer still copying, under
`LOCK_EX` (`TornInv`); a writer past copying finds its own bytes (`WriteInv`). With exclusion, a reader under
`LOCK_SH` therefore never sees a torn file: `ReadsWhole`, `SavesWhole`, `FilesReadable`. These three are claimed of
behaviours in which nothing failed, as are the properties: a process killed in `pwrite` does leave a torn file.
`RemovalsInTime` holds whatever fails, for any durations: a getSession or removeExpired that no other call overlaps
takes a name only from a torn file, or from a whole session whose own time is over. A whole session is in the file of
its own id (`OwnName`), and what such a call has in hand is the file as it still is or what a torn one was read as
(`HandInv`), so that what it finds over is over, and nothing read from one file is held against another. With an
overlap it is false (section 4, stale removal). `SweepsComplete` is the action property, for an absolute root (with a
relative one it is false, section 4): its invariant, `SweepInv`, says what a sweep that is alone has in hand at one
entry (`EntryOf`: the inode, the length, the session, all of them as the directory has them now) and that what it has
left behind had not expired (`LeftLive`); `FilesReadable` is why no entry can end it early.

**SharedSessionsProofs.** `WorkersShareOneStore`: as long as nothing fails, every step of any number of workers is one
of `SessionStore`'s or a stutter. `SharedInv` adds to `IInv` which call a worker is in and what it holds there
(`CallInv`), that a name holds a session of that name (`StoredInv`), and that what a load can still come to read is
among what the store has held since its call began (`SeenInv`), whole unless a save of that name was in progress
(`RacedInv`, `WholeInv`). A save takes effect at its pwrite, or, when its file has lost its name, at the unlink that
took it. The hypothesis, `[]NothingFailed`, is how the refinement is meant: with `MaxCrashes` and `MaxFaults` 0 it
falls away (`UnfailingWorkersShareOneStore`).

**RouterProofs.** `RInv` says which routes the part of the table built so far holds, in which order (`Table`), and that
the scan has missed nothing up to `k` (`ScanInv`). `RoutesFound`, `ScanStaysInBounds`, and, if every literal ranks below
every parameter, `LiteralsWin`.

**WorkerProofs.** Of `Core` alone first: `OutInv` says for each program counter what `out` can be: of the events of
one response, exactly a prefix that this place has written, unless a half-written body is in it, which stays.
`OneAnswer`, for any number of handlers and rewrites and whatever statuses they choose.

A step of the worker is a step of `Core` or a stutter, and a step of `Router` or a stutter (`CoreStep`, `RouterStep`),
so everything above holds of the worker (`WorkerOfParts`). What the two have to do with each other is `Linked`: while
a request is performed the last look-up's answer is a route, and was made for the request as it is now. With `OutInv`
and `RInv` that is the invariant `WInv` under which every step of the worker is one of `Server`'s or a stutter:
`WorkerKeepsPromise`, for every set of routes, every request and any number of handlers, rewrites and plug-ins.

**XsltProofs.** `CacheInv` says what the noted time and the kept sheet are worth while the file has only been newly saved:
if the noted time is the file's the sheet is too, and between the factory's two looks the time it took is either
the file's or no longer matters. `SavedServed`.

**CompileProofs.** `OutputInv` says what the output is worth at each program counter: untouched until `OpenOutput`,
and after an exception neither `Generates` (complete, or what failed writes have left of that) nor, with a caller that
catches, half-written. That is `FailureLeavesNoHalf`. For `ExitStatusTells` it is joined by `ClassesInv`, the loop
invariant of `processRoutes`: after k routes the classes are the base classes and routes 1 to k, so that at the loop's
end they are all of them; `compiled`, the only place from which `main` may return 0, is reached from there alone. It
says what was generated, not that the file is whole: with status 0 it may be truncated or damaged (section 4).

The properties of the generated classes follow the generation of one class turn by turn (`GenerationInv`):
`AppliedInv` says what `applyDefaults` has added to the routes so far (`RoutesInv`: that they stay routes), and
`ClassInv` what the class being written has for the names the loop in progress has visited: `TodoInv`, which those
are, and one conjunct for each property, `SymbolsInv` (`GeneratedDeclares`: every identifier used is declared, or
still to be by a loop that has not ended), `IndexInv` (`IndexOfOwnPath`: a URL parameter's index is that of an element
of this route's path), `BodyInv` (`BodyOnce`) and `ProxyInv` (`SingleProxy`). `UnitsInv` counts for each parsed unit
what is registered to destroy it (`UnitsDestroyedOnce`). `CompileAssumption` asks of the configuration that its routes
are routes (`IsRoute`), no more.

**AcceptProofs.** `HeaderReadToItsEnd` is a safety fact, that every step of reading leaves less to read; with the
deadlock check it is why reading ends. `OwnSerializersServe` rests on `OwnInv`: of the additions so far a type has the
last, and global serializers only fill gaps. `ReadInv` says where the reading of a well-written header can stand:
behind one of its parts, with exactly the text of the parts that follow, whatever spaces are left of it, still to
read; and that what it has by then are the entries that are complete, and of the one in progress what the parts so far
say (`EntryBy`). That text is again defined from the end backwards (`TextsOf`, `Receded`); `UptoReads` says what
`upto` takes from a word among spaces, `PartRead` what it takes from a part, and `NextPart`, `EntryWhole` what `Means`
says of a part's neighbours. At the end no part is left: `HeaderIsReadAsWritten`; and at no part is there a reason to
refuse it: `NoGoodHeaderRefused`. `BestIsServed` goes on through the stable sort: among the ranges as sorted, the
first that any serializer is for decides (`ChosenInv`), and no other that can be served is wanted more, or as much and
written earlier. Texts are sequences of `Tokens`, wanted qualities 1 to 10 tenths, and a header with `wanted` is
written from parts that mean it (`RequestsAssumption`).

**CgiRequestProofs.** `CgiInv` says what each map has at each turn of the constructor's loops. `EnvInv`: of the
entries read so far `envmap` has of each name the last one foremost (`Found`) and the first one hindmost (`Kept`).
`QueryInv`: `qsmap` is made of the query's variables. `HeaderInv`: `hdrmap` has the pairs from the bound of `"HTTP_"`
up to the one whose turn it is, all of whose names begin so. That is `MapsKeepTheOrder` and `LatestIsFound`; for
`FirstHeaderIsFound`, `AllHeaders` adds that the names with that beginning stand together in the order of the keys, so
that the copying, which stops at the first other name, has left none out. Under it are the order of texts
(`LessTransitive`, `LessTotal`), what an insertion does to a map in that order, and the loops that make texts and
maps, for texts of any length (`DecodedTyped`, `SplitTyped`, `VarsMapped`).

What is written is read, for texts of any length: where `urlencode` wrote a byte `urlDecode` reads it, and so, from
the end of the text backwards, the rest (`DecodesEncoded`). A pair so written holds no `;`, no `&` and no `=` but its
own, so with either separator `Split` and `Variable` take a line of pairs apart into those it was made of
(`JoinedSplit`, `JoinedIterated`); a header of cookies, a query string and a form are three such lines. `CookieInv`
adds that the client's cookies are an entry, the only one of that name by the property's hypothesis:
`CookiesAreReadBack`. The theorems so far are about `Spec` and, as the handler's steps leave the request alone, about
`ParamSpec` too. `RequestAssumption` asks that the entries are pairs of texts, and that `None` is none.

The parameters are fetched one by one, and `ArriveInv` says what there is of it at each: the pairs that were sent are
still those of the query and of the jar (`SentInv`); the body is unread until a parameter asks for it, and what it was
read into has an entry for every name that was sent and no other (`BodyInv`); each parameter fetched so far is what
the client sent for it, converted, or, when it sent nothing, what stands in for it (`GotInv`); and where a request was
refused with a form the deserializer takes, the parameter it was at has no value that converts (`RefuseInv`). It is
inductive under `CgiInv` and `CookieInv`, which say what the look-ups find (`QuerySent`, `CookieSent`). From it follow
`WhatIsSentArrives`, `DefaultsStandIn` and, with `NumbersReadBack`, `NumbersAreKept`. `NumbersReadBack` is about every
whole number: its decimal form ends in its last digit and begins with that of its tenth, and `from_chars` reads digits
from the left, so a least number that is misread would have a misread tenth (`DecimalsRead`). `CasesAssumption` asks
that the client sent what `Sends` says: any pairs of the bytes 1 to 254, in each of the query, the cookies and the
body that the route's parameters come from; that only a whole body is a map or a structure, as `convert` makes
neither; and that a default, as `None`, is a value of its own, so that it can be told from what was sent.

The provers cannot instantiate the library's induction theorems, whose parameter is an operator. `WFMin` has none: it
gives every non-empty set of naturals a least member. Least indices, greatest ranges and least counterexamples come
from it; so does an induction whose predicate is a set (`UpTo`, `DownFrom`), and by that, that a function defined by
recursion over the turns of a loop is what its equations say (`Iterated`, `Reversed`): a function that satisfies them
is made turn by turn, and `CHOOSE` then finds one.

Only model-checked: liveness (`CallsEnd`, `Finished`), which is out of this prover's reach with its
fairness. Every invariant and every action property of the passing runs is stated by a theorem.

## 6. Not modelled

* What generated classes say beyond identifiers: `registerOutputSerializers`, the members of base classes, the C++
  types; that is the C++ compiler's to check. The Slice parser, which `loadUnits` runs, is a choice of success or failure.
* `dump`, status texts, the format of dates in cookies, `Set-Cookie` attributes: output without consequences.
* Conversions to `float`, `double` and the integers wider than 16 bits, which use the same code as `byte` and
  `short`; JSON and XML bodies, whose deserializers are the Slicer library's.
* Bytes 255 and NUL in texts, and empty path elements of routes: undefined behaviour or findings of their own, above.
* `common/http.ice`, `core/exceptions.*`, `core/irouteHandler.h`: declarations, whose values are constants of the models.
* `testing/` and `unittests/`: stand-ins for a web server and tests; read for what they expect of the code.

## 7. Plan

Done, in this order: `FileSessions`, `Router`, `Core`, `RouteCompiler`, `CgiRequest`, `Accept`; then `Worker` with
`Server`, `SharedSessions` with `SessionStore`, `Xslt`, `Parameters`, `Compile`.

Left, should the code or its use call for it:

1. *Crashes in the abstract store*: what `SessionStore` could still promise when a worker may die in a save.
