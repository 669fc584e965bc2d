# NemesisDB: a verification project

NemesisDB is an in-memory JSON database. One process serves a WebSocket interface:
key-values (`KV_`), arrays (`OARR_`, `IARR_`, `STRARR_`, `SIARR_`, `SSTRARR_`) and object lists
(`OLST_`). Key-values can be saved to disk and loaded again; arrays and lists live in memory
only. This directory holds TLA+ models of its core logic, the TLC configurations that check
them on small instances, and TLAPS proofs of what matters most.

Every definition is translated from the code, and `PROJECT.json` ("map") names the lines it stands for.

Run a check with `tlc -config KvPersist.cfg MCKvPersist` and a proof with
`tlapm KvPersist_proofs.tla`.

## 1. The system

| Component | Code | State | Operations |
|---|---|---|---|
| KV engine | `core/CacheMap.h`, `core/kv/*` | one map from key to JSON value | SET, ADD, RMV, CLEAR, CLEAR_SET; GET, KEYS, CONTAINS, COUNT read |
| Persistence | `core/kv/KvHandler.h` (doSave, doLoad), `core/kv/KvExecutor.h` (saveKv, loadKv), `core/Persistance.h` | `<path>/<name>/<timestamp>/md/md.json` and `data/<n>` | KV_SAVE, KV_LOAD, load at startup |
| Arrays | `core/arr/*` | per name: a vector of fixed size and a count `used` | CREATE, DELETE, DELETE_ALL, SET, SET_RNG, GET, GET_RNG, CLEAR, SWAP; sorted: MIN, MAX, INTERSECT; LEN, USED, EXIST read |
| Lists | `core/lst/*` | per name: a `std::list` of objects | CREATE, DELETE, DELETE_ALL, ADD, SET_RNG, GET, GET_RNG, RMV, SPLICE, LEN, EXIST |
| Message dispatch | `core/Server.h` (onMessage, handleMessage), `core/*/*Handler.h`, `core/*/*CommandValidate.h`, `core/NemesisCommon.h` | none but two responses built once | find the handler, validate, answer |
| Server lifecycle | `server/server.cpp`, `core/Server.h` | latch, `m_run`, `m_clients`, listen sockets, thread | start, signal, stop, destruction, open/close/message of a client |
| Python client | `apis/python/ndb/connection.py`, `client.py` | one websocket, one event, one response slot | start, open, query, close |
| Python wrappers | `apis/python/ndb/kv.py`, `arrays.py`, `lists.py`, `sv.py` | none | build a request, unpack a response |
| Configuration | `core/NemesisConfig.h`, `server/server.cpp` | `Settings`, read once | read the command line and the file, check them |

How they interact. The uWebSockets loop runs on one thread and calls the message handler; that
calls exactly one data handler, which runs to its end before the next message is read. So commands
never interleave with each other. What does run concurrently: the main thread, which stops the server
while the loop runs; the process and its death, between any two writes of a save; and the tasks of an
asyncio client, which share one connection. Whoever saves does so on the loop's thread: nothing else is
served meanwhile.

What is hard, and what makes each component correct:

- **Persistence.** A save is a sequence of writes and the process may die between any two. What the
  metadata calls complete must be the whole map, a load must give back the last acknowledged save or
  nothing, and saves of one name are told apart by the clock alone.
- **Arrays.** Callers test bounds, the class does not. `used` and the vector's size come apart; a sorted
  array must stay sorted and keep every item through a hand-written merge loop.
- **Lists.** Positions are cut at the end of a list by some operations and not by others; splice moves nodes
  between two lists, or within one.
- **Lifecycle.** Two threads share `m_clients`, the websockets and the handlers with no lock. Every client must
  be closed for the loop, and so the process, to end.
- **Python client.** Requests and responses are matched by nothing but one event and one slot.
- **Dispatch.** The answer's name must tell the client which command it answers, whatever part of the server answers, and
  what was refused must not look like what was done.
- **Configuration.** It is checked in four places, the last of which run when the server listens already; what one lets
  pass the next must bear.

`PROJECT.json` lists the hazards line by line, with the properties that cover each.

## 2. The modules

| Module | What it is |
|---|---|
| `KvMap` | the map and the updates of it (shared vocabulary) |
| `KvPersist` | KV commands, KV_SAVE write by write, KV_LOAD, startup load, death and restart |
| `KvDurable` | the promise: what is kept under a name, in the terms of the documentation |
| `KvPersistRefinement` | the mapping under which `KvPersist` implements `KvDurable` |
| `ArrArray` | the class Array: slots, `used`, rotate, copy, lower bound, reads |
| `Arrays` | commands that sorted and unsorted arrays share |
| `UnsortedArrays` | positions chosen by the client: SET, SET_RNG, SWAP |
| `SortedArrays` | SET, the merge loop of SET_RNG turn by turn, MIN, MAX, INTERSECT |
| `ObjLists` | the list engine with SPLICE |
| `Commands` | the commands, the parameters each is validated by and the status of a validation |
| `Dispatch` | a message from onMessage to its answer, through the handlers' tables |
| `PyApi` | the wrappers of the Python API and plain websockets against `Dispatch` (EXTENDS it) |
| `PyConnection` | start, open, query and close of the Python client over one or more connections |
| `ServerLifecycle` | main thread and loop from start to exit |
| `Configuration` | what the settings are made of and when they are refused |
| `Startup` | `ServerLifecycle` composed with `Configuration`: a process from its command line on |
| `MC*` | values of constants and symmetry for TLC |
| `Arrays_proofs` | lemmas on the operators and commands that both kinds of arrays share; `UnsortedArrays_proofs` and `SortedArrays_proofs` cite them |
| `KvPersist_proofs`, `UnsortedArrays_proofs`, `SortedArrays_proofs`, `ObjLists_proofs`, `PyConnection_proofs`, `PyApi_proofs`, `ServerLifecycle_proofs` | theorems (`ServerLifecycle_proofs` has those of `Startup` too) |

An operator whose comment starts with "(Plausible bug:" is a mutated form of the definition after it: TLC
must find the property that `PROJECT.json` ("mutants") names violated when it takes that definition's place.

### KvPersist

Each command that changes the map is one action. KV_SAVE is `SaveBegin` (directories and an empty md.json),
`SaveCreateData`, one `SaveEntry` per entry of the map, `SaveLeftovers`, `SaveFlushPending` (seeking back to
the start of md.json is what flushes its first text), `SaveFinish` (the close that writes the final text, and the
answer). `Exit` may happen between any two of them and loses the map and what a save had buffered, and may
leave a data file short. `md` of a directory is therefore "absent", "missing" (directory without file),
"empty", "pending" or "complete". Which entries share a file depends on their sizes and is left open.
`Faults` says what else may fail: creating a directory, an exception in the loop, a stream write (nobody reads
the stream's state), the clock. `Reparse` gives what reading a file yields for each key, since keys are
written between quotes without escaping: a key with a quote makes its file unreadable (`Garbled`).
`snapshot` and `acked` are history variables: the map a save was asked to write and the last save
acknowledged.

### Arrays, UnsortedArrays, SortedArrays

An array is a record of `size`, `used` and `slots`; a name without an array has one of size 0. `rsp` holds the
last command, its arguments and its answer. Where the code writes outside the vector the behaviour is
undefined: `Overrun` either ends the process or goes on with `damaged` set, `used` as the code computes it,
and any content in the slots that a rotation touched. What is read past the vector can be anything
(`Reads`). LEN, USED and EXIST answer one field and are left out.

No command tests the type of an item: `isArrayCmdValid` leaves the post-validation out (`ArrCommon.h:63`), and the items are what
`as<>` makes of them. `Foreign` are the items of another type that clients send, `As` what the conversion makes of those that have
one - for an object array everything as it is, for a string array the text of anything, for an integer array doubles, booleans and
numeric text. One item that has none makes a SET_RNG throw before the array is touched (`Unconverted`).

In `SortedArrays` a SET_RNG is a step for what comes before its loop, a step per turn of the loop
(`MergeRun`) and one for the copy after it (`MergeRest`); `merge` holds the iterators. No other command runs
in between, so this is one command's own progress, split to state why the loop is right. The strings
and objects of the other array types are members of `Item` too: only the order of items matters, and
`MergeOverread` is the one place where the type does (a string read behind the last may end the process).

### ObjLists

A list is a sequence, the lists a function on the names that exist. `getIterator` cuts a position at the end,
as the code does. Where `std::list` leaves the behaviour undefined - nodes overwritten past the end, a pop from an
empty list, a splice of a reversed range or into the range itself - what is left need not be a list at all: the
process is "undefined" until it dies (`Overrun`). A GET_RNG that starts behind the limit on a response only reads the end node
(`ReadEndNode`): that kills the process, or throws, or gives an item that is `Garbage`, and the lists are as before. Both set
`outside` in `rsp`, so that a property can tell that a command left the nodes, whatever came of it. The response carries the name under which the code answers: the errors
of ADD carry CREATE's (`ErrorName`).

### Commands, Dispatch, PyApi

A JSON value is what validators tell apart of it: its type, and the shape of an array. `Validate` walks the parameters in
the order of the std::map they are in, so that the first wrong one decides, and then does what the command checks
itself (`PostStatus`). `Answers(m)` is the set of the answers the server may give to a message: an executor may answer any status it
answers to some data, or throw (`Thrown` says under which name that reaches the client). The data are in the modules above.
`prepared` is the only state: the static answer to an unknown command. `PyApi` lets clients make calls and waits for their
end as `NdbClient._raise_if_invalid` and the wrappers decide it.

Two uses of undefined behaviour are kept out of the run. `Server.h:337` compares a view of a temporary string; `TypeKept` says that its
characters are still there, as they are in the build that passes the tests (without them every command is unknown). SPLICE
with an empty `srcRng` reads the first element of nothing (`NemesisCommon.h:249`).

### PyConnection

An action runs from one await to the next. `start()` is `Start` and `Acquired`; `open()` is `Connected`,
`ConnectFails` (OSError), `ConnectRefused` (another exception), `Receive`, `ListenEnds`; `query()` is `Query` (up to the
await in `send`), `Sent` and `Reads`; `Cancel` is a caller's timeout. The server and the network are external: a
server answers in order, and drops an answer behind others that were not read (`Server.h:440` does not look at what
`send` returns, and beyond the `maxBackpressure` of `Server.h:179`, 128 KiB, uWebSockets drops what it is given); a lost connection still gives some of what had arrived. `NoneWoken`
states asyncio's order of ready tasks: `rspEvt.set()` makes the waiting queries ready before `open()` awaits
its next `recv`. `Start` assumes of the caller that a connection is started when it is new or its last task has ended: `start()`
(`connection.py:19`) does not test it, and a second one would have two tasks share the events. `disturbed` is history: in this session two queries overlapped or one was cancelled.

### ServerLifecycle

`main` is the program counter of the main thread: `Server::run` (init, thread, listen, core), the wait on the
latch, `Server::stop` - twice, since `~Server()` stops again - the destruction of the members in the reverse
of their order, the join. The loop's thread accepts, opens, closes, handles messages. `Server::stop` ends
clients one by one (`EndClient`) while the loop goes on. `fault` names the first use of what
the other thread freed or is changing: a websocket, `m_clients`, a handler; nothing happens after it. A
call into uWebSockets is one step.

### Configuration, Startup

`given` is what a process is started with: the command line, the file (which parameters are wrong or missing, and the values that are
compared), what is at the persist path, how a load would end, whether the port is free, how many cores there are and which it may use.
`ReadConfig` is `readConfig` in `main()`; every step of `ServerLifecycle` that may succeed or fail then follows
from `given`. `settings = "aborted"` is a process that ended in an exception nobody caught: the constructor of `Settings` reads `core`
with a subscript (`NemesisConfig.h:48`) though `parse` does not ask for it, and `validatePreLoad` parses `md.json` and the names of directories (`Persistance.h:101`).

## 3. The runs

| Run | Instance | What it checks |
|---|---|---|
| `kv_persist` | 2 keys, 2 values, 1 name, 2 saves, crashes anywhere | `CompleteIsExact`, `AckedIsKept`, `LoadRestoresLastSave`, `RefusedLoadChangesNothing`, and that `KvPersist` implements `KvDurable` |
| `kv_persist_faults` | 2 keys (one with a quote), 1 value, 2 saves, every fault | `LoadNeverInvents`, `CompleteNeverRewritten`, `SaveEnds` |
| `kv_save_error` (violation) | an exception in the data loop | `IncompleteNeverLoads` |
| `kv_crash_hides` (violation) | a crash in a save | `SavedCanBeRestored` |
| `unsorted_arrays` | 1 array of up to 3 slots, 2 items, batches of up to 2 | `RefusedChangesNothing`, `ClearKeepsTheRest`, `OnlyKnownDamage` |
| `sorted_arrays` | an array of 4 slots and one of 2, 2 items, batches of up to 2 | `HeldInOrder`, `MergeFits`, `ExtremesAreRight`, `IntersectIsCommon`, `InsertKeepsItems`, `OnlyKnownDamage`, `MergeEnds` |
| `obj_lists` | 1 list of up to 4 or 2 of 2 or of 3 in all, of 2 items, batches of up to 2, limit 2 on a response | `AddedWhereAnswered`, `RangeIsOfTheList`, `SpliceConserves`, `RefusedKeepsItems`, `OnlyKnownDamage` |
| `py_connection` | 2 callers, 3 queries, 2 sessions | `WaitersAreWoken`, `AnswersMatch`, `QueryEnds`, `StartEnds`, `CloseEnds` |
| `py_disconnect` (violation) | the same | `DisconnectEndsQueries` |
| `server_lifecycle` | 43 ways to start, 3 clients, 2 signals | `ClientsTracked`, `StopEndsClients`, `FaultsAreLate`, `ShutdownEnds`, `StartupEnds` |
| `srv_loop_returns` (violation) | two ways to start, the rest the same | `LoopReturns` |
| `py_api` | every wrapper, every command with every choice of members and types, 2 clients | `NeverSilent`, `RefusedIsResponseError`, `WrappersAreKnown`, `CallEnds` |

A run that expects a violation checks what a document or a comment says of the program, quoted with its line in `PROJECT.json`
("findings"); its counterexample is the code doing otherwise.

`kv_persist`, `unsorted_arrays` and `sorted_arrays` check their module's `TypeOK` as well; those of `ObjLists`,
`PyConnection` and `ServerLifecycle` are proved (`TypeCorrect`, section 5).

### Bounds

- KV: two keys are the least with which a save can be split over two files, a file can hold one or
  two entries, a save can die with one entry written, and two keys can differ in a load. Two values tell an old map from a
  new one. Two timestamps give an older and a newer save of a name; names do not interact in the code but for the clock,
  so one is enough. The faults run has one value, because `LoadNeverInvents` compares with the snapshot of
  each save, and the two keys already make two different maps of it.
- Arrays: three slots and batches of two reach every relation between `used`, a position, a range and the size;
  `UsedBound` caps the count, which overwriting raises for ever, at two above the size: beyond that nothing
  compares differently. The merge loop takes
  four slots and batches of two, so that it can take two turns, with equal items, and leave a rest.
  In that run `Lengths` gives the second array two slots only - enough for INTERSECT to meet none, one and two common items -
  and `Positions` asks it for its first two positions. `CONSTRAINT Undamaged` does not go on from a state in which
  memory outside an array was written, and `Junk = {0}` keeps one content for such a state: what holds then is proved for
  any `Junk` (section 5), and its arbitrary contents would be most of the states. `unsorted_arrays` does go on, with `Junk <- Cell`.
  Both runs send two items of another type, one that has a conversion and one that has none.
- Lists: four nodes in one list, so that a splice within it has a node before, in and after its range, and with limit 2 a
  GET_RNG is cut to more than one item and can start at the limit or, on the last node, behind it. Of two lists
  `CONSTRAINT FewItems` goes on from those that hold two items each or three in all: enough for a splice that takes the first, the last or
  all of one and puts it before, between or after those of the other (what it does for any lists is proved). States with more are
  checked and not gone on from. `MaxLen` bounds a list and `MaxItems` a request. `Garbage` stands for what the end node reads as.
- Client: two callers make overlaps, three queries let a third meet what the first two left, two sessions let a query
  outlive its connection.
- Lifecycle: three clients, so that one can be ended, one not yet, and one come during the walk; two signals, because the
  latch starts at 1.
- Starts: one for each thing that can be wrong with the command line, the file, the machine or the save, the two payloads at
  each limit, and every relation of `core` to the number of cores.
- Python calls: calls have no state but `prepared`, so one client makes them one at a time; the other exists to be the first with an
  unknown command. Arrays of another kind have the same handlers and parameters, so that of their commands `SET` alone is
  enumerated, for the type of its item.

### Fairness

- `KvPersist`: `WF(SaveStep)`. The thread in `doSave` runs on to its end and waits for nobody.
- `SortedArrays`: `WF(MergeRun \/ MergeRest)`. The loop is plain code.
- `PyConnection`: the event loop runs every ready task; connecting ends (`open_timeout=5`); a connected server answers.
  Nobody has to call anything and nothing has to fail.
- `PyApi`: the loop handles a message that came, and a response that came is read.
- `ServerLifecycle` and `Startup`: both threads run on; uWebSockets gives up a connection that is never upgraded. No client has
  to act and no signal to come.

`CHECK_DEADLOCK FALSE` stands in the runs of `PyConnection` and `Startup` only: a process that has exited or that met undefined
behaviour stops, and so does a client whose callers are done.

## 4. What the checks show

- **Saves.** Without a failing write, metadata that says Complete implies the exact map, wherever the process died,
  and the engine refines the documented promise - with one reservation written into `KvDurable`: a save cut short
  hides the earlier saves of its name. That reservation contradicts kv-load.md and is `kv_crash_hides`
  (`getLoadPaths` looks at the highest directory only). `kv_save_error`: `saveKv` catches its own exceptions, so
  `doSave` completes the metadata of a save it answers with SaveError, and that save loads. When a write fails nobody
  notices, and the save is acknowledged without what was lost; a load still mixes in nothing that was not of the save (`LoadNeverInvents`).
- **Unsorted arrays.** Memory outside a vector is touched by two commands: SET_RNG without a position, tested
  for one free slot only (`ArrExecutor.h:104`), and CLEAR with a start behind the last item, behind its stop, or
  with `used` above the size (`ArrArray.h:209`). A refused command leaves the array as it was - but an item of another type is
  not refused, in sorted arrays neither: it is stored as what the conversion makes of it and answered Ok (see the divergences below). Only
  an item that has no conversion has the batch refused, as a whole and with Unknown.
- **Sorted arrays.** The merge loop is right: in order at each turn, no item lost or doubled, room for
  every item, and it ends. INTERSECT gives each common item as often as the array with fewer of it has it. Two commands leave
  their storage: a CLEAR with a start behind the last item or its stop, and a SET_RNG into an array with items that gives none
  or none above the highest, which reads the item behind the batch but writes nothing (`ArrArray.h:115`). MAX is right for a full array only: it reads from the last slot of the vector, not of the items
  (`ArrArray.h:252`).
- **Lists.** Splices conserve items wherever `std::list` defines them. Undefined are: SET_RNG that starts inside and runs
  over the end (`LstList.h:76`), head or tail of an empty list (`LstList.h:123`), SPLICE of a reversed range or into
  itself (`LstCommandValidate.h:214`). GET_RNG that starts inside the list but behind the limit on a response runs over the end node
  and on from the head (`LstList.h:104`), because the limit cuts its stop and not its start: if the process survives it and nothing
  throws, the response has the items behind the start, what the end node read as, and those from the head to the limit. `OnlyKnownDamage` says that these
  four, each exactly when so described, are all that leave the nodes; `RangeIsOfTheList` what a GET_RNG gives that stays on them. A SPLICE that cannot read its range leaves an empty destination (`LstHandler.h:319`).
- **Python client.** With one query at a time each gets its own answer, also across a lost and a new connection, and no wakeup is lost in `start()`, `close()` and `query()`. Against the
  comment in `connection.py:66`, a query that waits when the connection is lost waits for ever: only `recv` is cancelled.
  Against the comment in `connection.py:29`, a handshake that fails with something other than an OSError leaves `start()` waiting for ever: no
  handler of `open()` releases the semaphore. `WaitersAreWoken` and `StartEnds` except that case (`refused`).
- **Lifecycle.** If no client acts while the server stops, it stops cleanly; and if none completes its handshake meanwhile, every client has been ended
  before the join. Otherwise: a client that opens during the
  stop is closed by nobody and the join hangs (`srv_loop_returns`); one that closes then is ended after it was freed; a
  message handled then uses destroyed handlers, because the members of `Server` are destroyed before the thread is
  joined (`Server.h:450`). A second signal before the main thread has read the latch takes it below zero and `wait()`
  never returns (`signals > 1` in `ShutdownEnds`).
- **Start.** A process serves exactly if it was given what the code needs (`Able`). That is not in all what `docs/docs/home/config.md` says:
  the version must be 6 and `core` has to be there, and a `core` equal to the number of cores is not taken back to 0 but fails after the
  server listens (`Server.h:97`, `:274`).
  No client that came in that moment keeps the process from ending, unless it completes its handshake during the stop, as above.
- **Calls.** Every message is answered, so every call ends. What a wrapper sends is never refused for its name, its members or its syntax, and what is refused
  raises `ResponseError` - but `add()` of a list, which raises KeyError (`LstHandler.h:91`), and `exist()`, which does not check. With
  `sendCmd` two refusals return as if done: those of `OLST_ADD`, and an unknown command when another unknown command came
  first (`Server.h:388`).

Divergences met while modelling that have no run of their own:

- the clock set back between two saves makes a load choose the older one; an empty save is answered `Loading` (140) on load;
- a key with a double quote makes its save unreadable (`KvExecutor.h:309`); a full disk goes unnoticed and the save is acknowledged
  (`KvExecutor.h:381`), where SaveComplete is "save complete without error" (`docs/docs/api/kv/kv-save.md:60`);
- the type of an item is not tested: `docs/docs/client_apis/python/arr/set_rng.md:44` has "`item` is incorrect type" raise ResponseError, but
  `isArrayCmdValid` leaves its post-validation out (`ArrCommon.h:63`) and `ArrExecutor.h:82` converts what it can: anything for an object array,
  anything to text for a string array, doubles, booleans and numeric text for an integer array. Such a batch is stored and answered Ok;
- `docs/docs/home/config.md:99` calls `lists::maxResponseSize` the "Maximum number of items permitted in a response": a GET_RNG that
  starts behind it can answer more (`LstList.h:104`);
- `docs/docs/home/config.md:55` says that `version` "Must be 5": the code takes 6 only (`NemesisConfig.h:161`);
- `docs/docs/home/config.md:56` says of `core` "If not present or above maximum available, defaults to `0`": without it the process aborts, although
  `parse` accepts the file (`NemesisConfig.h:48`, `:162`); and one equal to the number of cores, which count from 0, passes for one that is there, and the start fails;
- `connection.py:29` says "the listen_task will release this semaphore": not after a refused handshake (`connection.py:46`);
- `docs/docs/client_apis/python/lst/add.md:54` has `add()` raise ResponseError if the list does not exist: it raises KeyError;
- `docs/docs/home/install/docker/linux.md:105` has ctrl+c stop the server: two in a row may keep it running (`server.cpp:24`);
- CLEAR of a range behind the items raises `used`, where the docs say "Calls to `clear()` reduces `used()`" (`docs/docs/client_apis/python/arr/create.md:24`); SET_RNG at a position counts what it overwrites again (`ArrArray.h:89`);
- GET_RNG of an array with a start behind `used` answers `ERR`; an empty SET_RNG on a sorted array reads a null pointer (`ArrArray.h:115`);
- two overlapping queries of one Python connection: the second to read clears an event the other has not waited for, and waits for ever;
- `Server.h:337` keeps a `string_view` of a temporary.

## 5. What is proved

TLAPS checks these for every value of the constants that satisfies the modules' ASSUMEs: any number of keys, names, items, clients
and requests, any capacity and limit. Every safety property and every action property of a passing run is a theorem.

`KvPersist_proofs`. The hypotheses say what may fail, as `Faults` does, and what keys do to their files:

| Hypothesis | Says | Theorems |
|---|---|---|
| none | anything may fail | `TypeCorrect`, `CompleteKept` |
| `Told` | no exception leaves the data loop and the clock is not set back; writes may fail | `OnlyAckedLoads` |
| `WritesSucceed` | no stream write fails, no exception leaves the data loop | `CompleteExact`, `AckedKept` |
| `KeysReadBack` | a key is read back as itself, or its file cannot be parsed: no key has an escape | `LoadInventsNothing` |
| `WritesSucceed`, `KeysReadBack`, `KeysParse` | and no key has a quote | `RefusedLoadKeeps` |
| `Orderly`, `KeysReadBack` | `WritesSucceed`, and the clock is not set back | `LoadRestores` |
| `OnlyCrashes`, `KeysReadBack` | nothing fails but the process | `ImplementsKvDurable` |
| `Faults = {}`, `KeysParse` | nothing fails, the process may be restarted between commands | `SavedComesBack` |

`CompleteIsExact` is not inductive: whether metadata may be completed depends
on the save having written every entry. `SaveInv` says, for each phase of a save, that the files, the buffer and the entries still to
do together are the map, that the map is still the snapshot, and that the directory is not yet
complete. `IInv` is the conjunction of `TypeOK`, `SaveInv`, `CompleteIsExact` and that an acknowledged save is complete.
`LoadRestores` adds `OneAtATime` (no command is answered while a save is under way, and a process that is down has no map) and `NewestInv` (the save
under way is the newest of its name, and a complete newest save is the one acknowledged last): a load looks at the newest directory, so
what it finds complete there is the acknowledged save, and by `ReadingIsExact` reading its files gives that map. `LoadInventsNothing` cannot use `IInv`,
which failing writes break; `FilesFromSnapshot` says only that what the files hold is of the map the save began with, and
survives them. `ImplementsKvDurable` maps each step: the first directory of a save is `BeginSave`, the completing write is `EndSave`, a start is
`Boot`, a death `Stop`; what lies between is a stutter. A KV_LOAD is a `Change`, which allows any map - that it is the right one is `LoadRestores`.

`OnlyAckedLoads` and `SavedComesBack` prove the two properties that `kv_save_error` and `kv_crash_hides` find violated, under the hypotheses
without which they are: the documents are right about an engine whose data loop throws nothing, and about one that never dies in a save.
`OnlyAckedLoads` needs no `IInv`: `NewestInv` is kept also when writes fail. `SavedComesBack` adds `AckedNewest`: the save acknowledged last is the newest of its name,
unless another of that name is under way - and a load is answered when none is.

`UnsortedArrays_proofs` - `TypeCorrect`, `RefusedKeeps`, `ClearTakes`, `DamageIsKnown`. The invariant is the types (`ArraysTyped`): with it, each command's
tests decide alone what it may do. That an array holds items at all is part of it: whatever is sent, the items stored are of the array's type (`ConvertedIsBatch`), and
`RefusedKeeps` covers the batch whose conversion throws. The work is in what the operators of the class do to the slots (`Arrays_proofs`): a rotation is a permutation whose
result is written out, a CLEAR that keeps to its range leaves the items before it and behind it, one next to the other.

`SortedArrays_proofs` - `TypeCorrect`, `AlwaysInOrder`, `MergeHasRoom`, `ExtremesRight`, `RefusedKeeps`, `ClearTakes`, `InsertsKeep`, `IntersectsCommon`,
`DamageIsKnown`, `TurnsAdvance`, `TurnsGoOn`. Order after a turn of
the merge loop needs that the next
item belongs at the lower bound and that the rest fits, so `IInv` carries `MergeFits` (there is room for the items left, and
the remembered lower bound is that of the next one) and `MergeRuns` (a SET_RNG under way has a running process and an
existing array); that the batch is ascending is in `TypeOK`. `RefusedKeeps`, `ClearTakes` and `ExtremesRight` need `NoAnswerYet` besides: the turns of the loop
answer nothing, or half a SET_RNG would pass for a command. `InsertsKeep` counts: `Spots(s, x)` are the places of `x` in `s`; `Widened` says that one sequence is another
with a run put in at some place, `CountWidened` that its count is then the sum of the two. A turn of the loop widens the items of the array by exactly the run by which it
shortens what is left of the batch. `IntersectsCommon` is an induction: the walk over two arrays is a recursive function of two positions (`CommonItems`), and the induction over how many
positions are left is the well-foundedness of the natural numbers, cited for a set of numbers (`NatSetInduction`) because the library's rule takes an operator. A recursive function is a CHOOSE, so `WalkExists`
and `CommonWalked` first show that a function with its equations exists; `CommonShared` is what it then computes: the counts of the lesser array, in order. `TurnsAdvance` and `TurnsGoOn` are the
safety half of `MergeEnds`: each turn leaves fewer items, and while items are left there is a turn to take.

`ObjLists_proofs` - `TypeCorrect`, `AddAnswers`, `RangeAnswers`, `SpliceMoves`, `RefusedKeeps`, `DamageIsKnown`. The invariant adds to the types that there are finitely many
lists, without which places cannot be counted. `DamageIsKnown` is about every command that leaves the nodes, whether the process survives it or not, GET_RNG among them: its
tests let it do so only as described. `SpliceMoves` gives a bijection: `Origin` tells for each place after the splice the one the
item came from, within one list or between two, and it keeps items and lists, so each item has as many places as before.

`PyConnection_proofs` - `TypeCorrect`, `AnswersAreOwn`, `NoWakeupIsLost`. `AnswersMatch` is about the step in which a query returns; what makes it true is `OneInFlight`: undisturbed, at most
one query uses the connection, and its answer is in exactly one place - still to be asked for, in the requests, in the replies, or in the slot with the event set
or the query woken - or lost with the connection; a live connection without a query has nothing to give. `TasksAgree` relates `open()`, `start()` and the events of earlier
sessions; without it a query left over from a lost connection could not be told from one of this session. `WaitersAreWoken`, the safety half of `QueryEnds`, `StartEnds` and
`CloseEnds`, needs `Released` besides: a connection closed by its user is never being made again before the next `start()`. What it says of queries is `OneInFlight` read
for a query that waits.

`PyApi_proofs` - `RefusalsRaise`, `WrappersRaise`, `WrappersKnown`, under `TypeKept` (section 2) and `CallsAssumption` (a wrapper's call is one that some wrapper makes). `IInv`
says of each client's call that what it was answered is in the server's answers to its message, and, where that is the prepared answer, that it was prepared; the prepared
answer never changes again, so other clients do not disturb it. The rest is about tables and lists of parameters: `OfCommand` says under which names a handler answers
(the command's, `ERR`, or CREATE's for ADD); `ValidateEnds` that a refusal comes from one of the parameters or from the last check; `WrapperFits`, table by table,
that what a wrapper sends has every parameter of its command that is required.

`ServerLifecycle_proofs` - types, `AlwaysTracked`, `FaultsOnlyLate`, `StopEndsAll`. The invariant adds `LatchCounts` (the latch is 1 less
the signals, and less one more when the start failed), `StopsCounted` (where the main thread is tells how often it stopped the
server, and `m_run` is false from the first time on) and `EndsAreOpen` (while no client has acted since the stop began, those still to
end are open). Without the last one a step of `EndClient` on a closed websocket cannot be ruled out.
Of `Startup`: `StartupImplementsServer`: each step of it is a step of `ServerLifecycle` or leaves its state alone, so the
invariant above carries over (`StartupAlwaysTracked`, `StartupFaultsLate`, `StartupStopEndsAll`). `StopEndsAll` needs `EndsReachAll`: while the server stops, a client
that is open is one still to end, or came during the stop. Nothing is promised when a client completes its handshake during the stop. `ServesOnlyIfAble`: a process that serves was given
everything `Able` names, which is what the code needs; the invariant `StartInv` collects, for each place of the main thread, what has been checked by then.

Model-checked only: liveness (`SaveEnds`, `MergeEnds`, `QueryEnds`, `StartEnds`, `CloseEnds`, `ShutdownEnds`, `StartupEnds`, `CallEnds`), which needs fairness and
ENABLED, out of the prover's reach. For some of them the safety half is proved, as said above. Of the four runs that expect a violation, the two of `KvPersist` have a theorem each that says
what is enough for their property (`OnlyAckedLoads`, `SavedComesBack`); `py_disconnect` and `srv_loop_returns` are liveness.

## 6. What is not modelled

- Power failure: a crash is the death of the process, whose writes the kernel still completes. Nothing is synced, so a
  power failure may keep any part of an acknowledged save.
- Read-only commands of KV and LEN, USED, EXIST of arrays: they change nothing and answer one lookup.
- JSON parsing and formatting, except where it decides what a load reads (`Reparse`).
- Logging, and the text of `SV_INFO`.
- Calls of a wrapper that its own checks refuse: nothing is sent.
- uWebSockets, websockets and asyncio themselves: modelled by how this code uses them and marked external.
- `clients/` uses commands that no longer exist; docker, package and docs are not program logic.

## 7. Plan

Done: every component with logic of its own; the proofs of section 5.

Next, in this order:

1. An abstract specification of a sorted array as a bag of items, which `SortedArrays` implements between two commands (`InsertsKeep`,
   `ClearTakes` and `IntersectsCommon` are its steps).
2. Liveness of the merge loop, from `TurnsAdvance` and `TurnsGoOn`, once ENABLED and fairness can be reasoned about.
