# A verification of llgoexamples

`llgoexamples` shows how Go programs compiled by LLGo use Rust libraries through
their C interfaces: the HTTP library hyper, the database sled, the storage layer
OpenDAL and a csv reader. The libraries themselves are not in the repository. What
is here are C wrappers around them, Go declarations for the wrappers, and programs
that use both. This directory holds TLA+ models of the parts that keep state or
hand over ownership, the TLC configurations that check them, and TLAPS proofs of
the properties that matter most.

Paths below are relative to `src/`.

## 1. The system

| component | state | operations | talks to |
|---|---|---|---|
| hyper clients: `lib/rust/hyper/examples/client.c`, `upload.c`, `rust/hyper/_demo/hyper_client/hyper.go` | `conn_data` (descriptor, read and write waker), the two `fd_set`s, the executor, the task in hand; `upload.c`: the file, its buffer, the two bodies; `hyper.go`: the gathered body | `main` / `Get` (setup, poll loop, one case per finished task, `select`), `read_cb`, `write_cb`, `print_each_chunk`, `AppendToResponseBody`, `poll_req_upload`, `free_conn_data` | hyper calls the I/O callbacks from inside `hyper_executor_poll`; wakers travel the other way, from the `select` step to hyper; a socket to a server |
| `connect_to` (same three files) | `rp`, `sfd`, the address list | the loop over the addresses | the kernel |
| sled wrapper: `lib/rust/sled/src/lib.rs`, `rust/sled/sled.go` | none of its own: raw pointers to a configuration, a database, iterators and leaked buffers, all owned by one side or the other | configuration calls, open/close, get, set, del, compare-and-swap, scan, the frees | sled; any number of threads of the caller |
| OpenDAL binding: `lib/rust/opendal/bindings/c/src/*.rs`, its header `opendal_c.h`, `rust/opendal/opendal.go` | none of its own: two boxes per handle; in them an option map, what an operator took from it, an error's code | `opendal_operator_*`, `_lister_next`, `_reader_read`, getters, the frees | OpenDAL and the service behind an operator |
| csv wrapper: `lib/rust/csv-wrapper/src/lib.rs`, `rust/csv/csv.go` | one boxed reader, a string per record | new, read_record, two frees | the csv crate |
| example programs: `basic.c`, `error_handle.c` of OpenDAL, `test/main.c` and `csvdemo/csv.go` of csv | a result or a record in hand | `main`: call, look at the result, print, free | the OpenDAL binding, the csv wrapper |
| build files, continuous integration | none | none of the programs' | |

### What is hard here

* **The event loop.** The clients are one thread that sleeps in `select()` without
  having been told what for: the loop goes by which of the two waker slots of
  `conn_data` are filled, and hyper goes by the wakers. If the two ever disagree the
  process sleeps for ever, frees a waker twice, or leaks it. It takes a blocked read
  *and* a blocked write in one poll, and the two becoming ready together or apart, to
  tell. Meanwhile the server may answer early, late, partly or not at all, close or
  reset.
* **Background work.** hyper's connection task finishes among the program's own tasks
  and is told apart only by its null userdata.
* **Ownership across the language border.** Setters that consume their argument,
  strings that are taken over, buffers leaked for the caller, results that may hold a
  null pointer which some free functions accept and others dereference.
* **One null for several things.** A csv read returns null for the end of the file, a bad
  row and a failed read; an OpenDAL result has two pointers, and its users look at one and
  read through the other.
* **Concurrent callers.** sled may be used by several threads; compare-and-swap is the
  only operation that makes read-modify-write safe, and it reports failure through two
  pointers that are not always both written.

### What makes each component correct

* *clients*: wakers accounted for; no sleep without the registrations it takes to be
  woken; an exit reported as success only on the whole body and with everything
  released that the program releases; no error unless the peer went away or a call on the
  socket failed; the exchange ends. For the upload also: no piece lost or sent twice, no
  callback on freed data. For the Go client: its body buffer, and how long it can sleep.
* *connect_to*: it returns the one open descriptor, of the first address that accepts.
* *sled key-value calls*: no update lost, every buffer with one owner, no swap
  that brings the process down, retry loops that end unless the process dies or the key
  keeps an empty value.
* *handles (sled, OpenDAL)*: every pointer a call is given is sound when the caller
  frees only what it owns; nothing leaks; handles do not share memory and keep what
  they were made with; a result is decisive.
* *example programs*: nothing is read through a pointer that is not there; a run that
  comes to its end has released everything; an assertion fails and a listing stops short
  only for a reason; every program ends.

## 2. The modules

| module | models | correspondence |
|---|---|---|
| `HyperConn` | what the three clients share: `conn_data`, the callbacks, the `select` step, and as environment hyper's executor, the socket and the peer | `waker["read"]`, `waker["write"]` are the two slots of `conn_data`; `wakers` the handles alive; `fds` the sets handed to `select`; `task`, `cur`, `curType` the executor and the task in hand; `outbox`, `rcvd`, `delivered` what hyper has buffered; `fault` whether a system call on the socket has failed on its own; `held` what the program has allocated and not released |
| `ClientC` | `client.c` | one action per case of the switch, per callback and per step of the loop |
| `GoClient` | `hyper.go`: `Get` and its callbacks | as `ClientC`, with the ten-second `select`, the malloc'd body, panics |
| `UploadC` | `upload.c` | as `ClientC`, with the file, the request-body callback and one data task per chunk |
| `HttpExchange` | the abstract specification of the three | phases and the length of the body |
| `ConnectTo` | the address loop | one action per system call and per exit of the loop |
| `Sled` | get, set, del and compare-and-swap by several callers on one key, with the buffers they leak | `outVal`, `outBuf` are `*actual_vallen`, `*actual_val`; `Asks` are the callers that pass an `actual`, `Reuses` those of them that use one variable for all their calls, as C code may; `process` is down after a write through null or a panic of the wrapper |
| `SledHandles` | who owns configuration, path, database, iterator and pairs | a heap of addresses; a freed address may be handed out again, so a stale pointer can name another object |
| `OpenDalTypes` | the kinds of handle, the error codes and the result structs of `opendal_c.h` | sizes are none or some |
| `OpenDalApi` | the abstract specification of the binding: what the header promises, with no memory behind it | a handle is a kind and what it says |
| `OpenDal` | what the binding's calls allocate, change, return and free | two boxes per handle; freed ones are reused first; `ret` is mapped to the header's struct by `HeaderResult` |
| `CsvWrapper` | the four functions of the csv wrapper | `rows` is the file, `at` and `broken` the csv crate's reader |
| `Examples` | the four example programs, on `OpenDal` and `CsvWrapper` | one action per call and its assertions |
| `MC*` | small instances for TLC | |
| `HyperConnProofs`, `ClientCProofs`, `GoClientProofs`, `UploadCProofs`, `ConnectToProofs`, `SledProofs`, `SledHandlesProofs`, `OpenDalProofs` | proofs | `OpenDalProofs` also holds those of `Examples` and so of the csv wrapper |

`ClientC`, `GoClient` and `UploadC` extend `HyperConn` with their own handlers and
their own `Next`; `HttpExchange` is instantiated in each with a refinement mapping
(`phase` is defined in `HyperConn` from the program counter and the task the program
follows; the body is `delivered`, for the Go client `bodyLen`). The clients' `Setup`
is `ConnectTo` in one step. `Examples` extends both `OpenDal` and `CsvWrapper`: a program's
action is the library's action and the program's move together. `OpenDal` instantiates
`OpenDalApi`, whose `says` is the content of the box behind a handle. The models are of atomic steps between two points where
something outside the thread can intervene: a callback, a system call, a poll of one
task. The peer and the kernel move between any two of them.

Definitions whose comment says *faulty variant* are not part of any specification.
Each is a definition changed the way a slip in the code would change it (a waker that
is not freed, a set that is not filled, an EAGAIN taken for an end of stream), and shows
that the property it is listed with in `PROJECT.json` would notice.

### What is external

hyper is modelled from how its callers use it and from `hyper.h`: the executor polls
ready tasks in any order and returns one that has finished; the connection task reads
when it needs the head, a chunk somebody waits for, or the end of the stream, and
writes while it has something to write; it does not rest before every direction it
wants has answered that it is pending. This last point, that hyper honours
`HYPER_IO_PENDING`, is the assumption `NoLostWakeup` rests on together with the
programs' own code. `hyper_waker_wake` consumes the handle. A read or write of the socket may fail at any
time with an errno other than EAGAIN, EINTR included (`ReadFails`, `WriteFails`), whatever
the peer does. sled is a linearizable map, and any call of it may fail: the wrapper then panics
(lib.rs 115, 134, 146, 198, 233), which does not unwind out of an `extern "C"` function and
takes the process down.
The service behind an OpenDAL operator may fail in every call; after an error a lister
ends. In the examples it is the memory service, which finds what was written and nothing
else, but may fail otherwise. The csv crate goes on after a malformed row and ends for
good when the file cannot be read.

## 3. The runs

Eight runs pass. `TypeOK` is checked where it says something about the program; elsewhere
it is part of what is proved.

| run | bounds | states | shows |
|---|---|---|---|
| `ClientC` | request of 2 writes, body of 2 chunks, a send buffer of 1, 3 wakers | 7725 | `WakersAccounted`, `NoLostWakeup`, `CleanExit`, `ErrorsHaveACause`; under fairness `Terminates` and `ImplementsExchange` |
| `GoClient` | the same, a timeout of 2 ticks | 43845 | `WakersAccounted`, `ReturnsWholeBody`, `SleepPaidByProgress` (all sleep is paid for by units written or read, plus one last wait: the ten seconds bound a silence and not the request); `Terminates` with nothing asked of the peer; `ImplementsExchange` |
| `UploadC` | head and 2 pieces of the file, body of 2 chunks, a send buffer of 1, 3 wakers | 37192 | `WakersAccounted`, `UploadWatched`, `UploadConserved`, `CallbacksHaveData`, `CleanExit`, `Terminates`, `ImplementsExchange` |
| `ConnectTo` | lists of up to 4 addresses, each with any outcome | 2160 | `ReturnsTheOpenSocket`, `FirstThatAccepts` |
| `Sled_go` | 3 callers: one with a new `actual` for each call, as the Go binding makes it, one that goes on using the same, one that asks for none; 5 buffers, 2 resets (deletions or stores of an empty value); any call may panic | 104418 | `NoLostUpdate`, `BuffersOwned`; `RetriesEnd`, unless the process goes down or the key keeps an empty value |
| `SledHandles` | 6 addresses, 3 setter calls, 2 pairs; a caller that leaves its path to the wrapper but may free the used configuration | 742 | `MisuseIsOverfreeing`: only that free leads to a misuse; `NoLeak` without it |
| `OpenDal` | 3 structs and 3 values at a time, 2 entries or chunks, one configuration, two error codes; a caller that frees null where the code allows it | 149753 | `HandlesIntact`, `NothingLost`, `ResultsDecisive`; `ImplementsApi` |
| `Examples` | the four programs; files of up to 4 rows, each good or malformed, the file failing anywhere | 1261 | `UsesWhatIsThere`, `ReleasesAll`, `AbortsHaveACause`, `CutShortOnlyByError`, `Ends` |

Four runs end in a violation, each of one property that a comment of the code states:

| run | property | what the code does instead |
|---|---|---|
| `Sled_nil_actual` | `NeverCrashes` | `CASString` and `CASBytes` accept a nil `actual` and pass a null pointer on; a failed swap on a set key writes through it (lib.rs 194) |
| `SledHandles_demo` | `NoMisuse` | the demo defers `conf.Free()` on the configuration that `sled_open_db` has consumed |
| `SledHandles_path` | `NoMisuse` | `sled_config_set_path` takes the string over and frees it (lib.rs 41), although its comment says that it is copied and that the caller must free it (lib.rs 34-35) |
| `OpenDal_null` | `NullIsFreeable` | `opendal_operator_free` dereferences its argument (operator.rs 70) although its comment says that null does nothing (operator.rs 56) |

### Why these bounds are enough

* *Clients.* What matters is which of the two directions is blocked when, and how far
  the response is when the connection ends. A send buffer of one unit and two writes
  make a write block and be woken. Two chunks give the first, a middle and the end of a body. Three
  wakers are one more than can be alive at a time, so that a leak runs on into a
  violation and not into a full set. Two ticks tell a timeout from a wait cut short.
* *ConnectTo.* Four addresses cover every pair of outcomes before and after a failure.
* *Sled.* Three callers let one fail twice because of the two others; two resets let the
  key disappear, come back and disappear again, or be emptied, under a pending swap. No
  caller ever owns more than two buffers, one that asks for no `actual` no more than one, so
  that five are never used up (`LeakedIsBounded` proves the two for any callers).
  `Sled_nil_actual` has callers that ask for nothing and no empty values, as the crash
  needs none.
* *Handles.* Six addresses hold everything a caller has at once, and one to spare, so
  that an address may or may not be reused. In `OpenDal` the lowest free box is always
  taken, so reuse is immediate; three handles are an operator with a lister and an
  entry, or, with the operator freed, a lister, an entry and its name. One configuration and none tell an operator
  that kept its options from one that did not; two codes tell a missing object from any
  other failure.
* *Examples.* Four rows hold a bad one at the start, in the middle and at the end of good
  ones. The programs hold an operator and one more handle.

### Fairness

* `ClientC`, `UploadC`: weak fairness of the program (one thread that runs unless
  `select` blocks it) and of a peer that, as long as it keeps the connection open, reads
  what was sent and answers. Without the latter the C programs do wait for ever: their
  `select` has no timeout. Nothing is assumed about `PeerClose`, `PeerReset` or
  `SelectFails`.
* `GoClient`: weak fairness of the program and of the clock. Nothing is assumed about
  the peer, which is the point of the timeout.
* `Sled_go`: weak fairness of each caller, that is, a scheduler that runs every thread.
  Retry loops end because a swap fails only when another succeeded or a reset
  happened. `RetriesEnd` excepts two things which no scheduler helps against: a process
  that is down, and a key that holds an empty value for good.
* `Examples`: weak fairness of the program, which is a single thread that never waits.
* The other runs check safety under no fairness.

## 4. The proofs

All theorems are of the specification without its fairness, for every value of the
constants that the modules' assumptions allow.

| theorem | states |
|---|---|
| `ClientCProofs!Inductive`, `TypeCorrect`, `WakersSafe`, `NeverSleepsUnwatched`, `ExitIsClean`, `ErrorsAreReal` | `IInv`, `TypeOK`, `WakersAccounted`, `NoLostWakeup`, `CleanExit`, `ErrorsHaveACause` of `client.c` |
| `ClientCProofs!RefinesExchange` | `client.c` implements the safety part of `HttpExchange` |
| `ClientCProofs!EveryRunIsFinite` | each step of the program or of the peer lowers a natural number |
| `GoClientProofs!TypeCorrect`, `WakersSafe`, `NeverSleepsUnwatched`, `WholeBodyReturned`, `RefinesExchange` | the same for `Get` of `hyper.go`, and `ReturnsWholeBody` |
| `GoClientProofs!SleepIsPaid` | `SleepPaidByProgress`: what `Get` may sleep, by what it has written and read |
| `GoClientProofs!EveryRunIsFinite`, `SleepIsBounded` | as for `client.c`, but for the ticks of one wait; in all, `Get` sleeps at most a timeout for each unit of request and response and two more |
| `UploadCProofs!Inductive`, `TypeCorrect`, `WakersSafe`, `SleepsWatched`, `UploadIsConserved`, `CallbacksSafe`, `ExitIsClean`, `RefinesExchange`, `EveryRunIsFinite` | `upload.c`: `UploadWatched`, `UploadConserved`, `CallbacksHaveData` and what it shares with the others |
| `ConnectToProofs!SocketIsOpen`, `FirstWins` | `ReturnsTheOpenSocket`, `FirstThatAccepts` for lists of any length |
| `ConnectToProofs!EveryCallIsFinite` | at most two steps for each address and four more |
| `SledProofs!TypeCorrect`, `NothingLost` | `NoLostUpdate` for any callers |
| `SledProofs!BuffersSafe`, `LeakedIsBounded` | `BuffersOwned`, and at most two leaked buffers for each caller, whether a caller has an `actual` for each call, one for all, or none |
| `SledProofs!SwapsAreLockFree` | unless the key holds an empty value or the process goes down, every step counts a caller, spends a reset, or takes from one caller's bounded work and adds to nobody's |
| `SledHandlesProofs!MisuseNeedsOverfreeing`, `NothingLeaks` | `MisuseIsOverfreeing`, `NoLeak`, for a caller that leaves its paths to the wrapper |
| `SledHandlesProofs!CarefulCallersAreSafe` | `NoMisuse`, and an empty heap at the end, for a caller that frees neither the path nor the configuration it has handed over |
| `OpenDalProofs!TypeCorrect`, `HandlesSafe`, `NothingLeaks`, `ResultsSafe` | `TypeOK`, `HandlesIntact`, `NothingLost`, `ResultsDecisive` |
| `OpenDalProofs!RefinesApi` | the binding implements its header, `OpenDalApi` |
| `OpenDalProofs!ProgramsAreCallers` | the example programs implement `OpenDal`: they are some of its callers |
| `OpenDalProofs!PointersValid`, `ProgramsRelease`, `AbortsExplained`, `RecordsInOrder` | `UsesWhatIsThere`, `ReleasesAll`, `AbortsHaveACause`, `CutShortOnlyByError` for files of any length |
| `OpenDalProofs!ProgramsAreFinite` | each statement of a program lowers a natural number |

**Assumptions.** `NoWaker` is not a waker; a request has at least one unit and the send
buffer room for one; the body may be empty; the timeout is at least a tick; null is not
an address or a buffer; `Missing` is not a value; a caller that reuses its `actual` passes one. `LeakedIsBounded` assumes finitely many callers; the other
theorems about sled nothing beyond this. `MisuseNeedsOverfreeing` and `NothingLeaks` assume
`~FreesPath`, for with it `SledHandles_path` finds a misuse. `CarefulCallersAreSafe` is the
other half of the two violations of `NoMisuse`: it assumes neither of the two frees they
make, and says that there is no third way to a misuse.

**The clients' invariant.** `NoLostWakeup` is not inductive: it speaks only of a program
asleep, while what keeps it true is decided earlier, in the callbacks. `CoreInv` adds
(in `HyperConn`, so that both proofs use the same lemmas)

* `HandInv`: a finished task is in the program's hands exactly while it is handled, and
  no longer in the executor;
* `OneForeground`: the program follows exactly one task of its own from setup to exit;
* `TaskInv`: a waiting task has reason to: the send task waits only while the head has
  not been read and there is a connection task, the body task only while nothing is
  buffered, the body is not complete and there is a connection task;
* `ConnInv`: a direction that answered "pending" has a waker in its slot, a connection
  task at rest has one for everything it wants, and `select` watches every slot.

From these, a program in `select` follows a waiting send or body task, so there is a
connection task, which waits too and wants to read (and to write, if there is
something to write), so both are in the sets. `HyperConnProofs` proves that every
action of the core keeps `CoreInv`, one lemma per group of actions, and leaves to each
client only its own handlers. `ClientC` adds `CauseInv` (the connection task is gone early
only if the peer is or a call on the socket has failed) and `HeldInv`, from which
`ErrorsHaveACause` and `CleanExit` follow; `GoClient` adds the relation of the gathered
length and the number of buffers to what hyper delivered, and the bounds of the clock.

**Every run is finite.** With the wait for the peer left out, `Terminates` has two halves: the
program does not sleep for ever, and it does not run for ever, around a `select()` that
returns at once or between tasks that wake each other. The second is safety, and proved.
`HyperConnProofs` ranks what may still happen. `Big` is what the exchange has left: the
units on each side of the socket (`UnitsLeft`), the program's place in its chain of tasks
(`Stage`), and the connection task (`ConnLeft`). It falls whenever data moves, a task
finishes or the peer closes, and never rises. `Small`, which is below 30, is what the present round of the loop
has left: wakers that `select` would find to wake, tasks that are ready, the place in the
round. It falls with every step that leaves `Big` alone. `StepsLeft` puts `Big` before `Small` and
adds what of the request is not made yet (`Unsent`; for the upload `FileLeft`). That `Small`
falls needs one part of `ConnInv` in both directions: `select` watches a direction exactly when
its slot holds a waker. If it watched one more it would return for a descriptor nobody takes note
of, at once and again and again. For `Get`, a tick of the clock changes only `waited`, which the
timeout bounds. `SleepIsBounded` follows from `SleepIsPaid`, as there are only so many units.

**Refinement.** In `RefinesExchange` each action either leaves `phase` and the body
alone or is one abstract step. `TaskInv` gives the one step that is not immediate: the
body task ends with `EMPTY` only when all chunks are delivered, which is the guard of
`Complete`.

**The upload.** Two of the core's parts need the upload's own: the program follows two tasks
for the moment between the push of a data task and the free of the one before, so that
`HeadInv` (a body task comes after the head) is carried along with `CoreInv`; and
`UploadWatched` needs `AsleepInv`: a connection task rests with the file unfinished only
while a piece of it is left to write, because only that registers it for the write that
will ask for the next one. `UnsentInv` and `RequestInv` say that nothing leaves the file
before the request is made, from which `UploadConserved` starts.

**How long `Get` sleeps.** `SleepPaidByProgress` bounds the time slept by the units
written and read. It is an amortised argument. A `select` that returns owes a unit, which
the next poll pays (`ReadOwed`, `WriteOwed`); but a write that goes through although its
waker has not been woken leaves that waker behind, and it will end one later wait which
brings nothing. `Stale` counts such a waker against the write that left it, so that
`Credit`, the units so far less the stale waker, goes up by one with every wait that is
cut short, and `Budget` adds the one that is owed. `SleepInv` is: the time slept is at
most the budget's waits, and what has elapsed of the present one.

**connect_to.** `PlaceInv` says at each place of the loop which descriptor is open and
where `rp` stands; `PassedOver` that no address before `rp` accepts. `StepsLeft` is two for each address from `rp` on and the
place in the loop.

**sled's handles.** `HeapInv`: what is allocated is what its owner points to, kind by kind;
pointers the caller keeps to what it has handed over count for nothing, wherever they
point by now. It holds as long as nothing was overfreed, and a call given only owned
pointers keeps it. `Careful` says of a caller without the two frees that it never gets there:
it has forgotten each pointer it handed over.

**sled.** `NoLostUpdate` is inductive with the types: a swap changes the tree only from
the value its caller named. `BuffersOwned` needs `PointerInv`: a caller that reads goes by
no value and so owns no buffer, one that is done holds none, and one that asked for no
`actual` and failed was told a length of zero. A stale `actual` is no owner, because the
length that goes with it is zero and `sled_free_buf` frees nothing then.
`LeakedIsBounded` counts: every leaked buffer is one that a caller's `buf` or `outBuf` owns.
`SwapsAreLockFree` gives each caller a `WorkLeft` of at most 5, most for one that goes by a value
which is no longer in the tree. Only a successful swap or a reset can put another caller in
that position, and these take from `Pending` or are bounded by `MaxResets`. While the key
holds an empty value no swap succeeds and the work is repeated; those steps are excepted.

**OpenDAL.** `StepsOfTheHeap` reduces the 29 calls to five kinds of step on the heap (a
handle of two boxes, a string, a release, an option set, nothing). `HeapInv` adds to the
two properties that a free struct or a string points to no value. `RefinesApi` rests on
it: because no two handles share a value, a step that fills, changes or frees one
(`HandsBoxes`, `HandsString`, `SetsOption`, `FreesHandle`) leaves what the others say
alone, and `StepIsApi` takes every call to the header's by one of these and by what
`ResultIs` says of the struct it returns. `TypeCorrect` uses the refinement: that `apiResult` is
a struct of the header is seen from the header's calls, and only `left` and `crashed` are the
binding's own.

**The example programs.** `ProgramInv` says what each statement may count on:
`MemoryHandles` which handles a program of the memory service holds there, `CsvPlace` and
`CsvRows` where the reader stands relative to what has been printed. From it each
statement's call is one that `OpenDal` allows any caller (`ProgramsAreCallers`), so that
`HeapInv` holds of the programs without another proof, and with it `ReleasesAll`: a handle not
freed would still be owned. `StatementsLeft` counts each row not read yet twice,
once to read it and once to print it.

### What is model-checked only

Liveness under fairness, which with `ENABLED` is out of the prover's reach: `Terminates`,
`RetriesEnd`, `Ends`, and the liveness part of `ImplementsExchange`. Of each the half
that is safety is proved: no run goes on for ever (`EveryRunIsFinite`, `SwapsAreLockFree`,
`ProgramsAreFinite`). What TLC checks beyond it is that none stops early: as long as the
program has not ended, it or a peer that answers has a step to take. Every other property of a passing run
is a theorem.

## 5. What is not modelled

* **hyper, sled, OpenDAL, the csv crate**: external; see section 2.
* **OpenDAL**: getters of plain numbers and booleans (metadata, capabilities), panics on null
  arguments and non-UTF-8 strings, and what the service stores beyond whether it is there.
  Of the options one key and its value are modelled.
* **Go declarations for the libraries**: they have no bodies. The two OpenDAL demos in Go
  call methods by names the binding lacks; they repeat `basic.c` and `error_handle.c`.
* **Scanning by prefix while others write**: an iterator's view is sled's, not the
  wrapper's. What the wrapper does, the ownership of iterators and pairs, is in
  `SledHandles`.
* **hyper's header**: `hyper.h` is declarations. What the programs use of it is in
  `HyperConn`, mapped to the lines of the programs; the buffer and header functions that
  no program calls are left out.
* **Build files**: no behaviour of the programs.
* **Text**: URLs, headers, printing and messages.

### Other observations

Seen while translating; each can be read off the model or the code, but none is a run.

* `hyper.go` 192 calls the ten seconds a request timeout; they are set again for every
  `select`. What holds is `SleepPaidByProgress`.
* `hyper.go` never closes the socket, also on success: `"sock"` is still in `held` when
  `Get` returns, and unlike in a `main` no exit of the process follows at once.
* `fail` of `hyper.go` with a nil error returns (356) instead of panicking. It is called
  that way only for a task type that hyper does not produce there.
* `select` failing with EINTR ends all three programs (`SelectFails`), and none of them
  ignores SIGPIPE (the second branch of `WriteFails`).
* `upload.c` exits on a complete response even if the upload is still going on.
* A key that holds an empty value fails every swap, whatever old value is given, because
  length zero means "not set" there (lib.rs 169): also the swap from the value that the
  failure reports, so that a loop which goes on from it never ends. `RetriesEnd` has this as
  its second case. Nor is the actual value then different from the one expected, as the
  comment has it (lib.rs 150-151).
* When the key is not set a failed swap writes only the length (lib.rs 190), though the
  comment promises a null pointer (153-154). A C caller that goes on using its variable
  keeps a pointer already freed. If it frees by pointer and length nothing happens, as
  `BuffersOwned` shows with a caller in `Reuses`: a vector of capacity zero owns nothing.
  One that tests the pointer for null takes the key to be set.
* operator.rs 203 says that the bytes given to a write are consumed; types.rs 61-66
  copies them and the caller still owns them, as `basic.c` relies on by passing a
  literal. entry.rs 46 and 60 let the caller release a `CString` by `free()`.
* `csvdemo/csv.go` does not look at the reader it gets; on a file that cannot be opened the
  read fails the wrapper's assertion (`ReadOfNull`), where `test/main.c` stops.
  `AbortsHaveACause` allows `csv.go` this one abort.
* Both csv programs take a malformed row for the end of the file. `CutShortOnlyByError` is
  what is left of reading a file as a whole.

## 6. Plan

Done, in this order, so that the behaviour most likely to go wrong came first: the
shared core and `ClientC` with its proofs, `GoClient` with its proofs, `UploadC`,
`ConnectTo`, `Sled` with proofs, `SledHandles`, `OpenDal` with proofs; then the contents of
OpenDAL's handles, its header as an abstract specification and the refinement; the csv
wrapper and the example programs; the proofs of `UploadC`, `ConnectTo`, `SledHandles`,
of the Go client's sleep and of how sled's swaps report failure; then those of the example
programs and of OpenDAL's types, that every run of a client, of `connect_to` and of an example program is finite and
sled's swaps are lock-free, and what the callers of sled that are not the Go binding may do.

Left for later: `ConnectTo` as what `Setup` refines. A sequence of requests on one `Get` is not
in the plan: the program makes one and exits.

## 7. Running it

    tlc -workers 2 -config ClientC.cfg MCClientC.tla      # likewise the other runs
    tlapm OpenDalProofs.tla                               # likewise the other proofs

The runs and their modules are listed in `PROJECT.json`. The longest, `OpenDal`, takes
about a minute.
