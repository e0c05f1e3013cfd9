# A specification of libuvcxx

libuvcxx is a header-only C++ wrapper of libuv (`src/include/uvcxx`). Each libuv handle or
request becomes a class that shares the C structure, hangs a context object (`data_t`) on its
`data` field, and turns C callbacks into chains of C++ handlers. What is hard in it is neither
arithmetic nor I/O: it is *who keeps what alive, who closes what, exactly once, and in which
order*, with handlers that may do anything to the handle they are called for, and one truly
concurrent part, the blocking queue that carries events from the loop's thread to others.

## Inventory

| part | state | operations | interacts with |
|---|---|---|---|
| queue (`utils/queue.h`) | values, `m_limit`, `m_closed`, two condition variables | push, pop, close, limit, iteration | pushed to by a callback's handler on the loop's thread, popped by any thread |
| callback, promise (`utils/callback.h`, `utils/promise.h`) | chains `on_call`, `on_watch`, `on_except`, `on_finally`; `m_finalized` | emit, raise, finalize, registration, `get_queue` | owned by data_t and by the program; handlers close handles, push to queues |
| clip (`utils/clip.h`, `callback2.h`, `promise2.h`) | the `paper` to run when the last owner goes | attach, detach, copy, destroy | shared by handle_t, callback2, promise2; the paper closes the handle |
| handle (`handle.h`, `inner/base.h`) | `m_raw`, `m_clip`, data_t with `m_initialized`, `m_closed`, `close_cb` | construct, close, close_for, watch, attach, detach | libuv (uv_close and its callback), clip, callback |
| kinds of handle (`timer.h` ... `tty.h`) | emitters in their data_t | init, start, stop, detach, raw callbacks | handle, stream |
| stream (`stream.h`) | `work_mode` | listen, read, write, shutdown | tcp, pipe, tty; requests |
| request (`req.h` and one header per request) | `raw->data`, an emitter | request, raw_callback, cancel | promise, libuv |
| fs (`fs.h`) | the same and a buffer | one function per operation | request |
| loop (`loop.h`) | `m_closed` of the loop | run, close, destroy | every handle |
| thread (`thread.h`) | `m_joined`, `m_detached` | create, join, detach | |
| process options (`process.h`) | C fields that point into owned strings | setters, move | process |
| wrappers (`mutex.h`, `sem.h`, `os.h`, `utilities.h`, ...) | none of their own | one libuv call each | |

What makes each part correct, and what is hard to test about it:

* **queue**: nothing is lost, duplicated, reordered or stranded behind a sleeping consumer, and
  iteration ends if and only if the queue is closed and drained, under every interleaving.
* **handle, clip, kinds**: libuv never holds freed memory; `uv_close` is called exactly once for a
  handle libuv knows; an attached handle is closed when nobody refers to it, a detached one only
  on demand; nothing leaks - in every order of drops, closes, events and throws, inside and
  outside handlers.
* **callback, promise**: a chain runs in the order of registration, `finally` once; an exception
  reaches the watcher, then the except handlers (with one retry), then the default.
* **request**: a request is used by one operation at a time, may be reused in its own handler, and
  its context is released exactly once.
* **loop, thread, process options**: closed or joined once, no dangling pointer after a move.

`PROJECT.json` lists the hazards one by one, with their lines and the properties aimed at them.

## Modules

| module | what it is |
|---|---|
| `AbstractQueue` | what a queue promises: one FIFO channel, closed once, with fairness |
| `Queue` | `queue_core`: mutex, condition variables, threads |
| `QueueProofs` | proofs about `Queue`, the refinement of `AbstractQueue` included |
| `QueuedCallback` | the queue of a callback (`get_queue`): handle, chains and `Queue` composed |
| `QueuedCallbackProofs` | the composition is a `Queue`, hence a channel, and ends only for cause |
| `AbstractHandle` | what a handle promises: the states of `lifecycle.md`, in order and once each |
| `Handle`, `HandleProofs` | ownership, closing and release of handles of all kinds; it implements `AbstractHandle` |
| `Chain`, `ChainProofs` | `callback_core`: four chains of handlers, with handlers that do everything while they run |
| `Promise`, `PromiseProofs` | promises with futures, as requests and oneshot signals use them |
| `AbstractRequest` | what a request promises: one answer for each accepted call |
| `Operations` | every operation of `fs.h` and of the other requests, as a record of traits |
| `Request`, `RequestProofs` | requests, contexts and results; `raw_callback` step by step; it implements `AbstractRequest` |
| `Thread` | `thread_t` objects, their entries, joins |
| `Loop` | shared ownership of a loop, closing it, running it |
| `Worker`, `WorkerProofs` | `Thread` and `Loop` composed: entries that capture a loop and run it |
| `ProcessOption`, `ProcessOptionProofs` | where the C pointers of a `process_option_t` lead |
| `MC...` | one instance of each, for TLC |

In every module a definition whose comment begins with *Mistake* is what a plausible slip in the
code would make of the definition after it. The models do not use them; `PROJECT.json` lists which
property notices which.

### Queue and QueuedCallback

An action is one critical section of `m_mutex`. `push` is `Push` (with `PushRefused` for its
early return), `pop` is `PopTakes`, `PopEnds` or `PopWaits`, the branches of its loop; `close` and
`limit` are one action each. A thread that waits in a condition variable is `waiting`; a
notification or a spurious wakeup makes it `woken`, and a woken thread competes for the mutex with
all others, so that a consumer that never waited can take the value another was woken for.
`writable()` is translated with its unsigned comparison `m_queue.size() < 0`, and `limit()` with
what it stores, which is nothing: `ProducersNeverBlock` is therefore true, and a `limit` that did
store would break it (that is its mutant). The waiting branch of push is unreachable for the same
reason, and is modelled as it is written.

`QueuedCallback` extends `Queue` by what `get_queue` adds: a closure in the call chain that pushes
(`fed`), one in the finally chain that closes (`ender`), and the handle whose close runs that chain.
The close of a handle is three steps, because `finalize` exchanges `m_finalized` before it runs the
chain: a `get_queue` in between registers a closure nobody will run. The program may clear either
chain, while the handle is open or while its close is under way, throw from a finally handler, close
the queue by hand and push to it from other threads.

### Handle

A handle is a record, because its life is a relation between a dozen fields that live in different
objects: the owners of the raw memory (`handle_t` objects, one captured by a handler, the `data_t`
itself), the owners of the clip (the same and `callback2`/`promise2`), the paper, the state of the
`data_t`, and what libuv thinks of the handle (`none`, `idle`, `active`, `closing`, `closed`).
The library's own functions - `close_for` of `data_t` and of `handle_t`, the paper, `watch`,
`raw_non_initialized_close`, the deletion - are functions on that record, named as in the code.
They read memory explicitly: where the code would read a freed `data_t` or a freed raw handle, the
place is added to `fault`.

The actions are what the program may do (construct, copy, drop, assign, capture, init, start, stop,
detach, close) and what the loop does (an event, whose handlers may do any of these before they
return or throw `close_handle`; the close callback, in two steps, as the handlers of the close
promise run between them). Kinds differ in the seven traits of `Traits`, each read off the kind's
header: a kind is a record, not a module. `Misuse` widens what the program may do beyond what
`docs/lifecycle.md` describes, or in ways the code does not survive.

`AbstractHandle` is that document: allocated, open, closing, closed, released, or discarded before
`init`. `Life` reads the state off a record, from three of its fields: what became of the `data_t`, what
libuv knows, and which handlers of the close promise ran. A record these do not agree on is `lost`, which
no step of `AbstractHandle` reaches; so `ImplementsLifecycle` says that the close promise is resolved
before it is finalized and both once, that libuv is done before anything is released, and that
only a handle libuv never knew is discarded. It also says that close callbacks do not overlap.

### Chain

`callback_core` nests closures: each new handler is wrapped around the old chain. The model keeps a
chain as a sequence and a *frame* for each chain that is running, with the handlers it still has to
run and whether its closures still exist. Handlers may register, clear, emit, raise and finalize
while they run, which pushes frames; `raise` becomes the succession of a watch frame and except
frames, with the retry of `raise` counted in `tries`. Each exception is remembered with its fate
(watched, handled, declined, printed, superseded by one that an except handler threw, swallowed by
`finalize`), with where it came from (`by`: `raise`, or the chain whose handler
threw) and when (`at`), which is what `WatchersSeeEvents` needs: that whatever is
raised, from a handler of any chain or by the program, and whatever a call handler throws reaches the
watchers that were there by then. What an except handler throws does not, in the code as in the model
(disagreement 9). A closure read after it was freed sets `freedRead` and stops the model.

`InitCaptures` is the build switch `UVCXX_STD_INIT_CAPTURES`, and `ClearRunning` admits handlers
that clear the chain they are not the last of; the run uses the builds and programs the code
survives (`TRUE`, `FALSE`), see *Disagreements*.

### Promise

The chains of a promise are sequences of the program's handlers and of the closures of futures, and
each answer computes the set of possible outcomes: a handler of the program may return, accept or
throw; a future that is satisfied already throws `std::future_error`. A rejection asks the watchers
first: one that accepts ends it, and no except handler or future hears of it (`Rejected`, whose except
part, with its retry, is `Excepted`). Of the watchers it matters only whether there are any. A finally
handler keeps a fate: it waits, ran, threw - which drops those behind it - was cleared by
`finally(nullptr)`, or went with the promise without having had its turn. The two uses the library makes
of a promise are its `usage`: a request answers, finalizes and drops it; a oneshot signal answers,
finalizes and clears the same promise each time it fires, without resetting `m_finalized`.

### Request, Operations, AbstractRequest

The variables are the fields that matter: `data` is `req->data`, `owns` is what the request's own
pointers refer to (`req->path`, `req->ptr`), `dirents` is `dir->dirents`, `context` the `data_t` of
each call with the request it shares. A call makes its context, asks libuv, and only then sets
`data`; `raw_callback` is `Respond` (data taken out, promise answered), `Finish` (the cleanup, then
the finally handlers) and `Release` (the context is deleted), with the program's handlers acting in
between. A call that libuv refuses leaves traces all the same: the request has been reset, and a
`readdir` has pointed the directory to the buffer of the context that is deleted. The calls of the overloads - with a request, without one, synchronous, refused - are one
action each. `Operations` gives each of the 36 functions of `fs.h` and of the other requests its
traits: what its results look like, who releases them, whether it can fail, whether libuv can cancel it.
`AbstractRequest` is implemented with `stage[c] <- context[c].stage`, liveness included.

### Thread, Loop, Worker

`Thread` keeps apart the `thread_t` variables (`object`), the `inner::thread_t` they own (`thread`)
and what each actor waits for (`doing`). `join` is `Join`, as far as `uv_thread_join`, and `Joined`,
when that returns; the exchange of `m_joined` lets one caller through. The destructor is the same,
followed by the deletion. An entry may join its own thread, which libuv refuses.

`Loop` counts the `loop_t` objects, and has the guard `m_closed` of `loop_with_data_t`; handles are
what libuv's `uv_loop_close` sees of them. One thread uses the loop at a time, a rule of libuv.

`Worker` lets an entry capture the loop, by copy (a `loop_t` that goes when the `inner::thread_t` is
deleted) or by reference, and run it. The program keeps the rules of C++: the scope of a captured `loop_t` is left only after the threads that refer to it have been
destroyed, no variable is moved or destroyed while somebody is inside one of its methods, and
entries join no thread but their own (two that wait for each other would wait for ever, in any
library).

### ProcessOption

Each C pointer of `uv_process_options_t` is abstracted to the *place* it leads to: memory the program
lent, a block the option owns, nothing, or the block of an option that has moved away or of a vector
that has grown. A vector of strings and the table of pointers made of it are one place, since
they change together. The actions are the constructors, one setter per
way of giving a field, `env` and `stdio` one item at a time, the move, and the destructor. Nobody
moves an option onto itself. A history variable of each field says what became of it: never set,
lent, owned, or moved from; `meant` is what was handed over for the option to own, apart from
loans, and moves with it. After a move every field is owned, as the code makes all pointers lead to its own
members: a loan is gone, and what was never set is there and empty (disagreement 14).
`ReadsWhatWasGiven` therefore covers every field that is not unset, lent or moved from, those that a move or an
item made owned included.

## Runs

| run | instance | shows |
|---|---|---|
| `QueuedCallback` | loop and one more producer, 3 consumers, 4 pushes, limits 0 and 1 | the queue's safety and its refinement of the channel with fairness, inside the composition; consumers released by the close, for cause |
| `MCHandleKinds` | 1 handle of any kind but process, 2 `handle_t`, 2 clips | memory safety, single close, recycling, completion of closes, no leak |
| `MCHandlePair` | 2 handles, timer, async or tcp, all misuses | whatever the misuse, handles go through their lifecycle in order, memory outlives libuv's interest in it, and nothing is closed without cause |
| `ChainEvents` | 2 exception classes, 4 calls, 4 throws, 3 chains deep | chains running in each other: finally once, no exception lost, bounded retries; what is raised or thrown by call handlers goes to the watchers first |
| `Promises` | 2 futures, 2 handlers or futures a chain, watchers, 2 finally handlers, 2 firings | no future is forgotten: each is answered, with the right answer, or broken, unless an accepting watcher or another handler keeps the answer; finally handlers run when they must |
| `RequestOperations` | 2 requests, 2 calls, every operation | context and request lifetime, release of results, refinement with fairness |
| `Workers` | 2 program threads, 2 variables, 2 entries, 1 loop with 1 handle, 2 `loop_t` | joins, destructors, captures, closes of the loop |
| `ProcessOptions` | 2 options, 3 blocks, 2 items a list, 5 calls | pointers after sets and moves, and what they lead to |
| `MCProcessExit`, `MCCloseAllocated`, `MCClipOutlives`, `RequestReuse` | the smallest that shows it | one disagreement each between code and documentation (below) |

*Bounds.* Three consumers are the fewest for which one sleeps, one is woken and one overtakes it;
four pushes let a value be pushed when every other combination of those is present. Two `handle_t`
and two `callback2` objects distinguish "the last one" from "one of several"; more of them behave
as two do, since the code only asks whether the count is zero. Handles do not interact except
through handlers that act on another handle, for which two handles suffice. Depth three is a chain
running inside a handler of a chain running inside a handler, so that the middle one is neither
first nor last; four throws exceed `MAX_RETRY` with one to spare. Two calls on two requests are two
calls on one request or one on each; what a third call adds is the reuse in handlers of handlers,
which `RequestReuse` has. Two futures, or a future and a handler, are one registered
before, and one behind; of two finally handlers one may throw before the other. Two firings let a
future be taken between them. Timer, async and tcp differ in everything that bears on the closing
of a pair: detached by `start()`, active after `init`, closed by a reset. Of three blocks one is free for the
table that a move makes when each option has a table already. Of two entries and
two variables, one entry can be moved over, joined twice at once, join itself and be destroyed while
the other runs the loop. Five calls construct, set twice, move and set again.

*Symmetry* is used where no liveness property is checked (`MCHandlePair`'s `ClosedForCause` is an
action property, and `ImplementsLifecycle` is a refinement without fairness that treats handles alike) and where the values permuted occur nowhere by name.

*Deadlock.* Checking is off everywhere because all systems may stop: consumers are done after the
queue is closed, a program may have dropped all its handles, calls are bounded.

*Fairness.* A consumer keeps iterating (`WF` of `Iterates`): a thread that is not blocked runs, and
all critical sections are finite. The program keeps running its loop: the close callback of a handle
being closed is called in the end (`SF` in `Handle`, because the loop may be busy with other events
whenever one looks), accepted requests are answered, and handlers return. A thread's entry that comes
out of `run()` again and again comes to its end (`SF` of `Ends`), and `uv_thread_join` returns once
its thread has ended. Nothing is assumed of producers, of events, of signals, or of a program ever
closing or dropping anything.

## Proofs

`QueueProofs` proves for any finite set of consumers, any producers, values, limits and bound:
types, `NobodyStranded` (no wakeup is lost, and nobody sleeps on a closed queue),
`ProducersNeverBlock`, the refinement of the safety part of `AbstractQueue`, and three more that
no run lists: `Conservation`, `EndIsFinal` and `ClosedIsFinal`.
The inductive invariant is the conjunction of these properties with two facts they need: `limit`
stays -1, whence no producer waits and `PushRefused` is the only way a producer leaves, and the
sleeping consumers are covered by woken ones, which is `NoLostWakeup`, half of `NobodyStranded`,
itself - it is inductive
because `push` moves one consumer from asleep to woken for each value, a pop removes a value for at
most one woken consumer, and a consumer goes to sleep only on an empty queue. The cardinality
argument (`WakeOneEffect`, `WokenFinite`, `HeadMoves`) is separated from the actions. The
assumptions are that the consumers are finitely many, that a thread is not both producer and
consumer, and the types of the constants.

`QueuedCallbackProofs` shows that every step of the composition is a step of the queue or leaves it
alone (`ComposedIsQueue`), so that what was proved of the queue holds in the composition: no consumer
is stranded, the loop's thread never blocks, and the threads that iterate see the channel of
`AbstractQueue` (`ComposedIsChannel`). It proves `EndedForCause`, which needs its companion
`ClosedWithHandle`: once the close of the handle is over, its queue is closed too, unless the
closure was cleared or passed over. From both and the queue's invariants follows
what a consumer can rely on (`ConsumersLeaveForCause`): its iteration ends only after the handle, or
somebody by hand, closed the queue, and after every event was handed to somebody.

`HandleProofs` proves for any set of handles, any bounds on references and clips, and every kind
except `process`: types, `MemoryOutlivesUv`, `AttachedIsRecycled`, `ClosedForCause` and the lifecycle of
`AbstractHandle` whatever the misuse; `ClosedReachesUv` unless a `close_reset` is refused; and `NoFault`
within the documented lifecycle, a refused `close_reset` included. Disagreements 2, 3 and 6 are
shown to be the only ways to a fault: whatever the program does, only `close()` and the paper may read
freed memory (`OtherReadsAreSafe`), the first only if a handle is closed before `init`
(`CloseKeepsItsPromise` without `close_allocated`), the second only if a clip outlives its handle or
its last `handle_t` is assigned over (`ClipsAreSafe` without `clip_outlives` and `assign_closed`).
None of these is inductive. The invariant
relates, for each handle, who owns it to whether it still has its paper (`Ownership`), the flags of
the `data_t` to what libuv knows (`Known`), and both to how much of the close promise has run and
whether the loop is inside the close callback (`Told`); `Sound` ties each fault to its misuse, and adds
the fact that makes a clip harmless, that a closed handle with a paper has no `callback2` left. Since an action touches one
handle, the proof first shows what each library function does to a record (`CloseForEffect`,
`ClipGoesEffect`, ...), then that every action is a `LocalStep`, and only then that the other
handles keep the invariant (`LocalStepKeepsIInv`). The proof needs the types of the constants, and
`"process" \notin Kinds`. The refinement goes the same way: what the library functions do to a record
keeps its `Life` (`SameLife`), begins a close (`Closes`) or discards it (`Discards`), compositions
of them do one of the three (`Ages`), and the steps that construct, initialize, complete and release are
the other actions of `AbstractHandle`. `Known` and `Told` are what `Life` needs not to be `lost`, and `Told`
also keeps close callbacks apart: a record is `closed` only while the loop is inside its callback.

`WorkerProofs` proves for any agents, variables, threads and handles: `JoinedOnce`,
`EntryKeepsItsThread` and `OneOwner` of the threads; `LoopClosedOnce`, `CloseIsHonest` and
`CapturesAreGood` of the loop. `TInv` says of each thread what
its record, the variables and the actors that wait agree on: somebody who waits has claimed the
thread, nobody else waits, and a variable by which he joins still has it. `LInv`, on top of it, says
that `refs` covers the copies that entries hold, and is greater by one as long as an entry that
captured by reference exists: hence no entry loses the loop it captured. A step on threads frees at
most one of them (`OneThreadAtMost`), which is why the count stays right. Assumed are only that
agents and threads are different things, and that the marks of variables are not threads.

`ProcessOptionProofs` proves `PointersHold` and `ReadsWhatWasGiven` for any options, blocks and items
and any number of calls. `PInv` says of each field of each option that its pointer leads to its own
place, to memory that was lent or nowhere, that no two options keep a field at the same place, and
that what is kept there is what was handed over to own (`Content`) - also while the pointer leads
to a loan or, moved from, to where it once was: without that the invariant would not survive the first item added
after a loan or a move.

`RequestProofs` proves, for any requests, calls and operations, `RightContext`, `RequestOutlivesUv`
and that `AbstractRequest` is implemented, whatever handlers call. `CInv` is inductive for that: what
is in `data` is a call that waits, for this request; every call that waits is in the `data` of its
request; and `raw_callback` deals with one context at a time. `CleanupBeforeFinally` and
`HandlersCanRead` are proved under `~ReuseInHandler`, since disagreement 4 breaks them otherwise: `OInv`
adds that a request owns the results of the call that waits or is being answered; that a call which libuv
refuses does not disturb this, though it resets the request and leaves `dir->dirents` behind, is
`FailedKeepsOInv`. The same assumption
gives `CleansNothingInUse`, of which `RequestReuse` is thus the only violation: `MInv` adds the
converse (`OwnsItsOwn`), that what a request owns belongs to such a call or to a synchronous one.

`PromiseProofs` proves, for any futures and any bounds, `NoFutureForgotten`, `FuturesGetTheirAnswer` and
`FinallyRunsBeforeRestart`, and two more that no run lists: a future that got something keeps it
(`FuturesSettleOnce`), and nobody waits once both owners of the promise are gone (`NobodyWaitsAtTheEnd`).
Its first part is about the chains alone: a run, a run that ends early because a handler threw, and a
rejection that runs the except chain again, satisfy only futures that waited, with this answer or with
the exception that took its place; all of them if the chain is of futures alone, and the first in any
case unless a watcher accepted (`RunSatisfies`, `FirstIsSatisfied`, `ExceptedEffect`, `RejectedEffect`,
`ResolvedEffect`). What is cleared breaks the futures whose last closure it was (`AbandonedEffect`). `PInv` joins
to the properties which futures the chains hold, each at most once (`Placed`), that before an answer
all of them wait for this one (`Awaiting`), that `m_finalized` is set if and only if the first round is over
(`Finals`), and that until then finally handlers wait or were cleared (`Unfinished`). From the last two it
follows that the one run of the finally chain is that of the first round, and finds there every handler registered in
time; `FinallyRunEffect` says that it stops at the first that throws and nowhere else, `FinallyStays` and
`UnrunEffect` that no later step changes what ran.

`ChainProofs` proves, for any classes of exceptions and any bounds on depth, handlers and throws, in
any build, `FinallyOnce`, `NoExceptionLost`, `RetriesAreBounded`, `WatchersSeeEvents` and
`FateIsFinal`; and `NoFreedClosure` for the builds and programs of the run (`Survives`), disagreement 8
being what happens to the others. `GInv` says that the frames of the raising chains carry the flying
exceptions, one each and thrown over no more often than the frame has tried (`Carries`); that finally
handlers are numbered as they were registered, and the one frame that runs them is ahead of
all that ran (`FinallyInv`); that a frame with handlers left still has its closures (`FrameOK`); and
that exceptions are dated no later than the last operation (`Dated`), so that a watcher registered now is
asked of none that came before. Every step only adds exceptions that are shown to the watchers at
once, if there are any, or that nobody promises to show, and changes no date (`Later`, `DatedStays`). What a step does to the stack is said by
lemmas about pushing, replacing and popping a frame, so that each action is one of a few cases. It is
assumed that `bad_function_call` is no class of exception the program throws, and that no class is
named like a kind of handler.

Only model-checked: liveness (`ReleasedWithHandle`, `ImplementsAbstract`, `CloseCompletes`,
`UnreferencedIsReleased`, `ChainsEnd`, `ReleasedOnceDropped`, `JoinsReturn`, `ImplementsRequest`),
which is outside the prover's reach; and everything about `process`, which breaks the
invariants of `Handle`.

## Disagreements between code and documentation

With a run:

1. **A process that exits is not closed** (`MCProcessExit`). `process_t` never calls
   `_initialized_`, so `close_for` in `raw_exit_callback` takes the branch for handles libuv does not
   know. `process.h:228` promises a close. For the same reason a close in an exit handler deletes the
   data_t that `raw_exit_callback` goes on to read (`process.h:284`, the fault `exit` of `Handle`).
2. **`close()` before `init` reads the deleted data_t** (`MCCloseAllocated`, `handle.h:255`).
3. **A callback2 that outlives its handle** reads the freed raw handle, if the close came from
   `close_handle` (`MCClipOutlives`): that path does not detach the clip, unlike `close()`.
4. **An fs request reused in its own handlers** is cleaned up while libuv works on the new call
   (`RequestReuse`, `fs.h:130`), and so is a `readdir` started in the handlers of the one before.

Seen while modelling; the models have the code's behaviour, and no run of its own asks for it:

5. `start()` detaches a timer, a poll and a udp socket, against `README.md:68` and the changelog of
   v0.1.4 (the trait `detaches`).
6. Assigning over the last `handle_t` of a closed handle does what 3 does: the base class that owns
   the raw handle is assigned before the clip (`Assign`, the misuse `assign_closed`).
7. A refused `uv_tcp_close_reset` (`tcp.h:132`) leaves the handle open for ever, since `m_closed` is
   set (`CloseResetRefused`, the misuse `reset_shutting`).
8. Without init captures, registering a handler frees the closures of a chain that is running, which
   are read again when the handler returns (`Chain` with `InitCaptures = FALSE`); so does clearing a
   chain from a handler that is not its last (`ClearRunning = TRUE`).
9. A `close_handle` thrown by an except handler is not watched, so the handle stays open
   (`callback.h:62`): `raise` asks the watchers once, and its retry concerns the except chain alone.
10. `promise.h:211-213` says `get_future` overwrites `then` and `except`; the code appends, and an
    except handler registered before keeps a rejected future waiting until the promise goes.
11. A second `start_oneshot` gives a promise whose finally handlers never run (`signal.h:72`).
12. After a close that failed with `EBUSY`, `close()` of a loop reports success and closes nothing,
    and neither does the destructor (`loop.h:225`).
13. Of two concurrent joins the later returns before the thread has ended; a self-join, which fails,
    makes the destructor delete the running entry (`thread.h:46-51`). `examples/thread.cpp:22` says
    repeated calls are acceptable.
14. Moving a `process_option_t` replaces every pointer that was lent, and an `env` or `cwd` never set,
    by empty ones (`process.h:29`): the child gets an empty environment. Adding an item of `env` or
    `stdio` after lending the whole drops the loan for what the option had owned before. `examples/process.cpp:37` relies on the copy
    being elided.
15. `limit()` of a queue stores nothing.
16. A finally handler that throws drops all that were registered behind it (`promise.h:73-80`,
    `callback.h:72-80`), among them the closure that closes a queue (`callback.h:169`): consumers are
    not released (`FinallyThrows` in `QueuedCallback`, the fate `threw` in `Promise`).
17. The queue of a `get_queue` that comes when finalize has begun is never closed by the handle
    (`callback.h:391`).
18. A watcher that accepts the exception of a promise keeps it from the futures (`promise.h:48-55`): the
    threads that wait for them are released when the promise goes, with `broken_promise`.
19. A `readdir` that libuv refuses leaves `dir->dirents` pointing into the context that is deleted
    (`fs.h:691`); `Request` has the pointer, and nothing in the library reads it before the next
    `readdir` replaces it, unless the call was made in the handlers of another one (4).

## Not modelled

* libuv itself, represented by what it does when the wrapper calls it, and its rule that a loop and
  its handles are used by one thread.
* Values: buffers, addresses, strings, error texts, and how they are converted (`buf.h`, `cxx/*`,
  `utilities.h`, `os.h`). They keep no state across calls.
* The wrappers of `mutex.h`, `rwlock.h`, `cond.h`, `sem.h`, `barrier.h`, `key.h` and `once.h`: one
  call of libuv a method, correct as far as libuv is.
* Socket options, modes, names, `accept`, `ref`, `unref` and getters: single calls of libuv.
* `work_mode` of a stream, which makes `listen` or `read_start` fail with `EPERM` and nothing else,
  and the alloc handler as an event of its own.
* `uvcxx::ref` (`cxx/ref.h`): its last copy closes the handle and drops it, the succession of two
  actions of `Handle`.
* A init that fails (`tty.h:23`, `async.h:33` called twice): what follows is undefined in libuv.
* Self-move of options, threads that wait for each other, and use of a loop by two threads: the
  program's own mistakes, which the library does not try to survive.

The next step would be `Request` and `Promise` composed, so that what a future is given is the result of
the call it was taken for; and proofs about `process` as it would be if it were marked initialized.
