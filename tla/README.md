# TLA+ models of rxp

rxp is a small Go library with two layers: *executors* (package `rxp`), which
run tasks on a bounded number of goroutines, and *promises* (package `async`),
which are tasks that wait for a value and hand it to a handler. On top of the
promises stand futures made of other futures, below the executors the CPU quota
of the process. This directory models all of it, checks the models with TLC and
proves the safety invariants, and that both executors implement their
interface, with TLAPS.

    tlc -workers 4 -config ShareSafety.cfg MCShare.tla     # any run of the table below
    tlapm ShareProofs.tla                                  # the proofs

`PROJECT.json` lists the runs, the lines of code every definition stands for,
the mutants every property is known to catch, the hazards and the findings.

## 1. The system

| Component | State it keeps | Operations | What makes it hard |
|---|---|---|---|
| Executors (`executors.go`) | none: an interface with two implementations chosen by `New` | TryExecute, Execute, Running, Close, and the counters | what callers may rely on is only in comments |
| Share (`share.go`) | `running`, `done`, `goroutines`, spin `locker`, `idles`, a `sync.Pool` of task submitters, one channel per submitter | TryExecute, Execute, `handle`, `release`, `clean`, the goroutine of `start`, Close | the limit, the idle stack, the drain and Close race with each other; some reads are under the locker and some are not; the search in `clean` relies on an order that nobody keeps |
| Alone (`alone.go`) | `running`, `goroutines`, spin `locker` | TryExecute, Execute, Running, Close | Close waits for goroutines with the locker held |
| Spin locker, counter (`pkg/rate`) | one word each | Lock, Unlock; Incr, Decr, Value, WaitDownTo | no queue, polling |
| Promise, future (`async/future.go`) | `available`, `ch`, `locker` | Complete, Succeed, Fail, Cancel, OnComplete, Handle | producers, canceler, handler registration and Handle meet in one object; a send happens with the locker held |
| Channel (`async/chan.go`, `async/round2_*.go`) | message buffer, handler slot, `hset`, `deadline`; pooled by size | acquire, release, send, cancel, receive | reuse: whatever is left in a channel reaches a stranger; its size decides whether a promise is a stream |
| Make (`async/make.go`) | the options of one call | apply the options, acquire a channel, submit the future, wait, give up | five options share one waiting time, in any order; gives back what it acquired on every failing path |
| Barrier (`async/barrier.go`) | mutex, callers by key | Do, Forget | forgetting a key whose first call is in flight |
| Combine, Map, Reduce (`async/*.go`) | counters and channels of their own, a promise each | OnComplete on their sources, completing their own promise | sources complete on goroutines of their own, at once, late, or before there is a handler |
| Await, immediate futures | a channel of one; nothing | Await; OnComplete | the source waits in its handler; the handler is called inside OnComplete |
| Options (`options.go`) | the options of one call | the options of New | defaults for everything out of range, except what an option of the user's own sets |
| GOMAXPROCS (`pkg/maxprocs`) | one process-wide number | Enable, undo | several executors in one process |
| cgroups (`pkg/maxprocs/cgroups`) | none: reads files | the quota of the process | two versions, mounted together, and files that are not in order |
| Context (`context.go`), async errors (`async/error.go`) | none | lookups, predicates | nothing |

How they interact. A caller hands a `Task` to an executor; the executor runs
`Task.Handle` on a goroutine, and Handle may call the executor again. `Make`
takes a channel from a pool and submits a future as a task, so a promise
occupies a goroutine from Make until its Handle has finished. Producers and the
registration of the handler talk to Handle over the two Go channels of the
pooled channel and over fields guarded by the promise's spin locker. Barrier,
Combine, Reduce and Map are built on promises and their handlers: they are
handlers of their sources and producers of their own promise. New sets
GOMAXPROCS from the quota before it makes the executor, and Close restores it.

What makes each part correct:

- *executor*: a call is accepted or refused, never both; an accepted task runs
  once, also when it is accepted during Close; at most `MaxGoroutines`
  goroutines; the counter Close waits on is exact; Close leaves no goroutine
  behind, no idle one either; callers of Execute are not starved or left in
  their loop by Close; goroutines that were idle for too long are found, and
  only those.
- *promise*: a message is delivered to the handler, or left to the
  unhandled-result handler, exactly once, in order and never to another
  promise; a once promise is completed once; the pooled channel is clean and of
  the size asked for; a canceled, expired or abandoned promise gives its
  goroutine back; calls return; Make waits no longer than it was told.
- *futures of futures*: what the sources bring comes out, once, and of one
  source in its order; the end comes last; who waits for an answer gets one.
- *process*: GOMAXPROCS is set by no quota but the process's own, and is put
  back.

## 2. Modules

| Module | Models | Kind |
|---|---|---|
| `Executors` | the interface of `executors.go` as seen by callers | abstract specification |
| `Share` | `share.go`, with `counter.go` and `spin.go` as it uses them | detailed specification |
| `Alone` | `alone.go`, likewise | detailed specification |
| `Idle` | `release` and `clean` of `share.go` in detail, with the clock | detailed specification of what `Share` leaves open |
| `Future` | `async/future.go`, `async/chan.go`, and of `async/make.go` what happens to the channel | detailed specification |
| `Make` | `async/make.go`, the sizes of `async/chan.go`, `async/round2_64.go` | detailed specification |
| `Barrier` | `async/barrier.go`, with promises as what they occupy and what they are completed with | detailed specification |
| `Derive` | `async/combine.go`, `map.go`, `reduce.go`, `await.go`, `immediately.go` | detailed specification, over what `Future` shows of sources and promises |
| `CGroups` | `pkg/maxprocs/cgroups` | functions of a host's files |
| `Procs` | `options.go`, `New` and `Close` of the executors as far as GOMAXPROCS goes, `pkg/maxprocs` | detailed specification, extends `CGroups` |
| `MCShare`, `MCAlone`, `MCIdle`, `MCFuture`, `MCMake`, `MCBarrier`, `MCDerive`, `MCProcs` | values for the constants, symmetry | model checking |
| `ShareProofs`, `AloneProofs` | invariants of these modules, and that they implement `Executors` | TLAPS proofs |
| `IdleProofs`, `FutureProofs`, `MakeProofs`, `BarrierProofs`, `DeriveProofs`, `ProcsProofs` | invariants of these modules; `ProcsProofs` is also about `CGroups` | TLAPS proofs |

Operators whose names end in what went wrong (`HasRoomOffByOne`,
`ReleaseUndrained`, `CloseEarly`, ...) are not part of a specification.
Each is a faulty variant of the definition that follows it and shows that some
property notices the fault.

### Grain of atomicity

Goroutines run at once, so an action holds at most one access to state that
others touch without the lock: an atomic, the counter, the closed `done`, a
`sync.Pool`, a Go channel. A section under a lock is joined with the acquisition
before it and the release after it as long as it holds one such access, because
acquiring commutes to the right of other goroutines' steps and releasing to the
left. Sections with more than one are cut, with `locker` TRUE in between. This
gives, in `Share`:

- `TryExecute`: `CheckRunning`, `CheckLimit`, then `PickIdle`, `PickNone`, or
  `PickNew`, `CountIn`, `Spawn`; finally `Submit`. `Execute` is the same with
  the loop of `AfterBusy`.
- a goroutine: `Receive`, `Handled`, `ReleaseCheck`, `ReleaseRecheck`,
  `ReleaseAppend`, and on its way out `PutBack`, `CountOut`. Those two are
  separate, and the goroutine is only a number (`leaving`) in between, because
  its submitter may already be in use again.
- the goroutine of `start`: `Evict` and `StopEvicted` are `clean()`; `SeeDone`,
  `DrainLock`, `DrainStop`, `DrainUnlock` are the end of its loop.
- `Close`: `CloseSwap`, `CloseDone`, then `WaitDownTo` as `CloseWait`,
  `ClosePoll` and `CloseGiveUp`.

`Alone` is cut the same way; `Running()` is a call with the mode `"Running"`.

`Idle` has the two halves of `release` that matter there, `Stamp`, which reads
the clock, and `Rejoin`, which has the locker; every step of the loop of `clean`
is a `Search`, and no goroutine can pick or rejoin meanwhile.

In `Future`, `SendLock` and `Send` are separate because the send may wait, and
that wait, with the locker held, is what matters most about that code; `Receive`
and the `Select...` actions are the two parts of `receive`: the look at the
deadline and the select. A select with several ready cases is a choice.
`Call(k, p)` decides what the call is: a completion, Cancel or OnComplete.
Every channel has its `Size`, and `MakeAcquire` decides by the channel it takes
whether the promise is a once promise or a stream, and whether it has a
deadline.

`Make` applies one option per step, so that the clock may move between two;
`Acquire` is the channel, its deadline and the timer; `GivesUp` and `Try` are
one round of the loop. A round that changes nothing is no step.

`Barrier` cuts the sections of its mutex at each promise made or completed:
`DoFirst`, `MakeOrigin`, `MakeFirst` (or `MakeFails`, `Abandon`) and `FnReturns`
for the first call of a key, `DoShare` and `MakeJoin` for the others;
`HandlerLock`, `HandlerComplete` for one sharer at a time, and `HandlerEnd` for
the handler of the first call's promise; `Forget` and, without the mutex,
`ForgetCancel`. `Occupied` counts the goroutines that its promises hold, which
is all it knows of the executor.

`Derive` follows deliveries: `<<i, j>>` is the call of the handler by source `i`
with its `j`-th result, and `at` says where it is. `CombineHandle`, `MapHandle`,
`ReduceOnComplete` and `AwaitHandle` are the handlers; those that complete a
promise go on with `SinkLock` and `SinkSend`, the two steps that `Future` has for
them, and `SinkReceive` and `SinkFinish` are its Handle. The user's goroutine
goes through `Build`, `Register` once for each source, `Registered` and `Attach`,
or `Await`. An immediate source calls the handler inside `Register`:
`ImmediateReturned` holds up the next one.

`Procs` has two steps for the two calls of `runtime.GOMAXPROCS` in Enable and
one for that of `undo`, so that several executors interleave there.

A task, in the executor modules, stands for one call together with the task it
hands over. `Outer` makes a call part of another task's Handle, which then
returns only after it. In `Future` a call stands for one method call and its
message or handler.

### What is abstracted

- Time: in `Share`, `Alone` and `Future` the janitor's timer, deadlines, the
  close timeout and sleeping are choices. `Evict` of `Share` may take any
  non-empty prefix of `idles`; which prefix the search finds is decided in
  `Idle`, and how long Make waits in `Make`, which both have a clock.
- Values: a message is the call, or the delivery, that sent it. The kinds are
  those the code tells apart: a value, an error, an error that wraps
  `Canceled`. `Future` assumes a concrete result type, for which the type
  assertion in Handle fails exactly for the raw message that a receive with a
  deadline returns.
- Handlers are instantaneous, except the library's own in `Derive` and
  `Barrier`. A handler that calls the methods of promises is covered as far as
  those calls come from anywhere; that it blocks its own Handle while they wait
  is not. The errInterceptor, which returns a future of the user's, is outside.
- The unhandled-result handler is given the messages of `left` that carry a
  value; `left` records them all.
- In `Barrier` a promise is completed once, as `CompletedOnce` of `Future` has
  it. With `Waits` the contexts of pending Makes do not end; without it Make may
  be refused at any time, because others use the executor too.
- In `Derive` promises have no deadline and contexts do not end; what those do
  to a promise is in `Future`. A source with a Canceled error has ended.
- The bits of a size are sets of positions (`Bits`, `Smear`), not words. An int
  has `Width` bits besides the sign, 63 or 31; TLC, whose integers have 32 bits,
  is given 30. What would not fit an int any more is no size of a channel either
  way.
- A file of a host in `CGroups` is the sequence of its lines, a line the record
  of its fields, a path the sequence of its names. The splitting of a line at
  spaces and commas is not spelt out; a line that the code refuses is `Bad`. Maps
  whose iteration order Go leaves open are used only where it does not matter.
- `Done()`, `Goroutines()`, `GoroutinesLeft()`: no effect on this state.
- `Task == nil` and a nil handler are refused or replaced before any state is
  touched.

## 3. Runs

| Run | Instance | Distinct states | Shows |
|---|---|---|---|
| `ShareSafety` | 3 calls, 2 submitters, limit 2, 2 Closes with timeout | 307,054 | the safety invariants; `Share` implements `Executors` |
| `ShareLive` | 3 calls, one of them made by another's task, limit 1, 1 Close without timeout | 29,576 | accepted tasks finish, Execute returns, Close frees everybody, the executor drains |
| `AloneAll` | 4 calls, two of them made by tasks of the others, limit 2, 2 Closes, with and without a close timeout | 209,438 | the invariants, `Alone` implements `Executors`, every call and Close returns but in two situations that it names |
| `IdleAll` | 3 goroutines, duration 1, clock to 5 | 189,212 | the search errs only about who was overtaken, and leaves nobody idle |
| `FutureSafety` | 2 promises of any kind, a once channel and a stream channel of 2, 4 calls | 1,757,346 | conservation, clean pool, completed once, deadlines do not leak |
| `FutureLive` | 1 promise of either kind, with or without a deadline, 5 calls in any order, contexts end | 166,636 | calls return, messages arrive, Cancel and time release, but in situations that it names |
| `MakeAll` | every sequence of up to 3 of 8 options; 47 sizes up to 8193; clock to 7 | 288,088 | the end of the attempts, the size of the channel |
| `BarrierAll` | 3 calls of Do and 1 Forget for one key, 3 goroutines | 144,557 | one outcome, single flight, nobody keeps a goroutine |
| `DeriveAll` | Combine and Reduce over 2 and 3 sources, Map and Await over 1; sources of every type and with every sequence of up to 4 results, of up to 3 for Combine | 181,688 | streams complete and in order, members neither lost nor twice, answers and ends arrive unless a sink is full and nobody will read it |
| `ProcsAll` | 2 executors, 10 lists of options, the user's own included, every combination of 4 kinds of host, 3 roots, 4 quotas, 9 kinds of damage | 181,100 | options, nested executors, the quota found |
| `BarrierWait` | 2 calls on a saturated executor, Make waits | fails | section 6 |
| `CombineFull` | 2 streams that bring more than the sink has room for | fails | section 6 |

Why these bounds. Two submitters under a limit of two, with three calls, is the
least in which one goroutine is idle, one is leaving and a call still wants one,
so that picking, creating, evicting and draining overlap; a second Close gives
the losing side of the compare-and-swap. Nothing in `share.go` compares more
than two goroutines, and the proofs of section 5 remove the bound for every
safety property of the executors. `ShareLive` takes a limit of one: there a
goroutine that leaks, or a task that waits for its own call, fills the executor
at once. In `AloneAll` two tasks fill the executor and each makes a call of its
own, so that both waits without an end come about, a task and Close for each
other (`ShutIn`) and the tasks for room (`Jammed`); whether there is a close
timeout is chosen in `Init`.

In `IdleAll` three goroutines give lists for which the search takes every kind
of turn, and in which one is overtaken by two. The clock stops at `MaxTime`, and
nobody becomes idle so late that he is not expired by then (`LastRelease`);
the proofs have no bound on lists or stamps.

In `FutureSafety` two promises over one channel force its reuse, and two over
two channels make them live at the same time; the capacity two is the smallest a
stream can have, and four calls are the handler and enough messages to fill the
buffer and block one producer. `FutureLive` needs one promise only, as promises
share nothing but the pool. Its five calls are a handler, which is never
registered if it is not called; one that may be a second handler or an end of
the stream; one more message or end; and two messages (`Overfilled`). That is
enough to fill the buffer and block a producer before there is a handler, behind
a Canceled error that leaves the stream available, while the context ends or
past the deadline.

In `MakeAll` three options are the least in which one is overridden and the
result overridden again; waiting times of 1, 2 and 3, deadlines before and after
them, and `Patience`, by which the options are applied, make each of them the
shortest in some run and let a deadline pass before it is given, with WithWait
before it and after it. The sizes are
those up to 20 and those around every power of two up to past the largest
channel.

In `BarrierAll` three calls and a Forget are the least for a forgotten caller
whose handler removes the entry of the next one, so that a third starts a call
of its own. The executor has room for three promises, so Make is also refused
for lack of goroutines.

In `DeriveAll` the sink has room for two (`Cap`), and a source of Map and Await
brings up to four results (`MaxLength`), so that one completes the sink's end,
two fill it and one more waits: the least in which Map's futures block a sink
that has ended. Two sources of Combine with up to three results each fill the
sink before it has its handler. Three sources are needed for an end that is
neither first nor last; three members for a channel that is closed between two.

In `ProcsAll` two executors give every order of their five steps, nested and
not; the proof has any number of them. The lists of options are those of the
package with values in and out of range, and the user's own, which set the same
fields before and after them, fail, or give procs functions that find nothing or
fail. The hosts are the three ways to mount
cgroups and none, seen from the host, from a container and from a mount of
somebody else's group.

Symmetry is used only in runs without liveness properties: over calls,
submitters and Close calls in `ShareSafety`, over calls and promises in
`FutureSafety`.

Deadlock is checked in the executor runs and in `ProcsAll`: `Terminated` names
the states in which everything is over, and no other state may be without a
step. It is not checked in the others: a promise that is never completed, or
never given a handler, may rightly wait for ever, a clock is stopped, Make has
returned, a stream does not end.

### Properties

- `SoleOwner` (Share): a submitter is in the pool, in `idles`, with the janitor,
  with a call, or loaded with one entry; never in two places. It is why
  `submit` and `stop` never block and why no entry is lost behind another.
- `CountExact`, `LimitRespected` (Share): the counter equals the goroutines
  there are and stays within the limit.
- `NoneStranded`, `Drains` (Share): nobody gets into `idles` behind the drain,
  and after Close every goroutine goes.
- `ImplementsExecutors` (Share, Alone): the abstract specification as a
  property, under the mapping `TaskStatus`, `CloseStatus`. That a Close without
  an error leaves no task unfinished that had been accepted when it began is
  part of it. `ClosedForGood` (Alone) is stronger: no task at all, and none to
  come.
- `RunAtMostOnce`, `AcceptedFinishes`: an accepted task runs exactly once.
  Liveness before Close holds unless the executor is `Jammed`: every goroutine
  runs a task that waits in Execute for a goroutine, which only Close ends.
  `CloseFreesCalls`: Close ends even that. `ExecuteReturns`: nobody is starved.
- `CallsReturn` (Alone): every call and every Close returns, however the locker
  is contended, but for two situations of its own making. `ShutIn`: a Close
  without a timeout, which is the default, has the locker and waits for a
  goroutine that waits, in a call of its task, for the locker. `Jammed`: every
  goroutine waits in Execute for another one; Close ends that, at least by the
  first.
- `OnlyOvertaken` (Idle): on any list, who
  is evicted before his time stands before one whose time had come, and who
  stays beyond it behind one whose had not: the error comes from overtaking and
  goes no further. `IdleGoes`: whatever the order, nobody stays idle for ever.
- `Conserved` (Future): for every promise, the messages sent are those the
  handler got, followed by those spoilt, left, and still buffered: nothing is
  lost, repeated, reordered or misdirected. `PoolClean`: a channel leaves the
  pool like new, without its last deadline or handler. `CompletedOnce`: one
  message for a once promise, none after Cancel.
- `CallsReturn`, `AcceptedArrives`, `Releases` (Future): progress of calls, of
  messages and of the promise's goroutine, which Cancel, its deadline or its
  context gives back. A message has arrived when the handler has it, or the
  unhandled-result handler. The properties say exactly where there is no
  progress. `Blocked`: a producer waits, with the locker, for room in a stream's
  channel which Handle will not make, because its handler is still to be
  registered behind that locker, because it has left its loop and waits for the
  locker itself, or because it is deaf. `Deaf`: past its deadline a stream reads
  nothing any more. A second OnComplete that comes after the end panics. What a
  promise with a deadline accepted is spoilt and reaches neither handler, so
  `AcceptedArrives` is about the others.
- `SizeFits` (Make): the channel is the smallest pooled one with the room asked
  for, and is one of a stream just when a stream was asked for. `LimitedReturns`:
  Make returns on an executor that stays busy for ever, in whatever order the
  options come and whatever time passes between them, unless the wait has no
  limit (`Endless`): WithWait was given, and neither a limit nor, behind it, a
  deadline that had passed. A WithWait behind such a deadline is `Endless` too,
  though a deadline was given.
- `OneOutcome`, `SharersAnswered` (Barrier): all who share a call get its
  outcome, and get it only once it is there. `SingleFlight`: a call in flight is
  the one that later calls of its key share, unless the key was ever forgotten;
  also, nobody who is done is listed, so the branch of Do for him
  (`barrier.go:75`) is dead. `OriginsLeave`: no path keeps a goroutine.
- `InOrder` (Derive): what comes out of a combined stream is, of each source,
  everything it brought, in its order, and the end after all of it; what Await
  after Await returns is what the source brought. `Whole`: the value of a
  reduced future has one result of every member. `Mapped`: a result comes out
  of Map once, and is lost only after an end came out. `Answered`: once futures
  get an answer and streams an end, the sink gives back its goroutine and every
  Await returns, unless the sink of a Combine or Map over streams is `Blocked`:
  full, with a delivery that waits in it, and either still without its handler
  or at its end.
- `NestedRestores` (Procs): executors made and closed one inside the other,
  refused ones included, leave GOMAXPROCS as it was. `QuotaFound`: no value is
  set but that of the process's own quota, whatever the host; when its files are
  in order that value is set. `TypeOK` of `Procs` says also that what New
  returns has a valid mode, and meets the other assumptions of `Share`, `Alone` and
  `Idle` in every field that an option of the user's own was not the last to set.

## 4. Fairness

Every goroutine that has been started keeps running: weak fairness for the steps
of each call, worker, janitor and Close, which is what the Go scheduler gives.
`task.Handle` returns once its own calls have. Nothing forces a user to call the
executor, to close it, to complete a promise or to register a handler; in
`Share` and `Alone` a call that is made by a task's Handle is made.

Weak fairness of a goroutine that waits for the spin locker suffices in the runs
because the number of calls is finite; `CallsReturn` of `AloneAll` includes
Execute callers that keep taking the locker. Strong fairness is asked of one
action only, `CloseGiveUp` in `Alone`: a Close that keeps polling alternates
between the counter and its context, and the context, once expired, stays
expired. `Share` does not need it: its Close properties are checked without a
timeout.

In `Idle` and `Make` time goes on (weak fairness of `Tick`), `clean()` is called
again and again, as the janitor's timer does, and Make's goroutine runs. Nothing
makes the executor of `Make` free or close, nor its context end.

In `Future` fairness covers `HandleStep(p)` as a whole. When a message and the
end of the context are both there, Go's select takes either, so nothing is
assumed about which. Nothing is assumed of the user: a promise is used in any
way, and what comes of it is in the properties.

In `Barrier` fn returns and futures are given a handler, as `future.go:14`
demands; whether a promise is ever completed is left to the user.

In `Derive` the goroutines of the user, the sink and the collector run, each
source brings the results it has, and the futures that Map's handle returns
complete: without those there is no answer to speak of. Fairness is per
delivery, so a source that waits in its handler holds up no other.

`Procs` has no liveness property and no fairness.

## 5. Proofs

Every theorem is about `Spec` for all values of the constants that the named
assumptions allow: any number of calls, goroutines, promises, channels, sources
and executors, any options, any limit.

| Theorem | Says |
|---|---|
| `TypeCorrect` (all but Idle and Make) | `Spec => []TypeOK`; in the executors the counter is a natural number, so no goroutine counts itself out twice; in `Procs` whatever options New is given, an executor gets a known mode, and usable numbers from all but the user's own |
| `Exclusion` (Share, Alone, Barrier) | the locker, or mutex, excludes; in the executors it is TRUE exactly while one party is in a multi-step section |
| `Limit` (Share, Alone) | `Spec => []LimitRespected` |
| `Counting` (Share) | `Spec => []CountExact` |
| `NobodyStranded` (Share) | `Spec => []NoneStranded` |
| `Ownership` (Share) | `Spec => []SoleOwner` |
| `AtMostOnce` (Share) | `Spec => []RunAtMostOnce` |
| `Implements` (Share, Alone) | `Spec => Abstract!Spec`, the refinement of `Executors` that the runs check |
| `Closed` (Alone) | `Spec => []ClosedForGood` |
| `SearchExact`, `SearchOvertaken` (Idle) | on a sorted list of any length the search evicts exactly those that were idle for too long; `Spec => OnlyOvertaken`, for any list |
| `Conservation`, `CleanPool`, `CompletesOnce` (Future) | `Spec => []Conserved`, `[]PoolClean`, `[]CompletedOnce` |
| `Shortest`, `Fits` (Make) | which waiting time any number of options leave in force; `Spec => []SizeFits`, for sizes of any width |
| `SameOutcome`, `OneFlight` (Barrier) | `Spec => []OneOutcome`, `Spec => []SingleFlight` |
| `NoneLostNoneTwice` (Derive) | `Spec => []Whole`, for any number of members |
| `MappedOnce`, `NothingOvertaken` (Derive) | `Spec => []Mapped`, `Spec => []InOrder`, for any number of sources and results |
| `Restored` (Procs) | `Spec => []NestedRestores`, for any number of executors, any options and any hosts |
| `Quotas` (Procs) | `Spec => []QuotaFound`, for every host whose kernel shows what it does |
| `Invariance` (each) | `Spec => []IInv`, from which the others are read off |

None of these is inductive alone, and the invariants support each other.

### What is assumed

`ShareAssumption`, `AloneAssumption`, `IdleAssumption`, `FutureAssumption`,
`BarrierAssumption`, `MakeAssumption`, `DeriveAssumption` and `ProcsAssumption`
are in the modules that declare the constants. They say what sort a constant is
(finite sets of calls, a positive limit, a nil that is no call) and, beyond that:

- *Share*: there are as many submitters as the limit, so that `sync.Pool`, whose
  `New` makes another one whenever it is empty, never runs out.
- *Make*: an argument fits an int.
- *Derive*: a source has a positive number of results, of its sort (`IsSource`),
  and nothing comes after a Canceled one; `Map` and `Await` have one source; the
  sink has room for two at least, as every stream has.
- *Procs*: numbers are given where the options want numbers, and a procs function
  gives a number, no quota or an error (`IsOption`);
  paths are sequences of names, and the parameter files hold fields, with no
  period below zero, which no kernel shows (`IsHost`). That what is read from such
  files is a quota, an error or nothing is proved (`QuotaType`, `FoundType`).
  `Truthful` is what the kernel promises of the process's own group, and of that
  one only: below every mount for cpu its two files, and under the usual mount of
  version 2 its `cpu.max`, are damaged or say its quota; on a host in order they
  are not damaged, the roots of its mounts contain its groups, and a quota comes
  with the files for it. Nothing is said of other groups, other controllers or
  how many mounts there are. `Truthful` reads lines and paths as the code does
  (`Listing`, `Translate`), but names none of the choices among them (`Group`,
  `Places`, `GroupV2`, `Quota`); of the theorems only `Quotas` uses it.

### The arguments

*Share.* `IInv` is the conjunction of

- `TypeOK`, which needs `CountExact`: `CountOut` subtracts one, and only because
  the leaving goroutine is among those counted is the result a natural number;
- `LockInv`, who holds the locker, in a form that says for each section whether
  the locker is held (`MutualExclusion` follows from it);
- `PlaceInv`, where calls and submitters may be: a submitter in the pool has no
  goroutine, which is what `Spawn` needs to add exactly one to the goroutines
  counted;
- `CountExact`. The delicate step is between `CountIn`, which counts a goroutine
  before it exists, and `Spawn`: the call counts for it in between (`Starting`),
  and `PutBack` to `CountOut`, where `leaving` does;
- `LimitInv`, `LimitRespected` together with the fact that there is room left
  while a call is between `PickNew` and `CountIn`. That fact survives because
  the locker keeps a second call out of that section;
- `DrainInv`: once the drain has the locker, or has ended, `running` is FALSE
  and no goroutine is between the second look at `running` and the append, so
  nothing is added to `idles`. `NoneStranded` follows;
- `OwnInv`, `SoleOwner` turned round: for each submitter (`OwnerOf`), its
  goroutine waits in `Receive` exactly if the submitter is idle, evicted, with a
  call or loaded, and it is in one of these places only. The lists `idles` and
  `scratch` have nobody twice, and no two calls hold the same submitter. Because
  `Evict` and `DrainStop` cut `idles` in two, that is needed for the parts to
  have nobody in common;
- `RunInv`, where every task is (`RunInvOf`): an accepted task that has not begun
  is in the channel of one submitter, one that has begun and not ended is with
  one goroutine, and a task whose call was not accepted is nowhere. A channel
  keeps at most one entry by `OwnInv`, so none is lost behind another.

Each conjunct has a lemma for its step (`TypeStep`, `LockStep`, `PlaceStep`,
`CountStep`, `LimitStep`, `DrainStep`, `OwnStep`, `RunStep`), one proof step per
action, and `CountOne` isolates the fact about cardinalities. `Invariance`
assembles them.

*Alone* is simpler: the locker guards `running`, so `ClosedForGood` is carried
by the locker: while Close waits nobody else is in a section, and afterwards
`running` is FALSE.

*The refinements* take every step of `Share` and of `Alone` through `TaskStatus`
and `CloseStatus`: it is an action of `Executors` or changes nothing there. The
steps that matter are the start of a task, of which `Executors` lets only
`MaxGoroutines` run at once (`RunningBounded` of Share), and the return of Close without
an error, which it allows only when no task is left that was accepted before Close began;
`Share` does because the counter is zero (`CountExact`) only when no goroutine
runs a task and none is loaded (`RunInv`), `Alone` because a task that is owed
has a goroutine (`OwedInv`).

*Idle.* `LoopInv` says that the goroutine just left of `l` is expired and the one
just right of `r` is not. Nothing more can be said without an order among the
stamps, and it is enough: where the search ends the two are neighbours, which
gives `OnlyOvertaken`, and with order everything before the one is expired and
nothing after the other, which gives `SortedExact`, the formula of `SearchExact`. `PlaceInv`, that a goroutine
waits in one place and once, is needed because `Stamp` changes a stamp: it must
not be one that is being searched.

*Future.* `Exclusive` is what the pool must not break: a channel is in the pool,
and then like new, or held by one promise. `PromiseInv` says when a promise holds
one and in what state it then is: `hset` is set from the registration of the
handler on, the handler is gone when Handle begins to receive, and Make's
deferred release finds a channel without either. That is all that
`releaseChannel`, which only resets `hset`, needs for `PoolClean`. `CallInv` has
the locker: who is about to send to a promise is alone with it, and it is still
available, so that the channel is not given to another promise while it waits.
With these, `HistoryInv` is inductive: `ConservedAt` is `Conserved`, and needs
`InTurn`, by which nothing is delivered behind what a deadline has spoilt;
`ClosedOnce` is `CompletedOnce` with the reason: while a promise is available
no Cancel was sent to it, nor anything at all to a once promise.

*Make.* `ShortestWait`, the formula of `Shortest`, is complete: the least of the
times asked for (`bounds`); if there is none, no limit when a wait was asked for
(`waits`), and none at all otherwise. A deadline that has passed when it is given
begins both anew. `InForce` is the same while the options are still being applied,
with `AppliedWait` for what one of them does to the time in force. `SizeFits` is
arithmetic about `roundupPow2`: smearing the highest bit `h` of `n - 1` over all
below it (`HighestBit`, `Smeared`) gives the number one less than `2^(h + 1)`
(`NumberOfBits`), which is the least power of two not less than `n`
(`RoundedUp`). From 2^32 on the five shifts do not reach all bits; what they give
is still above the largest channel, and that is all `ChannelSize` asks. That
powers of two grow is proved from the one fact the library has about them, the
number of subsets of a set (`Subsets`, `Doubles`, `Powers`).

*Barrier.* `MutexInv` has the sections of the mutex, `StageInv` what a call of Do
has done so far, `ListedInv` that what is listed under a key is a call of that
key which has not been handled, `VictimInv` what Forget has in hand. On these
rest `OutcomeOf`, that a promise is among the sharers of one call only, and gets
its outcome before that call is done, and `FlightOf`, that a call in flight is
the one listed unless its key was forgotten.

*Derive, Reduce.* `TInv` is `TypeOK` with what a delivery needs to keep it: it
carries a result once it is on its way, and only what a source has brought is in
the channel. `Whole` is about messages that have left the collector. `AccountInv`
carries it: the members collected and those in the channel (`Taken`) are
different, each is done with its one result, and `remains` counts the others, so
that the channel is closed just when all have come. `AllOfThem` then is the
pigeonhole: as many different members as there are sources are all of them.
`MessageInv` keeps it for messages in the sink and out of it.

*Derive, Combine and Map.* All that the sink took, in its order, is `Flow`.
`SinkInv` says that one delivery sends at a time and none after the sink's Handle
has gone, `FlowInv` that `Flow` holds what deliveries brought, each once. For Combine,
`OpenInv` ties `remains` to the sources whose end the handler has not seen;
`EndInv` has the consequence: the delivery that brings the end is alone, and all
others are done; `OrderInv` is `InOrder` for `Flow`, by which every delivery has
the earlier ones of its source before it. For Map, `MapInv` says who is in
`Flow` and who was refused, and why.

*Derive, Await.* `AwaitInv`: what was returned and what is in the channel of one
are the first results of the source, in order.

*Procs.* `NestedRestores` speaks of the empty stack only. `ChainInv` carries it:
every executor on the stack goes back to the value that the one below it left in
force, the lowest to `Initial`, and the highest left what is in force now.
`StackInv` says who is on the stack, `ValueInv` that all values in question are
positive, so that `runtime.GOMAXPROCS` takes them. `TypeOK` is `OptionsUsable`:
every option leaves usable options usable (`ApplyUsable`), hence so does a list of
them. Usable is a field whose last option was the user's own, or whose value is in
order: an option of the package puts a field in order whatever was there before,
except `WithMinGOMAXPROCS`, and of that field nothing is claimed.

`QuotaFound` is `QuotaRight`, what `Quota` makes of a host (`Right`: its quota; or
none, or an error, and the two not on a host in order that has one), carried to the
executors by `FoundInv`: what was found stays with the options it was found
with. `GroupIs` says that the path taken for a controller is one of its lines, and
`TranslateType` that it is found below a mount whose root contains it; so in
`V1Right` the last mount for cpu, whatever others there are, leads to the files
of the own group, of which `CGroupQuotaRight` makes its quota. `ReadMaxRight` does that
for `cpu.max`. That `Group` and the last mount exist is `Greatest`: a bounded set
of numbers has a greatest one.

Lists of options (`Applied`) and the number with given bits (`Sums`) are
recursive functions. What they compute is proved by the least argument at which
it would fail (`Least`, from the well-foundedness of the natural numbers), and so
is that such a function exists at all (`AppliedDef`, `SumsDef`).

### What is only model-checked

- All liveness properties: they rest on fairness, which is out of the prover's
  reach.
- `CountExact` of `Alone` is the other way round: proved (`CountStep`), in no run.

## 6. Where code and documentation differ

Two runs are expected to fail. Each states a sentence of the documentation; the
counterexample is a behaviour of the code.

| Run | Property | What happens |
|---|---|---|
| `BarrierWait` | `CompletionForgets` | Do waits for a goroutine with the mutex that the handler of a completed promise needs (`async/barrier.go:53`, `async/barrier.go:20`) |
| `CombineFull` | `OnCompleteReturns` | the sources have their handler before the sink has one; they fill it, the one that waits holds its locker, and OnComplete waits for that locker for ever (`async/combine.go:50`, `async/future.go:13`) |

### Differences from the documentation that no run shows

Those of the executors and promises are behaviours of the models. A property
that one of them breaks names it as its exception, with the line that says
otherwise, so that it states what the code does and no more.

- A call that saw `running` before Close is accepted after Close returned
  (`share.go:32`; `executors.go:65` says that Close waits for what was
  submitted).
- `Alone` closes with the locker that a task's own call needs: without a close
  timeout, the default, both wait for ever (`alone.go:89`; `executors.go:48`
  says that Close makes Execute return an error). `ShutIn` in `CallsReturn`.
- The limit is compared with all goroutines, so TryExecute returns ErrBusy while
  some are idle (`share.go:35`, `error.go:15`).
- Execute ignores its context (`share.go:50`, `executors.go:48`).
- `options.go:34` has the whole idle group evicted, those that have just become
  idle included; `clean()` evicts by each goroutine's own time, as
  `executors.go:40` says. `OnlyOvertaken` and `SearchExact` are about that.
- With a deadline, the value of a once promise is replaced by the raw message
  and reported as Canceled (`async/chan.go:222`; `README.md:41` of the library
  says that the handler gets the value). `AcceptedArrives` is about promises
  without a deadline.
- The context of a stream ends, or Fail brings it an error that wraps Canceled,
  while a producer waits: Handle and producer block each other
  (`async/future.go:74`, `async/promise.go:34`). `Blocked` in the properties of
  `FutureLive`.
- Past its deadline a stream never reads its channel again, so Cancel does not
  end it (`async/chan.go:209`, `async/make.go:25`). `Deaf`.
- OnComplete, documented as not blocking, waits behind a producer on a full
  buffer, and for ever if it would bring the stream its first handler
  (`async/future.go:125`, `async/future.go:13`). `Blocked`.
- A second OnComplete panics when it comes after the channel was given back,
  because it looks at `f.ch.hset` before it looks at `f.available`
  (`async/future.go:104`).
- Closing the executors does not cancel pending promises (`async/error.go:46`);
  Close waits for them.
- WithDeadline and WithTimeout do not override a waiting time
  (`async/make.go:113`); the shorter one is kept, as `Shortest` says. WithWait
  after a WithDeadline that has passed waits for ever, because the latter sets the
  waiting time to zero, which is also "not set" (`async/make.go:63`,
  `async/make.go:79`). `Endless` in `LimitedReturns`.
- The handler of a forgotten caller removes the entry of a later one for the
  same key, so that a call in flight which nobody forgot is no longer shared
  (`async/barrier.go:105`). Hence the exception in `SingleFlight`.

Those of the futures of futures are in `Derive`:

- Reduce takes a combined future, which has no `StreamMode`, for a member with
  one result; a second one would be sent on a closed channel.
- Map over a combined future makes a once promise, which takes one result.
- Results of Map's handle that are pending when the source is canceled are lost.
- And they may block the sink: the Canceled of the source ends the sink's Handle but
  leaves the stream available (`async/map.go:29`), pending futures of handle fill
  its channel, the next waits for room with the locker, and Handle waits for that
  locker (`async/future.go:74`) and never gives back its goroutine. `Blocked` in
  `Answered`.
- Combine over an immediate future with a value never ends, as that source never
  brings Canceled. Hence `Ends` in `Answered`.
- Combine over more immediate futures than the sink has room for does not
  return from OnComplete, by the same way as `CombineFull`.

And of the process:

- The exported fields of Options may be set to anything by an option of the
  user's own, and New looks at Mode only (`executors.go:80`). With a limit below one,
  which `Share` and `Alone` leave out, every TryExecute is told busy and every
  Execute tries until Close; with an idle duration below one, which `Idle` leaves
  out, `clean()` runs all the time; a close timeout below zero is none.
- `WithMinGOMAXPROCS` takes no notice of values up to 2 (`options.go:64`).
- A quota below one CPU rounds down to 0, which `runtime.GOMAXPROCS` does not
  set.
- `cgroups.go:172` asks whether `err`, not `openErr`, is about a missing file, so
  that every file that cannot be opened counts as no quota.
- Version 2 does not look at the root of its mount, and a version 1 mount whose
  root does not contain the process's group makes New fail.

## 7. Plan

Done: every component with state and its runs; theorems for every invariant
of the runs, and for both refinements.

Next models, and the proofs about them:

1. Close called from a task's own Handle, and Close with pending promises, for
   `Share` and `Future` together;
2. `Promises`, an abstract specification of what a promise gives to its handler,
   implemented by `Future` and used by `Derive` and `Barrier`: what `Derive` now
   takes over from `Future` by its words would be taken over by a refinement;
3. The hierarchy of groups behind the files of a host, with `Truthful` as a
   theorem about it instead of an assumption.

### Not modelled

- `context.go`: looks an executor up in a context and forwards the call. Nothing
  there can happen in another order.
- `async/error.go`: predicates over wrapped errors.
- In Map, a future of handle's that is a stream and completes the sink several
  times.
- The errInterceptor of a promise: what follows depends on a future that the user
  returns from it.
- The 32-bit version of `roundupPow2` returns the same for all sizes that a
  channel can have.
- Splitting lines of `/proc` files into fields: sequential handling of text.
