# A formal model of dislo

dislo is a lock server: clients create named locks, lock and unlock them over
gRPC, and wait in a queue for a lock in use.  All state is in Redis.  This
directory holds TLA+ modules of its core, configurations that model-check them
with TLC, and proofs that TLAPS checks.

Paths in this file are relative to the repository's root, line numbers are those
of the modelled commit.  To check one run: `tlc -config QC_service.cfg
MCQueueCallers.tla`; to check a proof: `tlapm QueueCallersProofs.tla`.

## 1. Inventory

| Component | State | Operations | Interacts with |
|---|---|---|---|
| Queue manager, `internal/queueManager/queueManager.go` | per lock three Redis keys: the queue `:q`, the next client `:qn`, the end of its turn `:qt`; a process-local mutex per lock | `ScheduleLock`, `GetQueuePosition`, `AcquireLock`, `ReleaseLock` | called by the handlers; a sequence of single Redis commands, through the connection of the instance's database, or of the management database |
| Lock service handlers, `internal/services/dislo/dislo*.go` | per lock one Redis key `:lock` with its status | gRPC `Create`, `Lock`, `Unlock`; `TryAcquireLock`, which no handler calls | one goroutine per request; Redis commands and calls of the queue manager |
| Service stubs, `dislo-delete.go`, `dislo-status.go`, `dislo-list.go`, `dislo-new.go` | none | answer "not implemented" | none |
| Connection pool, `internal/handler/redis.go` | a global map from database to connection, a mutex per connection | `RedisConnection`, `Get`, `Set`, `Exists`, `Delete`, `CloseSingleRedisConnection`, `CloseRedisConnections` | every command of the two components above; the `Close` functions have no caller |
| Configuration, `internal/configuration/configuration.go` | global tables of instances and namespaces, read at start-up | `init` | read by all |
| Client SDK, `pkg/sdk/client/client.go` | the client's id and connection | `Create`, `Lock`, `Unlock`; methods that check their arguments and do nothing | the server |
| Example client, `example/client/main.go` | per goroutine, where it is | three clients and three locks, used by the main goroutine and five more | the SDK |
| Node identity, `internal/cluster/cluster.go` | the node id file | `init`, `GetNodeID` | imported by no package |
| Server process, `cmd/main.go` | none | listen and serve | registers the handlers |
| Protocol, `proto/`, `pkg/generated/` | none | messages, generated code | all |

### What is hard here

* **Concurrency.** Every request runs in its own goroutine, and between two
  Redis commands of one request any number of commands of others may run.  The
  handlers decide on a status they read before (`dislo.go:237` and `:262`), the
  queue is read, changed in memory and written back (`queueManager.go:97` and
  `:110`, `:425` and `:478`, `:355` and `:385`).  The only mutex covers one
  function, `enterNextClientTimeoutPeriod`.  The global map of connections has
  none: it is tested for nil, looked up and stored into by every request, with a
  dial in between (`redis.go:30-42`).
* **Failure.** Any command may fail, or succeed without its answer arriving; the
  process may die between two commands while Redis keeps what was written.  Some
  errors are ignored (`queueManager.go:350`, `:451`), one is answered as success
  (`dislo-create.go:60`).
* **Two databases.** The queue manager writes the queue to the database of the
  instance and hands over the lock in the management database
  (`queueManager.go:190`), and the handlers refuse requests for the management
  database (`dislo.go:44`).
* **Time.** A turn expires; it is compared with the clock only when its own
  client asks for the lock (`queueManager.go:316`).
* **Lists.** A request names several locks and works through them one by one.
* **What clients are told.** `Lock` of the SDK returns nil to a client that was
  queued as to one that was granted the lock (`client.go:90-94`), waits without a
  deadline, and a lock has neither owner nor expiry: a grant whose answer is lost,
  or whose client gives up, stays.
* **First starts.** The id file of a node is looked for, created and written in
  three steps (`cluster.go:22-32`).

### What makes the components correct

* Queue manager: clients are listed in the order in which they joined and are
  served in that order; nobody is lost; only the client
  whose turn it is acquires; every call returns.
* Handlers: a lock is granted to one client at a time; a client that waits is in
  the queue, and gets its turn after an `Unlock`; a request is done for all its locks or says where it stopped; every
  request is answered.
* Connection pool: once a database has a connection, every request uses it and
  one command at a time is under way on it; a connection that does not answer
  holds up its own requests only.
* SDK: what a client believes to hold exists; a lock stays locked only where
  somebody is to unlock it; every call returns.  That `Lock` returning nil means
  the lock is held by this client alone does not hold.
* Node identity: a node keeps its id over restarts.

Not all of this is true of the code as it is; section 3 says what is not.

`PROJECT.json` lists the hazards, each at its line, with the properties that are
about it.

## 2. What is modelled

| Module | Models | Of |
|---|---|---|
| `QueueManager` | the package, one action per Redis command | `queueManager.go` |
| `QueueCallers` | the package with callers that call anything in any order | its exported functions |
| `TicketLine` | what a queue promises: a FIFO line | abstract |
| `LockService` | the handlers over `QueueManager` | `dislo.go`, `dislo-create.go`, `dislo-lock.go`, `dislo-unlock.go` |
| `LockTable` | what the service promises of each lock and its line | abstract |
| `ConnectionPool` | the map of connections and the commands over them | `redis.go` |
| `ClientSDK` | the SDK's methods over `LockService`, called by goroutines that run scripts | `client.go` |
| `ExampleClient` | the scripts | `example/client/main.go` |
| `NodeIdentity` | the id file and the processes that start on it | `cluster.go` |
| `QueueManagerProofs`, `QueueLineProofs`, `QueueCallersProofs`, `QueueSerialProofs`, `LockServiceProofs`, `ClientSDKProofs`, `ConnectionPoolProofs`, `NodeIdentityProofs` | theorems | |
| `MCQueueCallers`, `MCLockService`, `MCConnectionPool`, `MCNodeIdentity` | constants for TLC | |

`QueueManager` is a module without a specification of its own: `QueueCallers` and
`LockService` extend it, open its calls with the `Start` actions and read the
result when a call is done.  `ClientSDK` extends `LockService` in turn: it sends a
request where the client's script says so and reads the answer when the handler is
done, so its steps are steps of client, handler and queue manager.

**State.** `queue`, `nextUp` and `window` are the keys `:q`, `:qn` and `:qt`, for
every database that can matter (the instance's and the management database) and
every lock.  `mutex` is `lockMutexes`.  `frame` is, per goroutine, the command it
is about to send and the values it read; its labels are named after the function
(`add`, `pos`, `next`/`win` for `isNextInQueue`, `rem`, `mov`, `ent`) and the
command.  A queue id is the number of its arrival in Redis, so that order in time
is order of numbers; a missing queue is the empty sequence, which no key ever
holds (the code deletes a queue rather than write an empty one).  Client ids are
left out: they are stored with the queue id and never read back.  In
`LockService`, `status` is the `:lock` key and `call` the handler's place in its
list of locks.

**Actions.** `PROJECT.json` maps every action to its lines.  A step is one Redis
command with what the code does between its answer and the next command.  A
multi-key effect is never one step.  `CommandFails` makes the command of any step
fail, `AnswerLost` executes a Set and loses its answer, `DeleteFails` and
`NextKeyUnreadable` are the errors the code ignores, `QueueCrash`/`ServerCrash`
end all goroutines and mutexes and keep Redis, `Tick` advances the clock.

**Abstractions.**

* One namespace of one instance.  Keys contain instance, namespace and lock id,
  so locks of different namespaces or instances share no key; they share
  connections, which `ConnectionPool` models apart from what is sent over them.
* In the modules of service and queue, a command is one step, and opening a
  connection can fail like the first command on it.  That is no more than Redis
  itself guarantees, and holds when two connections of one database race as well.
* The time written to `:qt` is read in the step that writes it.
* A Set that was reported as failed has taken effect by then or never does; one
  that Redis executes after the request was answered is not modelled.
* Validation of requests' form, logging, the response's echo of the request.
* `ConnectionPool`: which command, key and value is sent; the entry of the map and
  its connection have numbered names, and a name that nobody holds is used again.
  The fatal error of the Go runtime on concurrent map accesses may come at any
  moment when two goroutines are about to access the map and one of them is to
  write; otherwise the accesses happen in some order.  `Close` works on a map that
  others change, and takes its entries in any order; where another map has replaced
  the one that `CloseRedisConnections` ranges over, the code goes on in the old one
  (`redis.go:100-106`), closes its clients and deletes their entries from the new one,
  and the module finds nothing left to close.  No property is about a database that is
  being closed.
* `ClientSDK`: one lock per request, as in the code; a goroutine of a client and the
  goroutine of the server that handles its request have one name.  A request that
  gets lost has no effect, and an answer is lost after the handler is done; a call
  that fails while its handler runs on happens only when the server dies.  The
  pauses in the example are left out, so any timing is possible.
* `NodeIdentity`: the write of the 36 bytes is done or not; ids are numbers in
  the order they were drawn.
* `uuid.New` never repeats.

## 3. Properties and runs

| Run | Question | Bounds | Result |
|---|---|---|---|
| `QC_service` | the package as the server runs it | 2 goroutines, 1 lock, 3 queue ids, 1 fault | pass |
| `QC_serial` | the package with calls that overlap, but never at the same lock, and a hand-off that finds the queue | 2 goroutines, 2 locks, 3 queue ids, 1 clock tick, 1 fault, one database | pass |
| `LS_rpc` | concurrent requests: exclusion, places in the queue, coming to an end, being answered | 2 goroutines, 1 lock, 3 queue ids, 1 tick, 1 fault | pass |
| `LS_serial` | requests that overlap, but never at the same lock, `TryAcquireLock` included: who is granted what | 2 goroutines, 2 locks, lists of one and two locks, 2 queue ids, 1 fault | pass |
| `CP_pool` | the pool under races, failed dials, silent connections, the end of the process | 2 goroutines, one of which closes too, 2 databases and an undeclared one, 1 fault | pass |
| `EX_example` | the example client against the service | its main goroutine and both of scenario 2, 3 locks, 1 tick, 1 fault, any number of lost requests and answers | pass |
| `NI_start` | starts on one id path | 3 processes, one of them in cluster mode, 6 starts, 3 ids | pass |
| `LS_double_grant`, `LS_lost_waiter` | statements of README.md | 2 goroutines, 1 lock, nothing failing | violated |
| `LS_unlock_list`, `LS_handoff` | comments of `dislo-unlock.go` and `queueManager.go` | 1 goroutine, so one request after another; 2 locks and 1; nothing failing | violated |
| `EX_blocks` | a message of the example | its main goroutine and the first of scenario 2, so one call after another; nothing failing | violated |

**Queue manager.**  `TypeOK`.  `QueueInCommitOrder`: whatever interleaves or
fails, the list in Redis never has two clients in the wrong order or one twice;
the races lose clients or bring them back, and do no more than that.
`EveryCallReturns`: every call comes
to its end.  `MutexHeldInside` and `CallsOnlyAdvance` are its safety halves: the
mutex of a lock is held by a goroutine inside `enterNextClientTimeoutPeriod` for that
lock or by nobody (the deferred unlock of `queueManager.go:201` runs on every return), and
each step of a call leaves it fewer steps to take (`StepsLeft`, 18 at the most).
`NextUpIsFirst`: `AcquireLock` serves the client of `:qn` and cuts it out of the
queue wherever it stands, with no more than a warning where that is not the front
(`queueManager.go:460`); where calls do not overlap on a lock it never stands
behind another, in spite of failures and crashes between the writes of the two keys.
`ImplementsTicketLine`: there the queue is a FIFO line that clients
join at the end and leave from the front.  `SerialSpec`, in both modules, is the
specification without overlap: its
steps are those of `Spec` that leave no two goroutines at work on one lock.

**Lock service.**  `NoGrantOverSettledHold`: exclusion as far as it goes.  A grant
is *settled* when no request that can free the lock (an `Unlock` that has it in
its list, a `Create` past its check) was under way when it was made; until the
next `Unlock` arrives, a request that arrives after a settled grant is not granted
the lock.  `SettledWaitersKeepTheirPlace`: the clients in the queue at a moment
when nobody was joining stay in it, in order and at its front, however later joins
race.  `ImplementsLockTable`: where no two requests are at the same lock at once,
the service is a table of locks with lines, `LockTable`.  A lock is created once.  A
`Lock` is granted it while it is free, and joins its line while it is in use.  A
`TryAcquireLock` is granted it, free or in use, after this very request left the line
of that lock, from the front and with the queue id it came with; nobody leaves a
line otherwise.  `won` are the grants of a request, `asks` the queue id it came with,
`turn` the lock whose line it left and has yet to take.  What can go wrong is in actions
of their own, `Fails`, `GoesOnAfterError` and `Crash`, each of which adds one to
`faults`, and `faults` is the number of failed commands and crashes of the service:
a run without a fault has no client that left the line without the lock, and a
run with one has one such step, of the request that failed.  (A client may also lose its
turn where the timeout does not parse or the management database is not declared: `HandsOver`.)
The table is not told who holds a lock, because the code does not record it: any `Unlock`
frees a lock.  `EveryRequestAnswered`, and its safety half `RequestsOnlyAdvance`: each
step leaves a request fewer locks to do, or fewer steps at this one, or fewer in the
call of the package it waits for.  (`LS_serial` checks the latter for `TryAcquireLock`,
`QC_service` that `AcquireLock`, all it waits for, returns.)

**Connection pool.**  First uses of a database may race: two connections, a map
that replaces another with connections in it, or the end of the process.  A database
is *settled* when it has a connection and nobody is making the map, or dialing,
storing or closing for it.  `SettledStays`: it stays so, with the same connection,
until it is closed.  `LateCommandsTakeTurns`: requests that came to a settled
database have one command under way at a time, since they all got that connection
and its mutex.  `MutexesHeldByCommands`: the mutex of a connection, closed or not, is
held by the request whose command is under way on it, or by nobody.
`SilenceIsContained`: a call comes to an end unless the connection of its own
database has gone silent.

**Clients.**  `LeaksOnlyByError`: a lock that is LOCKED is still to be unlocked by a
goroutine, or one gave up on an error before it did; without errors no lock is left
behind, although the queued clients of the example unlock what they do not hold.
`HeldLocksExist`: `Create` returns nil when it failed (`dislo-create.go:60`), and
still nobody gets to hold a lock that does not exist.  `ClientsFinish`: all
goroutines of the example come to an end.

**Node identity.**  `SettledFileStays`: a file that is there and that nobody is
creating or writing never changes again, be it an id or empty.  `LateStartsAgree`:
who started on such a file and came up has its id; first starts that race
can come up with different ones.

**What does not hold.**  Each of these states something the repository says:

* `NoDoubleGrant` (README.md:9): two concurrent `Lock`s of a free lock are both
  granted it.
* `ToldWaitersAreQueued` (README.md:9): of two clients that join at the same time
  one is overwritten, after it was told its place.
* `UnlockProcessesEachLock` (`dislo-unlock.go:44`): an `Unlock` stops, with
  success, at the first lock that is already free, with a later one of its list still
  LOCKED.
* `NextClientGetsAPeriod` (`queueManager.go:178`): after an `Unlock` the next client
  is to have a period in which to take the lock.  The hand-off looks for the queue in
  the management database (`queueManager.go:190`), where the handlers let nobody
  queue (`dislo.go:44`), finds none, and answers success.  The client that waits gets no
  period, so none ever ends, and nothing of what lines 180-181 go on to say happens
  either.
* `LockBlocksWhileHeld` (`example/client/main.go:135`): the SDK's `Lock` returns nil
  at once to a client that was queued behind another one, which goes on under a lock it
  does not have.

**Bounds.**  Two goroutines are enough for every race of two requests; what a
third could add to the queue manager is covered by the proofs, which hold for any
number.  `LS_serial` checks safety alone and treats goroutines as
interchangeable, `QC_serial` locks as well.  Three queue ids give a queue with a
first, a middle and a last client, so that `removeFromQueue` and `moveToNextClient`
take all their branches, and in `LS_rpc` two joins that race, fail or are cut short
behind a client that already waits; the theorems need no bound.  Two locks and lists of
two give a request that fails halfway, and
`QC_serial` and `LS_serial` a goroutine at each.  `LS_serial` runs `Spec` with the action
constraint `StaysInTurn`, which leaves the steps of `SerialSpec`.  One fault at any point shows every
single failure and every crash.  In `QC_serial` a turn lasts until the clock ticks
(`Timeout` is 0 ticks, that is, a tick is longer than a turn), so that a client can be
in time and, one tick later, too late.  `QC_serial` has the queue in the management database, which the package allows and the
handlers do not: only so are the commands of the hand-off behind its first one gone through, with
their failures.  Its properties do not depend on it, and the theorems are about either
declaration.  In `LS_serial` the clock stands still: with the
management database apart no turn is ever timed (`ApartInv`, below).  In `CP_pool` two
goroutines give every race on the map, one database each or both the same; the two
bases show that what happens to one leaves the other alone.  `EX_example` leaves out the scenarios that use other locks
than scenario 2 (they can only interleave with it) and lets at most nine clients
queue, more than its calls can.  In `NI_start` two first starts can race while
a third process comes late, and each can start twice.  `MaxTickets` bounds the joins, `MaxNow` the clock and
`MaxFaults` the failures, `MaxIds` and `MaxStarts` the id file's; nothing else is bounded, requests may go on forever.

**Fairness.**  `EveryCallReturns` and `EveryRequestAnswered` assume weak fairness
of each goroutine's next step (the Go scheduler runs every runnable goroutine and
Redis answers a command, with success or an error) and strong fairness of taking
the mutex (`sync.Mutex` hands over to a starved waiter).  Arrivals, failures,
crashes and the clock are not fair.  Strong fairness is needed for the
mutex alone, since another goroutine can take it again and again.
`SilenceIsContained` assumes the same of the pool: weak fairness of
`RedisConnection`, of the answer of a connection that is not silent, and of the
`Close` functions, strong fairness of a connection's mutex.  `ClientsFinish` adds
weak fairness of the clients' goroutines, which have nothing to wait for but the
service.

**Deadlock** is checked but in three runs, where the system may really stop: the
example ends (`EX_example`, `EX_blocks`), all processes have ended (`NI_start`), and
every goroutine may wait for connections that are silent (`CP_pool`).

## 4. Proofs

TLAPS checks, for every value of the constants (any goroutines, locks, bounds and
configuration):

| Theorem | Statement |
|---|---|
| `InductiveInvariant` (`QueueCallersProofs`) | `Spec => []IInv` |
| `TypeCorrect` | `Spec => []TypeOK` |
| `CommitOrder` | `Spec => []QueueInCommitOrder` |
| `MutexReturned`, `CallsAdvance` | `Spec => []MutexHeldInside`, `Spec => CallsOnlyAdvance` |
| `CallsInTurnKeepTheLine` (`QueueSerialProofs`) | `SerialSpec => ImplementsTicketLine` |
| `NextUpStaysFirst` | `SerialSpec => []NextUpIsFirst` |
| `ServiceInductive` (`LockServiceProofs`) | `Spec => []IInv` |
| `ServiceTypeCorrect` | `Spec => []TypeOK` |
| `SettledHoldsExclude` | `"try" \notin Surface => (Spec => []NoGrantOverSettledHold)` |
| `SettledWaitersStay` | `"try" \notin Surface => (Spec => SettledWaitersKeepTheirPlace)` |
| `RequestsAdvance`, `RequestsReturnMutexes` | `Spec => RequestsOnlyAdvance`, `Spec => []MutexHeldInside` |
| `RequestsInTurnKeepTheTable` | `SerialSpec => ImplementsLockTable` |
| `PoolInductive` (`ConnectionPoolProofs`) | `Spec => []PoolInv` |
| `PoolTypeCorrect`, `LateRequestsTakeTurns` | `Spec => []TypeOK`, `Spec => []LateCommandsTakeTurns` |
| `SettledConnectionStays`, `ConnectionMutexesReturned` | `Spec => SettledStays`, `Spec => []MutexesHeldByCommands` |
| `ClientInductive` (`ClientSDKProofs`) | `ClientSpec => []ClientInv` |
| `ClientsUseTheService` | `ClientSpec => Spec` |
| `ClientTypeCorrect`, `NoSilentLeak`, `NobodyHoldsAMissingLock` | `ClientSpec => []` of `ClientTypeOK`, `LeaksOnlyByError`, `HeldLocksExist` |
| `ClientsExclude` | `"try" \notin Surface => (ClientSpec => []NoGrantOverSettledHold)` |
| `NodeInductive`, `NodeTypeCorrect` (`NodeIdentityProofs`) | `Spec => []NodeInv`, `Spec => []TypeOK` |
| `SettledFileIsFinal`, `LateStartsHaveOneId` | `Spec => SettledFileStays`, `Spec => []LateStartsAgree` |

**Assumptions.**  Those named in the modules: `Free` is no goroutine, `NoLock` no
lock, the instance is a declared one, the timeout is a duration or one that does not
parse, a request names at least one lock, the bounds are natural numbers;
`ScriptAssumption` and `PairsAssumption`: the goroutines of the clients run scripts in
which every Lock is followed by an Unlock of the same lock, by whatever client, as
in the example.  `SettledHoldsExclude`, `SettledWaitersStay` and `ClientsExclude` are
about the server as it is registered, with no handler for `TryAcquireLock`: it grants
the first client of the queue the lock without looking at its status.

**The argument for the queue manager.**  None of its properties is inductive by itself.  A list in Redis is
replaced by one a goroutine computed from a list it read earlier, so
`QueueInCommitOrder` needs the same of the lists *in the frames*: `FrameOK` says
that they are increasing and hold only queue ids issued so far.  An append
adds a number larger than all of them (`AppendIncreasing`), and cutting elements out keeps
the order (`TailIncreasing`, `RemoveAtIncreasing`).  `StepOK` says what a
goroutine has established before each command: that the list it holds is not
empty, or contains its queue id, that a queue id was drawn, that the timeout could
be parsed.  `ApartInv` says what follows from the two databases being apart: the management database has no
queue, so a hand-off ends after its first command, no turn is given an end, and none
ever expires.  `QueueManagerProofs` proves, function by function, that the
package keeps `QueueInv` and `ApartInv` whoever calls it; `QueueCallersProofs` adds
the callers.

**The argument for calls that do not overlap.**  `OneCallPerLock` and
`OneRequestPerLock` say that no two goroutines are inside the package, or have a
request, at the same lock; `SerialSpec` keeps them true, and with a single goroutine
they cannot be false (`OneCallerKeepsTheLine`, `OneRequestKeepsTheTable`).  Then
nobody comes between a read and the write that depends on it, since a call touches no
key of another lock (`StepKeysKept`); but a command may still fail and the
process may die between two keys, so neither refinement is about one key at a time.
`OneCallerInv` (in `QueueManager`, proved in `QueueLineProofs` and used for both) says
that the list in a frame is the queue in Redis until the write that replaces it,
that what was read of `:qn` is still there, and that the client `:qn` names is
never in a queue behind another one: `removeFromQueue` cuts its client out of any
place, and only this makes the place the front.  So a write of `:q` appends a new
queue id, or is the tail, and every other step stutters.  It holds whatever
fails and for every declaration of the databases, and `NextUpIsFirst` is a part of it.
For the handlers, `WaitOK` ties a call of the package to its request: it is the call
the request waits for, and for the lock the request is at.  So requests that keep
apart make calls that keep apart (`CallsApart`), although neither knows of the other.
`TableInv` adds four parts.  `StatusInv`: the status a request read is still the
status of its lock, which a request at another lock leaves alone
(`OthersFit`), a request past its check has found its lock, and a client
told a queue id was told so for a lock that exists; so `addToQueue` runs only under LOCKED, and
`TryAcquireLock` for a lock that is there.  `MoveInv`: the client that
`moveToNextClient` is about to drop, the first of the queue whoever that is, is the one that called
`AcquireLock`; so who leaves the line is who asked.  `ApartInv`: no turn expires, so nobody leaves
the line and is answered with an error, unless something failed.  `RefusedAtOnce`: where the
instance is the management database, which `ApartInv` says nothing about, no request
gets past its check.  A command of `AcquireLock` then is one of `Leave`, `Fails` or `GoesOnAfterError`
for the client, or nothing at all; the write of LOCKED after it is `Grant`.

**The argument for coming to an end.**  Liveness is out of the prover's reach, but
what a fairness argument rests on is not.  `StepsLeft` numbers the commands of the
package, `PhasesLeft` those of a handler, and a step of a goroutine takes it to a
smaller number, or to the next lock of a finite list, with no assumption on
what the others did to the keys; that leaves waiting for the mutex as the only way not to
get on.  `MutexHeldInside` says that whoever has it is at a command
of `enterNextClientTimeoutPeriod` for the same lock, at most four from giving it
back.  For the service it needs `WaitOK` once more: a request that is answered has no
call open, so closing it abandons no mutex.  `ConnectionMutexesReturned` says the same
of the pool: `Close` replaces or removes an entry and never its mutex, so a command
under way on a closed connection still gives back the mutex it took.

**The argument for the lock service.**  `ServiceInv` adds to `QueueInv` what a
request knows (`CallOK`: there is a lock left at every command, only `Create` frees
past its check, only `Lock` takes) and how its wait matches the call it made
(`WaitOK`: the call is for the lock the request is at, and nobody else's).  Exclusion needs `HoldInv`: a settled grant stands in Redis as LOCKED,
no request under way may still free it (`MayFree`), and a request past reading the
status holds no stale "free" of a lock that was settled when it arrived.  Only an
arriving `Unlock` could break this, and its arrival is what ends the settled period;
a grant becomes settled only when `Freers` is empty, which is why the converse race,
an `Unlock` still under way at the grant, does no harm to the proof and is not covered
by it.  The queue needs `LineInv`: "line" is a prefix of the queue in Redis *and* of
every list a goroutine is about to write in `addToQueue`.  The second half is what
carries it: while such a goroutine exists it is a joiner, so "line" stands still from
its read to its write, and a write appends to a list that already extends "line",
whatever the queue has become in between.

**The argument for the pool.**  `PoolInv` says of every step what a goroutine has by
then (`UseOK`: past the test there is a map, a connection is there from the dial on)
and of a late request (`LateOK`) that its database is settled for as long as it
runs, that its connection is the one in the pool, and that it never gets to make a
map, dial or store.  The last part carries it: only a goroutine that is already on
its way to one of these, or a `Close`, can change an entry; a settled database has none,
and a late request does not become one.  Two late requests then have one
connection, and the mutex of a connection has one owner.

**The argument for the clients.**  `ClientInv` adds three facts to `ServiceInv`.
`Linked`: the request under way is for the call its goroutine is at.  `FoundLock`:
a Lock that is past its check and did not fail found its lock, and no step takes a
status back to ABSENT; so `HeldLocksExist` holds although a Create that failed is
answered as success.  `Due`: for every LOCKED lock there is a goroutine with an Unlock
of it ahead, or under way and not past reading or writing the status.  A Lock writes
LOCKED only on behalf of a goroutine whose script has an Unlock after it; what is
due stops being due only in a step that leaves the lock UNLOCKED.
`ClientsUseTheService` then shows that a step of the composition is a step of the
service, or leaves it alone.

**The argument for the id file.**  A process that started on a settled file finds it,
so it is never about to create or write; the others at these steps were there
before the file was settled, so there are none.

**Invariants on instances.**  Each strengthened invariant can be given to TLC as an
INVARIANT of a run it is about, and none is violated there: `IInv` of `QueueCallers` in
`QC_service`; `OneCallerInv` and `OneCallPerLock` in `QC_serial`; `IInv` of
`LockService` in `LS_rpc` and, with `TableInv`, `OneCallerInv` and
`OneCallPerLock`, in `LS_serial` (with `SPECIFICATION SerialSpec` in place of the action
constraint: TLC looks at invariants in the states that the constraint drops, too).

**Only model-checked.**  The liveness properties `EveryCallReturns`,
`EveryRequestAnswered`, `SilenceIsContained` and `ClientsFinish`: TLAPS proves
neither liveness under fairness nor `ENABLED`.  Every invariant and action property of a
run that passes is a theorem.

## 5. What is not modelled

* Configuration: `init` reads, merges and unmarshals files once, before anything
  else runs; the rest of the system reads the result, which is in the constants
  `Instance`, `ManagementDB`, `Instances`, `Timeout`, `NoPath` and `Cluster`.
* The server's `main` listens and registers the service; what matters of it, a
  goroutine per request and a process that may die, is in the modules.
* Service stubs and the SDK methods other than `Create`, `Lock` and `Unlock` have
  no behaviour yet: they answer "not implemented" or nil and change nothing.
* `.proto` files and the code generated from them, logging, the version.
* A command that Redis executes after the request that sent it was answered, and
  what a command in flight meets when its connection is closed, beyond that it
  comes to an end.
* The example with all six goroutines and faults at once: TLC does not finish it in
  reasonable time.  The theorems of `ClientSDKProofs` cover its safety.

What would add most next, once the server has a handler for `TryAcquireLock`: clients
that wait for their turn, with the liveness of the hand-off.
