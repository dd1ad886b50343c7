# A formal model of MuonJS and MuonCache

The repository holds two products in one crate: **MuonJS**, a small JavaScript
engine (parser, tree-walking evaluator, bytecode compiler and VM over a bounded
heap), and **MuonCache**, a Redis-compatible server on tokio whose scripts run in
MuonJS; beside them **TrafficLab**, a traffic simulation for the browser that shows
what a cache saves. All paths below are relative to the repository root.

## 1. Inventory

| component | source | state | operations | what makes it correct |
|---|---|---|---|---|
| Shard | `src/muon_cache/store.rs` 212-1481 | key to value and deadline | some sixty methods, one per command | lazy expiry is invisible; no empty collections; errors change nothing; deadlines survive updates |
| HashStore | `store.rs` 60-192 | vector of pairs, or a map | get, insert, remove, len, iterate | is a map, across the promotion |
| Db | `store.rs` 218-256, 1486-1857 | 64 shards, each behind a mutex | single-key calls, SMOVE (two locks), SUNION/SINTER, whole-database walks | no deadlock, no leaked lock, a move is seen whole |
| Command handlers | `cmd_handlers.rs` | none | parse arguments, call Db, log | log exactly the writes that happened |
| Glob matching | `store.rs` 381-499 | two positions and the last star | match | accepts what the pattern describes |
| SCAN | `cmd_handlers.rs` 1106-1165 | the client's cursor | one page | gives every key that stays, ends |
| Persistence | `persist.rs`, `server.rs` 87-168, 580-643 | SQLite tables, AOF channel and worker, one shared connection | log, batch, SAVE/BGSAVE, load, shutdown | the tables hold one whole snapshot; the log is in order and loses only whole batches |
| Connection | `server.rs` 170-408 | selected db, MULTI queue, script runtime, write buffer | dispatch, MULTI/EXEC/DISCARD, pipelining, flush | replies in order, one per command, none held back |
| Pub/sub | `server.rs` 431-481 | channel to senders, bounded queue per connection | SUBSCRIBE, PUBLISH | delivery in order, counted right, nobody waits |
| Scripting | `server.rs` 645-1720 | script cache, per-connection runtime | EVAL, EVALSHA, SCRIPT, redis.call, redis.pcall | a script writes to the selected database; the runtime is renewed in time |
| RESP codec | `resp.rs` | parser stack | read, encode | what is encoded is read back; nothing truncated is run |
| JSON | `json.rs` | a position | parse, stringify | parse undoes stringify; numbers are JSON numbers |
| Compiler and VM | `compiler.rs`, `bytecode.rs`, `vm.rs` | code, constants, locals; stack and frames | compile, step | compiled code does what the program says |
| Statement evaluator | `parser.rs`, `api/eval_program.rs` | environment, pending loop control | run a list, a loop, a switch, a try, a call | break, continue, return and exceptions reach their target |
| Expression evaluator, built-ins | `api/eval_expr.rs`, `api/mod.rs`, `evals.rs` | environments | evaluate | operators, conversions, library |
| JS heap and values | `context.rs`, `value.rs`, `types.rs` | atoms, objects, strings, a memory limit | allocate, intern, get/set/delete property | identity of atoms, property order, limit respected |
| Core executor | `core.rs`, `wasm.rs` | dbs, metrics window | execute, execute_batch | same answers as the server, bounded window |
| TrafficLab | `trafficlab/src/lib.rs` | two grids of queues and lights, settings, a cache | settings, step_frame | the cached grid does what the other does; nobody waits for ever |

How they interact: a connection task reads RESP values, dispatches through
`handle_command` to a handler, which calls `Db` methods (each locks a shard and
calls the `Shard` method of the same name) and then `log_cmd`, which puts the
command into a bounded channel. One thread drains the channel into SQLite in
batches. SAVE, BGSAVE and the shutdown task copy the store shard by shard and write
it in one transaction of a shared connection. Scripts call the same handlers with
logging off; a script's function is compiled when the compiler takes it, and walked
as text when it does not. PUBLISH copies the senders of a channel and puts the
message into each subscriber's bounded queue, which the subscriber's own task
writes out after its next command.

The hard parts: wall-clock expiry that is noticed only on access; locks taken two
at a time; a log written after the lock is gone; two SQLite connections and several
tasks on one of them; stops between any two of these steps; input that arrives in
pieces and replies that wait in a buffer; commands of several locked calls with
other connections in between; a cursor into a list that changes; index and integer
arithmetic at the ends of its range; jumps and pending controls through nested
statements. `PROJECT.json` lists each hazard at its line.

## 2. Modules

| module | models | notes |
|---|---|---|
| `Shard` | the methods of `Shard` as pure operators: store in, store and reply out | the prologue `if self.is_expired(key) { self.remove(key) }` is `Evict`, applied by the caller |
| `Keyspace` | a database under the command families, with the clock | one step is one locked `Db` call |
| `LazyExpiry` | what clients rely on | `Promise` is `Keyspace` itself with `Eager = TRUE` |
| `KeyspaceProofs`, `ExpiryProofs` | proofs of what `LazyExpiry` states; the refinement | |
| `FieldMap`, `HashStore`, `HashStoreProofs` | a finite map (abstract); the hash that implements it; proofs | |
| `ShardLocks`, `ShardLocksProofs` | the mutexes, SMOVE's two halves, commands that walk shards; proofs | |
| `Persistence`, `PersistenceProofs` | AOF channel, worker, SAVE, shutdown, stop, restart; proofs | SQLite's single writer is external |
| `Server`, `ServerProofs` | connections, MULTI, pub/sub and scripts over shared databases; proofs | the composition of what one process serves |
| `Scan`, `ScanProofs` | SCAN walks among inserts and deletes; proofs | |
| `Glob`, `Resp`, `Json` | matcher, codec, JSON, each with its reference | pure |
| `JsValues` | values, conversions and arithmetic | ints of a small width |
| `JsMeaning` | program trees and what they mean: the reference | the language, not the code (but for the host's variables and calls) |
| `JsText` | a tree as tokens, with no more parentheses than needed | |
| `Compiler`, `Vm` | `compiler.rs` from tokens to code, `vm.rs` on it | |
| `Engine` | a call: compile, run; and where the compiler keeps to the language | |
| `Walker` | the statement evaluator; and where it keeps to the language | |
| `Algorithms` | runs the pure modules on inputs, with `Scan` | |
| `TrafficLab`, `TrafficLabProofs` | both simulations and the control panel; proofs | |
| `MC*` | instances | |

Operators named in a comment as a *mutant* are plausible bugs of the definition
below them. They are used only to show that the properties notice them; no
specification refers to them.

In the modules there are proofs about, alternatives are chains of IF and not CASE
(what a CASE is when no arm holds is left open, and the prover would have to show
each time that one does), a choice has an operator of its own, and the constants'
types are assumptions that TLC evaluates.

### Shard, Keyspace, LazyExpiry

`db` is the union of the shards' `data`, a function on the keys that have an entry;
`now` what `now_ms` returns, `last` the
last command and its reply, `scope` the keys and families of an instance. Data is
abstracted to what commands tell apart: a byte string is an optional numeral
followed by a number of other bytes (so INCR, APPEND, STRLEN and the parse in
between behave as in the code), members are small integers, i64 has `Width` bits.
Saturation (INCRBY), wrapping (HINCRBY) and the cast of a negative index to `usize`
(LTRIM) are kept. A panic aborts the process (the release profile has
`panic = "abort"`), so no step follows one.

Commands that make several `Db` calls are sequences of steps here, and of one
connection in `Server`. A score is an integer: no NaN. The clock only moves
forward, which `SystemTime` does not promise.

The promise of lazy expiration is stated by refinement: the same specification with
`Eager = TRUE` is a store from which entries vanish at their deadline, and the
store seen through `PurgeExpiredAll` must take its steps and give its replies.
EXPIRE and DEL do not test the deadline; `ExpiryInvisible` names exactly these two
exceptions, and the run `ExpiredInvisible` shows what happens without them.

### HashStore

`kind`, `pairs` and `map` are the enum; `ret` is what the last call returned. A
hash starts with one pair or is loaded as a map. The abstract `m` is `Contents`,
the lookup through whichever variant is in use.

### ShardLocks

`owner` maps shards to threads; `pc` walks through `Db::set_move` (first lock,
second lock, remove, insert, the two guards dropped in reverse order) and through
commands that hold one shard at a time (`plan`). Sets have members that are only
moved, so a member can be followed; `lost` records what an SMOVE onto a key of
another type has taken out.

### Persistence

`mem[k]` is the number of the write that made key `k` what it is, negative for a
deletion. A client applies a write and logs it in a second step. The worker's
batch, its transaction and the savers' transaction are separate steps; `lock` is
SQLite's write lock, `txn` the transaction of the connection savers share. A
statement that meets the other connection's lock may wait or fail. `DiskFaults`
adds failing statements, a COMMIT that fails with its transaction left open or
rolled back, and a load that stops half way. `Halt` may come at any point. The
history variables `sent`, `dropped`, `saved`, `commits` and `base` are only read by
properties.

### Server

A client sends the frames of one of its `Programs` (`Frames` are the commands with
the arguments their handlers accept; what they refuse is UNKNOWN); they arrive in the reader's
buffer in any pieces (`Fill`, with `half` for a frame that is only begun), and the
client may hang up at any time. `Take` is one turn of `handle_client`: it dispatches
as the code does (SUBSCRIBE and PUBLISH before the test for MULTI, unknown and
nested commands answered at once, the rest queued, fast paths last). A command is
the sequence of its calls that take a lock (`Calls`); each is a step of its own, so
other connections run inside an MSET, an EXEC or a script. `Respond` writes the
reply and the messages waiting for this connection, and flushes if no input is
buffered: `out` is the BufWriter, `sent` what the client has. Commands are
represented by one of each shape (read, write, arithmetic, several keys, several
databases, none); the others differ from these in the `Shard` method they call,
which `Keyspace` models. A script is the sequence of its redis.call and
redis.pcall, compiled or walked (the two treat an error reply differently), with
the memory it needs; `mem` is what a connection's runtime has used.

### Scan, Glob, Resp, Json

`Scan` keeps the keys sorted as the server does (a key's place in the list is its
rank), one step per SCAN call, insertion or deletion, for a COUNT of at least one. `Glob` is the iterative matcher with its one backtrack point, and
`Means`, which tries every split at every star. `Resp` is `encode` and the reader
with its stack of half-read arrays over the bytes that come before the end of the
input. `Json` is the recursive-descent parser and the writer.

### JsValues to Walker

`JsMeaning` gives trees their meaning as the language defines it: completions for
statements, left-to-right evaluation, short circuits. Its host has a global `g`, a
function `f` that logs its arguments, a function `fail` that throws and an object
`o`. `JsText` writes a tree as the tokens a programmer would write. `Compiler`
reads those tokens as `compiler.rs` scans text, with its own precedences, its
constant pool and its jump patching; `Vm` executes each opcode the compiler can
emit, with int and float paths, underflow and panics. `Walker` follows
`eval_function_body`, the loops, labels, `switch`, `try` and calls, with the pending
control the context holds and the EXCEPTION value; expressions are taken to be
evaluated right.

Both take shortcuts (section 5). `PlainProgram` and `WalkPlain` say, by the shape of
the program alone, where they do not, and the properties are about those programs.

### TrafficLab

`cells` are the junctions of both grids with queues, light, timer and arrival
accumulator; `cache` maps keys as `discharge_key` packs them. Time is in
milliseconds and rates are scaled integers in place of `f64`. A frame runs ticks of
the first grid and then of the second; the clock is read only on every
`CheckInterval`-th tick, and may end the frame at any of those. The generator's draws are a fixed
sequence that repeats.

## 3. Runs

| run | checks | instance |
|---|---|---|
| `Keyspace` | `TypeOK NoEmptyCollection IntInvisible ExpiryInvisible FailedCommandChangesNothing DeadlineKept` | one key with every family, and two keys with the set commands (SMOVE); 3-bit integers, clock 0..2, lists and streams up to 3, indices from below -len to len, two fields, two members |
| `HashStore` | `Inv ImplementsFieldMap` | threshold 3, four fields |
| `ShardLocks` | `TypeOK LocksMatch WaitsClimb MemberOnce ReadersSeeWholeMoves EveryCommandEnds` | three threads, three shards, a key of another type |
| `PersistLog` | `TypeOK AofConserved ProgramOrder LogDrains SavesEnd` | two clients, two writes, channel 1, batch 2, one SAVE, a shutdown or a crash |
| `PersistSave` | `SnapshotWhole OneWriter NoStepBack` | two keys, two SAVEs and the shutdown's, I/O errors, two stops; no AOF |
| `Server` | `TypeOK NoReplyHeldBack OneReplyEach PublishKept SmallScriptsFit NothingRunsInMulti WritesSelectedDb EveryFrameServed` | two connections with ten pairings of pipelines of two to six commands; two databases, two keys, queues of two messages, runtimes that hold two scripts and not three; 211 000 states |
| `Algorithms` | `GlobRight RespRoundTrip TruncatedNeverRuns JsonRight CompiledRight WalkedRight ScanMissesOnlyByDeletes ScanEnds` | see below; 133 000 states |
| `TrafficLab` | `CacheFaithful JunctionEmpties` | grids of one and four junctions, lanes of one vehicle, two changes of any setting, two speeds |

What `Algorithms` runs over: all patterns of up to four of the nine bytes that mean
something to the matcher, and classes of three, on all texts of up to three bytes;
nested RESP arrays two deep with every leaf, followed by another value; commands of
up to eleven arguments cut at every byte; JSON values two levels deep, with strings and keys
of every kind of byte (3 200 of the 6 900 are not read back); all texts of
up to five bytes of a numeral; 12 300 functions for the compiler (every operator over
every kind of operand, nested once in every position, and branches, loops and
returns), of which 7 700 are plain and compiled; 9 000 programs for the evaluator
(loops in loops, labels, switches and try blocks around every jump), of which more
than a quarter are plain; SCAN over four keys with two deletions and any insertions.

The `Keyspace` run uses a VIEW, `<<db, now, scope, Running>>`: no guard and no
property reads `last` or `reply` except in the state a step leads to, so states that
differ only there have the same steps. The bit in `last` makes every command a
non-stuttering step, so that no step escapes the action properties.

Four runs show where a document and the code part:

* `ExpiredInvisible`: "expired keys invisible" (`tickets/archive/T-000084.md`), but
  EXPIRE revives an expired entry that nobody has touched, and DEL counts it.
* `TrimAnswers`: "LTRIM trims list to specified range, returns OK"
  (`T-000058.md`), but a stop below -len with a start inside the list panics.
* `AofKeyOrder`: "commands logged in order" (`T-000057.md`), but two connections'
  writes to one key can be logged the other way round; what does hold is the order
  of each connection (`ProgramOrder`) and of the sends (`AofConserved`).
* `ShutdownSave`: "On shutdown ... snapshot to persistence store" (`todo.md`), but
  the shutdown's BEGIN fails while a SAVE's transaction is open, and the process
  exits.

**Why the bounds are enough.** The commands of one family only ever compare
members, positions and the threshold with each other, so two members, a list of
three with indices on both sides, and a threshold of three with four fields reach
every branch; `Width = 3` reaches saturation and wrapping in two increments. Three
threads and three shards are the smallest instance in which a cycle of three could
close. A channel of one and a batch of two make the channel full, a batch full and
a batch cut short by the timeout. In `Server` connections meet only in the
databases, the script cache, the registry and the queues, so what a third could do
to a connection the second can do; a queue of two is filled by a subscriber that
subscribed twice and two PUBLISHes, and three scripts of cost 4 force a renewal of
a runtime of 10. For the compiler and the evaluator a jump or a pending control is
wrong at the first construct that mishandles it, so nesting two deep in every
position reaches each pair of constructs. Ints of four bits put overflow next to
every operator. What is proved below needs no bound. Deadlock checking is off where
bounds, the end of all clients, or a panic stop the model.

**Fairness.** `ShardLocks`: a thread that can take its next step takes it (the
scheduler runs every worker thread). Since a mutex is not fair, weak fairness on
`lock` is only enough because each thread runs finitely many commands in the
model. `Persistence`: the worker thread, a client inside `send`, a saver and the
exit are scheduled; nothing is assumed about clients starting commands, nor about
crashes or restarts. `Server`: the runtime polls every task that is ready (weak
fairness of `Serve(c)` for each connection); clients owe nothing, neither bytes nor
reading. `Algorithms`: a client that has begun a SCAN walk goes on with it; others
may insert and delete in between for as long as the bounds let them. `TrafficLab`:
the browser goes on calling `step_frame`, which comes to its end; nothing is
assumed about the panel.

## 4. Proofs

Checked by TLAPS for every value of the constants that satisfies the modules'
assumptions: any keys, connections, clients, capacities, commands, and sequences of
steps of any length. The assumptions only give the constants their types, but for
the ones named below. Each theorem about a specification is an inductive invariant
(`Init => I`, `I /\ [Next]_vars => I'`) from which the property follows; an action
property follows from the same invariant and the step.

| module | theorem | property |
|---|---|---|
| `HashStoreProofs` | `Invariance`, `Refinement` | `Inv`, `ImplementsFieldMap` |
| `ShardLocksProofs` | `TypeCorrect MutualExclusion NoCircularWait MembersConserved MovesAreWhole` | `TypeOK LocksMatch WaitsClimb MemberOnce ReadersSeeWholeMoves` |
| `PersistenceProofs` | `PersistenceTyped LogConserved LogKeepsProgramOrder OneWriterAtATime SnapshotsWhole SnapshotsMoveForward` | `TypeOK AofConserved ProgramOrder OneWriter SnapshotWhole NoStepBack` |
| `KeyspaceProofs` | `KeyspaceTyped CollectionsFilled FailuresChangeNothing DeadlinesKept IntegersInvisible` | `TypeOK NoEmptyCollection FailedCommandChangesNothing DeadlineKept IntInvisible` |
| `ExpiryProofs` | `ExpiryIsInvisible` | `ExpiryInvisible` |
| `ServerProofs` | `ServerTyped RepliesFlushed MultiOnlyQueues WritesStayInDb ScriptsFit RepliesInOrder PublishCounted` | `TypeOK NoReplyHeldBack NothingRunsInMulti WritesSelectedDb SmallScriptsFit OneReplyEach PublishKept` |
| `ScanProofs` | `ScanBound` | `ScanMissesOnlyByDeletes` |
| `TrafficLabProofs` | `CacheIsFaithful` | `CacheFaithful` |

**`HashStoreProofs`** (finitely many fields, a threshold of at least one).
`Invariance`: `Inv` is inductive. That no field is in the vector twice is needed
for every operation: with a field twice, `remove` would uncover an older value and
the promotion could keep either. `Refinement`: every step maps to a step of
`FieldMap`. The lemmas say what a push, an overwrite and a `swap_remove` do to
`Lookup`, and that the vector's length is the number of fields it supports.

**`ShardLocksProofs`** (at least one shard, every key has one). The inductive
invariant is `Inv`: types; `TwoShards`, that only an SMOVE across shards is between
its locks; `LocksMatch`, that each mutex is owned by exactly the thread whose program
point says so; `MemberOnce`. `WaitsClimb` is not inductive by itself and follows from
`LocksMatch`: only a thread between its two locks holds one and waits for another,
and that one is higher. `ReadersSeeWholeMoves` follows from `LocksMatch` as well: the
shards of a half-done SMOVE are both owned by it.

**`PersistenceProofs`**. `PersistInv` has a part for each story. *The log*:
`AofConserved` is about log, batch and channel as one sequence (`Pipeline`), to which
every step appends, from which it takes a part, or which it leaves alone
(`PipelineStep`); that makes it inductive. `ProgramOrder` is not: what is on its way
must be in order too, and the write a client has applied and not yet logged must be
later than all of its writes in the pipeline (`ClientOrder`). *The snapshots*:
`OneWriter` and `SnapshotWhole` need to know how far a saver's copy is in the tables
its transaction sees, at each of its program points (`SnapshotInv`): that every row it
has is there before the stale rows go, and that after that the tables are the copy.
*Moving forward* (`Forward`): keys in the store only move to later writes, a copy is
never ahead of the store, and is not behind the tables unless they were replaced
since it was begun, which is what `base = commits` records; a restart loads the
tables, whole or (`loaded` false) in part.

**`KeyspaceProofs`** (clients send byte strings within the bound, and the bound lets one
byte be appended). Each method, called on its key after the expiry prologue,
either leaves the store, drops the key, inserts a filled value without a deadline
where there was none, or replaces a value by a filled one under the same deadline,
and does only the first with an error (`Shape`, one lemma per data type). From that
alone follow the invariant (`IsStore`), that errors change nothing visible, and that
deadlines are kept (`MethodGood`); SMOVE, which writes two keys, and the commands
about deadlines are handled by themselves. LTRIM, LREM and LINSERT rest on lemmas
about cutting, joining and thinning sequences. `IntegersInvisible` compares each
string method on a store with the same method on the store in which integers have
been written out. `KeyspaceTyped` has an invariant of its own (`TypeInv`): what a
method stores is a `TypedValue`, a value of some kind with contents of their types
(`Kept`, one lemma per data type; the bounds `Room` and `TailRoom` look at the entry
before the prologue, the methods after it: `RoomAfter`). A sum stays in the width of an
i64, saturated or wrapped; `PowersOfTwo` (`2^w = 2 * 2^(w-1)`, positive) is stated as
an assumption because the provers have no rules for powers, TLC evaluates it. That LREM
and XDEL leave whole sequences needs an element of each rank among those kept: ranks
are an injection into as many numbers as there are elements, so a surjection
(`RankOnto`).

**`ExpiryProofs`**: refinement, step by step. Two stores *agree* on a key when they
have the same visible entry there. A method gives the same reply on stores that agree
on its key after the prologue and leaves stores that agree (`Alike...`, one lemma per
data type), and the lazy store agrees everywhere with what the eager one holds; so each
command, and each tick of the clock, is a step of `Promise` (`...Promised`, one lemma
per family). EXPIRE and DEL skip the prologue: if the key is expired and still there
they are the two exceptions the property names, otherwise they refine as well. The
clock only moves forward: an expired entry stays expired.

**`ServerProofs`** (programs are sequences of `Frames`, scripts make `ScriptCalls`;
one of each kind of frame is in the runs). `ServerInv`: the record of each connection is
well formed (`CnOK`), above all the work left of its command: calls with arguments of
their kinds; a flush only under FLUSHALL; while in MULTI only sends of a PUBLISH, and
no EXEC under way (`WorkOK`). That is why nothing runs between MULTI and EXEC, and why
a connection stays in its database. A connection that runs still has its frame in the
buffer, which is what `RepliesFlushed` needs at the three places that decide about a
flush. `ScriptsFit` adds that no reply, result or queued answer so far is the memory
error. It assumes that a runtime that has run nothing is not above the threshold
(`MemBase * 100 <= MemTotal * Percent`); otherwise each script would find a runtime
that is renewed and still too full.

`RepliesInOrder` and `PublishCounted` are about the whole history of a connection, and
neither property is inductive. `TalkInv` adds to the first what the history already
shows of the command under way: while the connection is in MULTI its queue is as long as
the number of QUEUED replies since the MULTI accepted last; while EXEC runs, the results
so far, the command at work and the batch left are together that many; a reply not yet
written has that length, or, if it says QUEUED, the queue is ahead by one; and the
numbers of the replies are 1 to `n` or `n - 1` depending on where the connection is. The
count changes with each reply appended, so it is stated for a history, and the lemmas
say what a reply and the messages behind it add. `PubInv` adds to the second that the
stream of a subscriber (what it was sent and what waits in its channel) holds no message
newer than the command its publisher is at, without which the next message could come out
of order; that the copies of a message are finitely many; and that in the midst of a
PUBLISH the sends that succeeded so far are as many as the copies of its message, so that
the sum it answers is their number. A message that moves from the channel to the history
changes no stream, which is why both are about the two together.

**`ScanProofs`** (COUNT at least one). `ScanInv`: of the keys that were there at
the beginning, are still to be given and have not been deleted, at most one for each
deletion lies to the left of the cursor. A call gives all between the old cursor and
the new; an insertion can only raise ranks; a deletion lowers the ranks behind it by
one, so at most one key crosses the cursor. The lemmas are about ranks in finite
sets of integers.

**`TrafficLabProofs`** (settings as the setters clamp them). Each remembered flow is
the flow of some settings and light with that key (`Remembered`), and the key
determines everything the flow is computed from (`KeyDetermines`: bits 0..3, 4..11,
12, 13 and the rest do not overlap for up to six lanes and the speeds the panel has).

**Only model-checked.**

* All liveness (`EveryCommandEnds LogDrains SavesEnd EveryFrameServed ScanEnds
  JunctionEmpties`): the prover has no rules for fairness here.
* `GlobRight RespRoundTrip TruncatedNeverRuns JsonRight CompiledRight WalkedRight`: the
  modules are recursive over data, which is out of the prover's reach.

## 5. What the models show besides

Behaviours of the models that no document of the repository contradicts plainly
enough for a run, or that the properties exempt by name:

* **Transactions and scripts are not atomic.** EXEC runs its commands with other
  connections in between (`server.rs` 294), though `tickets/archive/T-000042.md`
  asks that MULTI/EXEC "maintains atomicity across multiple keys". So do scripts,
  MSET, DEL of several keys.
* **Scripts leave nothing in the log.** Calls of a script skip the log because "Redis
  logs EVAL", but EVAL itself is not logged (`server.rs`, near 1597).
* **Pub/sub** messages wait for the subscriber's next command; a connection that
  only listens gets none.
* **SCAN** with COUNT 0 gives no keys: at the start it answers cursor 0, as if the
  walk were over, and later the same cursor for ever. A key is passed over once a deletion has
  moved it before the cursor: `ScanMissesOnlyByDeletes` says by how much.
* **RESP**: the smallest i64 is written and read back as 0.
* **JSON**: the writer leaves control bytes other than newline, return and tab as
  they are (`json.rs:41`) and the parser refuses them (`json.rs:334`), though it takes
  their escapes: what JSON.stringify makes of such a string JSON.parse does not
  read. Keys are written without escapes (`json.rs:117`): one with a quote or a control
  byte makes a text that is refused or means something else, one with a backslash
  comes back as another key. NaN and the infinities become null, as in the language.
  `JsonRight` states the round trip for all other values and, for these, that it fails.
* **Compiled code** differs from the language, and from `T-000038.md:63`
  ("Unsupported constructs gracefully fall back to the interpreter."): && and ||
  evaluate both sides; `x = a < b` is read as `(x = a) < b`, likewise a conditional;
  an element's index that is neither an integer nor a string is cast to u32 (`vm.rs`
  592-595), so that `o[true]` reads `o[1]`, `o[false]`, `o[null]`, `o[undefined]` and
  `o[NaN]` read `o[0]`, `o[0.5]` reads `o[0]`, and a negative integer wraps;
  `++i` is lost; `var a = 1, b = 2` sets a to 2; break and continue are ignored; a
  variable used before its `var` is a global; a failed call's exception is a value
  and execution goes on; equality and order are one level; `null == 0`; `~`
  saturates; `i++` wraps at 32 bits; dividing the smallest int by -1 panics.
* **The statement evaluator**: an exception out of a compound statement does not stop
  the statements after it, nor a loop its next rounds; a case of a switch that ends
  in return, throw or continue and is not the last runs on; a failing condition is
  true; a return in a finally block does not win; a script's return inside a
  compound statement does not end the script.
* **TrafficLab**: east-west green is followed by north-south green without the
  all-red phase `lib.rs` describes; at speeds below 1000 a tick lets no vehicle
  through, so queues never drain; routing sends on more vehicles than left.

## 6. Not modelled

* The expression evaluator and the built-in functions (`eval_expr.rs`, most of
  `api/mod.rs` and `evals.rs`): they find operators by searching the text and work
  on characters and floats. Their control (which statement runs next) is in
  `Walker`; for their data tests are the right tool. Cutting text into statements,
  destructuring, class declarations and closures' environments are left out with
  them.
* The heap (`context.rs`, `value.rs`): a bump allocator that frees nothing. Its
  limit is the memory of a script runtime in `Server`.
* Argument errors and error texts (one unknown command in `Server` stands for
  them), formatting of floats, typed arrays, `\u` escapes.
* The embedded core executor and the WASM binding: the same commands on one `Db`
  without connections.
* The per-type tables of a snapshot, and FLUSHALL in `Persistence`. A stream whose
  entry was deleted numbers a later entry the same (`store.rs` 1444), which a
  snapshot of that table then refuses; this waits for those tables.
* The command-line programs, benchmarks, the web demo and the build scripts.

## 7. Running it

    tlc -workers 2 -config Keyspace.cfg MCKeyspace
    tlc -workers 2 -config HashStore.cfg HashStore
    tlc -workers 2 -config ShardLocks.cfg MCShardLocks
    tlc -workers 2 -config PersistLog.cfg Persistence
    tlc -workers 2 -config PersistSave.cfg Persistence
    tlc -workers 2 -config Server.cfg MCServer
    tlc -workers 2 -config Algorithms.cfg MCAlgorithms
    tlc -workers 2 -config TrafficLab.cfg MCTrafficLab
    tlapm HashStoreProofs.tla
    tlapm ShardLocksProofs.tla
    tlapm PersistenceProofs.tla
    tlapm KeyspaceProofs.tla
    tlapm ExpiryProofs.tla
    tlapm ServerProofs.tla
    tlapm ScanProofs.tla
    tlapm TrafficLabProofs.tla

Each run takes between a second and two minutes, each module of proofs between a
few seconds and some minutes.
