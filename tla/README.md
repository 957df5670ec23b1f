# A specification of prisma-pglite-bridge

`prisma-pglite-bridge` lets `pg` clients (a pool for Prisma, or any TCP client) talk
to one in-process PGlite. PGlite runs **one** PostgreSQL session, so every client
shares it: transactions, open portals and prepared statements of one client are
visible to all the others unless the bridge keeps them apart. Nearly everything that
is hard in this code follows from that.

The modules here model the part that keeps them apart, the byte streams on both sides
of it, and the operations that store and restore the database, translated from the
source under `src/src/`, and state what each must guarantee. TLC checks them on small
instances; TLAPS proves the safety properties of the lock, of the server's duplexes and
operations, of the pool's clients and `end()`, of statement caching, of a duplex's framing,
of the snapshot operations and of migrations for every value of the constants (section
*Proofs*).

## Inventory

| Component | State | Operations | Interacts with | Must hold |
|---|---|---|---|---|
| `SessionLock` (`utils/session-lock.ts`) | owner, wait queue, pending `acquire()` promises | `acquire`, `hold`, `release`, `updateStatus`, `cancel` | every duplex, server operations | no lost wakeup, one claim per bridge, first come first served |
| `PGliteDuplex` (`duplex/index.ts`) | phase, input, drain loop, last status, portal flags, recovery, memoized rollback | `_write`, drain, `_final`, `_destroy`, `releaseAbandonedPortalHold` | lock, PGlite's mutex, the Writable | frames run only as owner and in no sibling's transaction; teardown leaves nothing behind |
| `PGliteServer` (`pglite-server/index.ts`) | listening socket, sockets, session operations and their timers | `listen`, `resetDb`/`snapshotDb`/`resetSnapshot`, `close` | one duplex per socket, lock | operations run alone, time out cleanly |
| `PgBridgePool` (`pool/index.ts`) | live pools, pending teardowns, statement registry | `connect`, `release`, `end` | `pg-pool`, clients | next borrower finds a clean client; `end()` waits for teardowns, bounded |
| `PgBridgeClient` (`pool/pg-bridge-client.ts`) | submission chain, timeouts, statement caches, pending closes | `query`, rollback cleanup, eviction | `pg.Client`, its duplex | submission order, cleanup judged at the right moment |
| Statement names and registries (`utils/statement-names.ts`, `pool/session-registry.ts`, `pool/deallocate.ts`) | per-SQL counts, names, LRU order, clients of a session | promote, evict, propagate `DEALLOCATE` | clients | a parse-skipped Bind finds its statement |
| `BackendMessageFramer`, `FrontendMessageBuffer` (`duplex/`) | partial header, held `ReadyForQuery`, chunk queue | `write`, `flush`, `push`, `consume` | duplex | the same frames whatever the chunking |
| COPY capture (`duplex/index.ts`) | captured bytes, overflow | capture, synthetic answers | duplex | one answer per conversation, cap exact |
| `PGliteBridge`, `SnapshotManager` (`pglite-bridge/`) | serialised chain, snapshot schema | `resetDb`, `snapshotDb`, `resetSnapshot`, `close` | PGlite, pool | old snapshot or new one, never neither; a failed restore changes nothing |
| Migrations (`schema/migrations.ts`) | migration history table | `applyMigrations`, `pushMigrations` | PGlite | no migration is marked that did not run |
| Telemetry (`telemetry/`), query trail (`pool/query-trail.ts`) | counters, ring buffer | record, freeze, snapshot | server, clients | frozen counters do not move |
| Seams, parsers, errors, benchmarks, fixtures | none | | | |

Hard behaviours, each with its line in `PROJECT.json` under `hazards`: writes that
arrive while a drain is under way and start a nested one; the three activities of a
duplex that interleave with its drain (recovery, teardown, rollback) over a mutex they
share with every sibling; state judged before an `await` and used after it; teardown by
four paths in any mix; a client recycled with work in flight; the expiry of a session
operation racing its grant; `close()` and `end()` called while anything of this is under way;
statement names evicted while in use; crashes and failures between any two statements of a
snapshot operation or a migration; requests and responses cut into chunks anywhere.

## Modules and their correspondence to the code

```
SessionLine              what the lock promises
   ^ implements (checked and proved)
SessionLock              the lock                     MCSessionLock
   ^ extends
Duplex                   duplexes + PGlite's session and mutex
   |                     (proofs of both: DuplexProofs)
   ^ extends                ^ extends
PGliteServer             PoolClients                  MCPoolClients
MCPGliteServer              ^ extends
ServerProofs             PoolEnd                      MCPoolEnd, PoolProofs

StatementCache           the session's prepared statements
                                                      MCStatementCache, StatementCacheProofs

Messages                 message codes and frames
   ^ extends                ^ extends
FrontendBuffer           BackendFramer                CopyIn   which queries are a COPY
   ^ extends                ^ extends                    ^ extends
Wire                     a duplex between a client's bytes and PGlite's   MCWire
   ^ extends
WireProofs               on top of FrontendBufferProofs

SnapshotStore            what the snapshot operations promise
   ^ implements (checked and proved)
Database                 one session over a persistent database
   ^ extends                ^ extends
SnapshotManager          Migrations
   ^ extends                ^ extends
PGliteBridge             both, a pool client, and crashes     MCPGliteBridge
   ^ extends
PGliteBridgeProofs       who has the session, migrations
   ^ extends
SnapshotProofs
```

**SessionLine** is the abstract specification: one first-come-first-served line, the
first bridge in it holds the session.

**SessionLock** has one action per method. No method awaits, so each is atomic; the
promise `acquire()` returned is the state `acquired`. The refinement mapping is
`lockLine`, the owner followed by the wait queue.

**Duplex** is the bridge. A step is the code between two awaits. `drain` is the
program counter of the drain loop (`processMessages`, `acquireSession`, `runExclusive`,
`streamProtocol`); `recovery` is that of `deliverRecoverySync`; `rollback` that of the
memoized `rollbackPromise`; `phase`, `tornDown`, `final`, `closed` are the ways a
stream ends. `input` is what the current drain has framed; `buffered` is what the
Node Writable holds back until the outstanding write calls back, which is what starts
a nested drain in `DrainEnd`. PGlite is external: its mutex is a queue of jobs with at
most one `busy`, its session is `xact`, whose value `implicit` is the transaction an
open portal keeps alive outside any `BEGIN`. Response frames are abstracted to the
status of the final `ReadyForQuery` (`onReadyForQuery`) or to its absence (a clean Flush
batch, or an errored one that PGlite answers without one unless `AllErrorsAnswered`).

**PGliteServer** adds sockets, whose clients send any frames they like and leave in any
way, and `#withSession`: fail fast on an open transaction, wait, expire, count again,
run, release. `close()` is a phase of its own (`closing`): it cancels the operations that still
wait, awaits the running ones, destroys the sockets that are left, awaits their duplexes
(`awaited`) and closes PGlite. The ghost `robbed` is explained under *Observations*.

**PoolClients** adds what a `pg.Client` does over its duplex: one active query, a queue
behind it, cursors that read, park, exhaust and close, and the pool's release listener:
`releaseAbandonedPortalHold`, then `rollbackAbandonedTransaction` with its cleanup link
at the end of the submission chain. `openedIn` is a ghost that names the checkout whose
frame opened the current transaction; `openedBy` (in Duplex) names the duplex. The `ROLLBACK`
of a cleanup link is subject to pg's own `query_timeout`, which destroys the duplex
(`CleanupTimesOut`).

**PoolEnd** adds `PgBridgePool.end()`: the latch of the first call, a second call with a callback,
pg-pool ending its clients one by one as they come back, the barrier over the teardowns of every
client ever made (`pendingTeardowns`), its ten-second bound, and the release of the live slot
(`freed`), at once or after the drain.

**StatementCache** is about the one namespace of prepared statements behind all clients. The
session's side is `prepared`; each client's side is the generator (`counts`, `names`,
`seq`, lists in LRU order), pg's parse-skip cache (`parsed`), the fields cache and the evicted
names whose Close is due. A text's sighting is one of `Hit`, `Count` and `Promote`; `enqueue` is
the call to `query()`, `submit` the moment it is written: Parse is decided there, long before
the batch executes. `flush` is `#flushPendingCloses`, which an ordinary query calls when it is `handed`
to pg: at its submission, when its turn comes, or, behind Submittables alone, before it is
written, for those go straight to pg without extending the chain or flushing anything. `pipeline` is the duplex holding Closes back until the
next extended batch, so simple queries overtake them. `Deallocate` and `Evict` are the execution
of a `DEALLOCATE` and its propagation; a Submittable does both at once. `TimedOut` is a
`query_timeout` that expires while the query waits in the chain; one that expires later changes
nothing but what the caller is told, since chain and propagation go by the real completion. The session lock and the
mutex are the `line` of batches and the `holder` of the open transaction. Two ghosts record what
the properties excuse: `raced` marks a batch that was submitted before the `DEALLOCATE` of its
name was propagated, `revived` a name that a query waiting in the chain parsed again after its
eviction.

**Wire** is one duplex seen as bytes, alone. The client's conversation is written in chunks that
end anywhere; `FrontendBuffer` is the chunk queue with its head index, head offset and compaction,
and `Process` takes one message off it and does what the dispatch of `processMessages` does:
startup, extended batches up to Sync or Flush, Terminate, and the COPY capture with its cap and
its synthetic answers. `CopyIn` is the scanner that recognises `COPY ... FROM STDIN` in a query
text; `StartsCopy` beside it is PostgreSQL's own lexing, the reference it is compared with. PGlite's
reply arrives in chunks that end anywhere as well; `BackendFramer` takes a step per turn of
`write`'s loop. `received` is what the client got; `expected`, built from the uncut replies alone,
is what it should get. The conversations and PGlite's possible replies are constants;
`ConversationAssumption` and `ReplyAssumption` say what the code relies on of them: every
message has the length it declares or one the length check refuses, the last of a reply may also be
cut short, and a ReadyForQuery carries one status byte.

**Database** is PGlite as statements see it: `disk` is durable, `mem` is what the session sees, they
differ inside a transaction block only, and a crash resets `mem`. **SnapshotManager** is the three
snapshot operations, a step per statement, one operation after the other (`serialize`), any statement
of which may fail. **Migrations** is `pushMigrations` over a directory: the history row, the script,
the finished mark are separate steps. **PGliteBridge** puts both on one database with a pool client,
raw SQL, an operator who edits scripts or runs `prisma migrate resolve` (which marks a row as rolled
back, and with `--applied` inserts a finished one that carries the checksum the script has now),
`close()` and restarts of the process, the first of which may find a staging schema that somebody
left (`Leftovers`). **SnapshotStore** is what the operations promise: each takes its whole effect in one step
or none, in call order; the refinement maps `user` and `saved` to what is durable and `phase` to how
far each call got. `ran` counts how often a script was applied.

`PROJECT.json` `map` gives the source lines of each definition. Definitions commented
as mutants are plausible wrong versions of the one next to them, kept so that every
property can be seen to fail on one.

## Runs

| Run | Instance | Shows |
|---|---|---|
| `lock` | 3 bridges, methods called in any order, unbounded | `LockInv`, `ImplementsLine`; `AcquireSettles` under `LockFairness` |
| `server` | 2 sockets, 1 operation, 3 frames (a call of `close()` counts as one), 1 failing call, errors with or without `ReadyForQuery`, sockets symmetric | the seven safety properties of sockets and operations; `CloseWaits` |
| `pool` | 2 clients, 3 submissions (calls of `end()` count), 2 checkouts, 1 failing call, symmetric | the safety properties of recycled clients; `EndIsBarrier` |
| `pool_liveness` | 2 clients, 2 submissions, 2 checkouts | `DestroyedCloses`, `ReleaseFreesSession` |
| `statements` | 2 clients, 2 texts, capacity 1, named at the second sighting, 6 calls, symmetric | the clients' books describe the session; Binds find their statements; evictions free |
| `storage` | 2 tables, 2 migrations, 3 script texts, 2 snapshot calls, 3 history rows, 5 events of the environment | `SnapshotsAtomic` (refinement of `SnapshotStore`), `StagingOnlySwept`, `ClashExcused`, `SettingsScrubbedLast`; `FinishedMeansRan`, `NoScriptTwice`, `StopsAtInvalidHistory` |
| `wire` | 12 conversations with 2 cuts inside messages, requests and responses together; every query text of up to 4 lexemes before the phrase | `FramesIntact`, `AnswersFaithful`, `CopyWhole`, `AnsweredOnce` |
| five violation runs | the smallest instance that shows each | findings below |

*Why the bounds are enough.* Three bridges give the lock an owner and two waiters, the
least that distinguishes orders in the queue; the proof covers any number. Two duplexes
give an owner and a sibling; which sibling is next is the lock's matter. Three frames
suffice for a transaction opened, used and closed, or two batches and a Terminate; three
submissions for a `BEGIN`, a cursor and the query of the next borrower; two checkouts
for a borrower and its successor (or two borrowers on two clients). One failing call can
hit any frame. Six calls of `query()` promote two
texts (two sightings each), so that with capacity 1 the second evicts the first, and leave two for
the query that still waits under the evicted name and for a sibling's `DEALLOCATE` between them;
two clients give the issuer and the sibling whose books it changes.

In `storage`, two calls are a snapshot and the reset that uses it, or two operations of which the
second queues behind the first; `MaxTokens = 1` tells empty rows from written ones; a table may have
one column or two, so that drift goes both ways. An *event* is a call, a checkout, a client's
statement, raw SQL, a failure, an edit, a repair, a crash or the close: five allow snapshot, write,
crash or drift, reset, failure. The database starts without tables, with one, or with both, and
with or without a leftover staging schema that holds a table. The model stops at a clash, when a client's statement and an operation
meet in the session: `ClashExcused` says when that may happen and nothing is said of what follows.

In `wire`, `CompactAt` is 2 where the code has 32, so that the chunk index is compacted within a
short conversation; the cap of a COPY is exactly a copy of one small CopyData, so that conversations fill
it, pass it by a byte, and go on being discarded. Two cuts put a chunk boundary into a header and
another into a payload, or one into the request and one into the response; cuts at the ends of
messages are free on the client's side. Query texts are sent whole: the scanner sees only whole messages.
Four lexemes open, escape and close every kind of region (quotes, dollar quotes, comments,
escape strings) and nest one in another.

Counters that only serve as bounds (`sent`, `leases`, `submits`,
`faults`, `calls`) are capped by the constant of that name; nothing else is bounded.

Deadlock is not checked where clients may stop sending: a server at rest is not an error. The same
holds of a conversation that is over, and of a database nobody uses any more.

*Fairness.* `DuplexFairness` and `ClientStep` say that promise callbacks run and that PGlite
works off its mutex: a step of a duplex that stays possible is taken. Node runs every
queued callback and PGlite's calls return, which is what this needs. **Nothing is assumed
of clients or borrowers**: they may stop at any point, hold a transaction for ever or never
release. `PoolEnd`, `PGliteBridge` and `Wire` state no fairness: their runs check
safety only (that `end()` finishes is the bound of its timer). In the `lock` run alone, owners are assumed to give the session up at some time,
which is what the other runs establish for released and destroyed duplexes.

*The constant `Races`.* The runs of duplexes found five situations in which the code does not keep
what it says. Each is shown by a run that is expected to fail. The passing `pool` runs exclude four
of them by what borrowers may do (`MayQuery`, `MayRelease`; empty `Races`); the fifth
is named in the property itself (`NoForeignTransactionButPortal`, `DanglingPortal`). So
the passing runs say: apart from exactly these, the properties hold.

## Findings

1. `dangling_portal`: a connection lost while its portal is suspended *outside* a
   transaction sends neither `ROLLBACK` nor `Sync`, since the last `ReadyForQuery` said
   idle; the next bridge runs in the implicit transaction left behind.
2. `inherited_transaction`: a client released while its cursor's first batch is in flight
   inside a transaction gets no cleanup link; recovery ends the cursor, nobody the
   transaction, and the next borrower runs in it.
3. `spurious_recovery`: a deferred recovery request passes from the drain it was made for to
   a nested drain of the next borrower, whose live cursor is then closed.
4. `recovery_without_claim`: the recovery `Sync` is checked for ownership when requested, not
   when it runs; behind another `Sync` of the same duplex it executes without the session.
5. `abandoned_cursors`: one request per release; of two queued cursors only the first is
   recovered and the released client keeps the session.

`PROJECT.json` quotes the lines that say otherwise.

## Observations

Behaviour that the runs showed and that the properties name as their excuses.

*Server.* An operation whose grant and a `close()` fall into one turn is still among the waiters
(`#sessionWaiters`) when `close()` cancels them: its claim is released, it runs all the same, without the
session, and `close()` does not wait for it (`robbed` in `SessionOpAlone` and `CloseWaits`), although
`pglite-server/index.ts:266` has it that an operation that holds the session runs to completion
first. Nor does `close()` wait for the duplex of a socket that left `#sockets` before the sweep.

*Bridge.* The idle check counts clients out or waiting, not one just released with an open transaction
whose `ROLLBACK` is still to come (`excused`). A sequence that had not been used when the snapshot was
taken is not set back, and no sequence is when no user table is left (`Restored`). Two managers over one
PGlite are not serialised (documented), and the bridge's `close()` does not wait for the
snapshot chain.

*Snapshots.* Code and comments disagree about crashes. `snapshot-manager.ts:101` ("staging leftovers
from a hard crash mid-build"), the docstring at 172-173, `snapshot-manager.test.ts:69-70` ("a hard
crash mid-snapshotDb on a persisted dataDir leaves `_pglite_snapshot_new` behind") and
`CHANGELOG.md:456` expect a crash to leave the staging schema. The code makes, fills and renames it
between one `BEGIN` and its `COMMIT` (`snapshot-manager.ts:105-159`), so a crash leaves nothing of it:
the first conjunct of `StagingOnlySwept`, under which a staging schema never becomes durable, says so
and holds. A leftover can only come from elsewhere: another release of the code, a hand, or a
`COMMIT` that somebody else sends over the same session during the build. The sweep that is there for
it works: in `storage` half of the initial databases hold a leftover.

*Pool.* A second `end(callback)` starts its ten seconds at once, whoever still holds a client, so its
callback may come before the first call is done; after the bound has expired nothing is claimed but that
the slot is given up once.

*Wire.* A simple query does not flush the extended messages before it: one sent behind a Parse
that no Sync has followed yet is executed first, and the Parse with the batch of the next Sync
(`Standalone` leaves `pipeline` alone, as `duplex/index.ts:685-711` does). pg ends its
batches with a Sync or a Flush; what is held back that way are the Closes that the bridge's client
adds, which `StatementCache` follows.

*Statements.* Two more are behaviour the code accepts, and are parts of the properties
rather than findings. A Bind whose batch was submitted before a sibling's `DEALLOCATE` executed
fails once (`raced`). And a query waiting in the chain under a name that a later call evicts
parses it again after its Close (the comment at `pg-bridge-client.ts:996` calls this self-healing);
the generator has forgotten the name, so no later eviction closes it and the session keeps that
statement beyond the capacity until it is deallocated (`revived` in `EvictedIsFreed`).

## Proofs

`DuplexProofs` begins with the lock, for any set `Ids` and under `NoOwner \notin Ids` only:

* `LockInvariant`: `LockSpec => []LockInv`. `LockInv` is inductive as it stands because
  its parts are stated together: `OwnerNeverWaits` after a handover needs `WaitOnce` (the
  head of the queue occurs nowhere else), `PendingIffQueued` after a grant needs
  `WaitOnce` too, `NoLostWakeup` after `cancel` needs `OwnerNeverWaits`. There is one
  lemma per method, on top of lemmas about `Without` and the handover.
* `LockImplementsLine`: `LockSpec => Line!LineSpec`. A grant to a free session and an
  enqueue are both `Join`; a release is `Leave(1)`; a cancelled waiter at place `k` of
  the queue is `Leave(k + 1)`; re-entry, `hold` of a taken session and promise changes
  stutter.

It goes on with what every step of a duplex and of PGlite keeps, whoever drives the duplexes;
the assumptions are those that `Duplex` states of its constants. The parts of `DuplexInv`:

* `ClaimOK(d)`: the claim that `acquireSession` got for a frame stays with the duplex while the
  frame waits for the mutex and executes, even when the duplex is destroyed meanwhile, since `_destroy`
  awaits the call in flight and any `ROLLBACK` before it cancels the claim. Together with the parts about
  recovery and rollback it gives `ExecutesAsOwner` for every call in PGlite, with no exception.
* `XactInv`: a duplex whose last status is not idle is the owner, and knows what PGlite has open. That is why
  a sibling's release cannot free the session under a transaction (`TransactionHeld`,
  `NoForeignTransactionButPortal`).
* `RollbackOK(d)`, `StreamOK(d)`: where teardown stands. A duplex is closed only after its memoized
  rollback is done and its claim given up (`GoneLeavesNothing`).
* `RecoveryOK(d)`: a recovery `Sync` is under way only while its duplex has nothing else to do and has the
  session. A released client can break this by racing its own response, which is finding 4.
* `JobsInv`: every call in PGlite's mutex is one that its caller waits for, and is there once.

Lemmas say once what a step of one duplex leaves of its siblings (`OthersClaim`, `OnlyMoves`), what a
release or an enqueue does to the lock, and what a job does to the mutex; each handler then has a
lemma of its own. Two modules add what their clients do.

`ServerProofs` proves the eight safety properties of the run `server`, for any sets of
sockets and operations and any number of frames, failures and calls of `close()`. `ServerInv`, checked
by TLC on the instance of the run first (1,996,329 states), adds `SessionOK(s)` and `ClosingInv`: an
operation that runs is the owner or was robbed; what `close()` awaits is what it swept, and only
that (`SessionOpAlone`, `CloseWaits`). In a server nothing requests a recovery (`NoRecovery`).

`PoolProofs` proves the eight safety properties of the run `pool`, for any number of clients, checkouts,
submissions and faults and any moment of `end()`, under the hypothesis `Races = {}`: no borrower does
what the four findings about pool clients need; for other values the theorems would be false, as
their runs show. TLC checked the invariants on the instance of the run first (2,856,519 states):

* `OneFrame(d)`: a live client has one frame under way at most, and it is that of pg's active query. This
  ties the drain loop to pg's queue; without it no response could be told from another's.
* `PortalOK(d)`: a suspended portal is one of pg's active cursor and keeps the session; a recovery is
  one of a parked cursor whose borrower has gone (`RecoveryFindsPortal`, `RecoverySparesBorrower`). The part
  about a *requested* recovery, which the next borrower may inherit, is what makes it inductive.
* `LeaseOK(d)`, `UnmadeOK(d)`: leases only grow; a client never checked out is untouched.
* `EndOK`: the slot is freed once, and after the teardowns. `EndIsBarrier` follows with `XactInv`.
* `CleanInv`: the argument for `NoInheritedTransaction`. From the submission of a `BEGIN` on, its transaction is
  *guarded*: nothing of another lease stands behind it in the client's queue without a cleanup link or its
  `ROLLBACK` in between, and once its borrower has let go there is such a mark (`Guarded`,
  `Covered`, `HasMark`). So what runs in an open transaction is of the lease that opened it
  (`OfOne`), and the property follows because what PGlite executes is what pg has active, even behind a
  teardown (`ServedOK`). The release listener's two conditions for skipping the link are where
  the proof needs that portals and chains say what is open (`ReleaseClean`), and
  the link's own verdict, that a chain before it has settled (`CleanupLinkClean`).

`StatementCacheProofs` proves the six properties of the run `statements`, from `CacheAssumption` (the
clients are finitely many, `Nobody` is none of them, the wipe of a connecting client is no text of the
program). `CacheInv`, checked by TLC first (2,045,034 states), has these parts:

* `BooksOK(c)`: what is in `parsed` and no longer in the session is covered by the `DEALLOCATE` being
  propagated; what is in the session and not in `parsed` has its Close under way; what is in `parsed` is
  `Accounted` for, that is, a name of the generator, one waiting for its Close, or one parsed again.
  `CachesTruthful` and `EvictedIsFreed` follow at once, but neither is inductive: a response
  disturbs the one where a Close rides along, a promotion the other.
* `BindOK(b)`: a batch without Parse binds what the books have, or was overtaken. It must hold from
  submission to execution, across whatever evictions and responses come between.
* `LineInv`: a batch is the head of its live client's chain, so a client has one in the line, and what
  an extended batch did not take the duplex holds no longer.
* `NamesInv`: every name in use was numbered before the generator's counter and stands for one text.
  `NamesMeanOneText` needs it for names that have left every list and live on in a chain.
* `ConnectInv`: the wipe of the first client is first in the line with no transaction before it.

`WireProofs` proves three of the five properties of the run `wire`, for any conversations and
replies that satisfy the two assumptions, any chunks of either, any `CompactAt` and any cap, under
`NoTypeAssumption` (`NoType` is no byte). `FrontendBufferProofs` has what it rests on: lemmas about
flattening, cutting and joining runs of bytes, and that `push`, `compactChunks`, `readUInt32BE` and
`consume` do to `Contents(b)`, the bytes that a buffer stands for, what they would do to a plain
string of bytes. The loops of the code are recursive functions over the naturals here; that they exist and what
their turns keep is proved by induction in the form of a set (`NatSetInduction`, from the
well-foundedness of `Nat`). Three invariants, each inductive only with the one before:

* `FrameInv`: the bytes taken and the bytes kept are the bytes written, what was taken is the first
  messages of the conversation (`TakenPart`), and where the duplex waits nothing whole is left
  (`NothingWhole`). `FramesIntact` follows. The step that matters is `ProcessTakes`: the header read
  at the head of the buffer, perhaps over several chunks, is that of the next message, which needs
  that each message has the length it declares.
* `TypeInv`: what the framer holds depends on where in a message it is (`HeldFits`), and a capture is
  within its cap (`CaptureOK`). `WireTypeOK` follows; `Len(header) <= 4` alone is not inductive.
* `AnswerInv`: between calls the client has exactly what it should (`AtRest`); during one there is
  a byte of PGlite's reply up to which it was framed, `Between` two messages or `Within` one, in its
  header or in its payload, and each of the four things the framer does with a payload (hold a
  ReadyForQuery, gather a RowDescription, drop a first CopyInResponse, forward) is tied to how far the
  message was read; after a refusal the client has a beginning of it (`Starts`). TLC checked the
  invariant on a small instance before it was proved. `AnswersFaithful` follows. Each turn of
  `write`'s loop has its lemma (`WholeFrameAnswers` to `WriteEndAnswers`), as have the start of a
  call (`streamProtocolAnswers`) and its end (`ReturnAnswers`), where a held ReadyForQuery is
  forwarded or not.

Over the storage modules:

* `PGliteBridgeProofs` has `SessionInv`, who has the session. At most one call runs (`OneAtATime`) and
  sends the statements of its own operation; a transaction block is the running call's or the
  client's and without one the session sees what is durable (`BlocksOwned`); `pushMigrations` is
  alone. With it: types, `ClashExcused`, and the action
  properties `StagingOnlySwept` and `SettingsScrubbedLast`.
* It ends with `HistoryInv`: the history agrees with what ran (`RanRecorded`), across a crash
  between the script and its mark, operators' edits and repairs; and the first script of a history
  runs in a database without tables (`FromEmpty`). With it: `FinishedMeansRan`,
  `NoScriptTwice`, and the action property `StopsAtInvalidHistory`. Assumed: there is a script text,
  and each migration's table is one of the tables or none.
* `SnapshotProofs`: `SnapshotsAreAtomic`, the refinement of `SnapshotStore`. `CopyOf(c)` and `RestoreOf(c)` say
  how far the statements of call `c` got and what the session holds of them, `DataInv` what holds
  whoever runs. Only `COMMIT` (or the single statement of `resetSnapshot`) maps to a step of the
  store; every other statement, failure, crash and restart stutters. TLC checked both first
  (2,426,482 states).

Only model-checked:

* liveness (`AcquireSettles`, `DestroyedCloses`, `ReleaseFreesSession`), which with `ENABLED` is
  outside the prover's reach;
* `CopyWhole`, which compares the scanner of `CopyIn` with PostgreSQL's lexer: a theorem would be that the
  two agree on every text, an induction over texts that relates two recursive functions with
  different regions. The run compares them on every text of up to four lexemes;
* `AnsweredOnce`, which counts: it holds because each reply of PGlite has the one ReadyForQuery its
  protocol asks for, which would be an assumption on PGlite, not something the code does.

## What the models leave out

* The startup handshake is a query like any other: it takes the session and ends idle.
* In `Duplex` multi-frame chunks and batches are one frame each, answered by one status; `Wire` has the
  splitting, the held `ReadyForQuery` and the intermediate ones. Whether PGlite emits one before the
  `BEGIN` of the same batch (`duplex/index.ts:304`) cannot be told from `src/`.
* A call that throws does so before PGlite acted. The failure of the inner `Sync` after an
  errored batch is folded into the failure of the call.
* `ROLLBACK` always leaves the session idle.
* `pg` reacts to a response (at most three promise hops) before the drain loop, which has
  PGlite's call, the mutex and its own awaits to return through, goes on; and a checkout
  settles after the jobs a release left behind.
* `StatementCache`: user-chosen statement names; `DEALLOCATE` texts the bounded decoder does not
  recognise (they run unchanged and evict nothing, as documented); stock `pg.Query`'s own Close
  after a failed Bind; client failures other than `end`. A propagation follows its `DEALLOCATE`
  before the next batch starts: it is at most three promise hops away, the next batch at least the
  rest of the call, the mutex and `waitPGliteReady`.
* A call of `query()` made from inside another one is taken as the call that follows it, which is what
  the reservation in the submission chain is for; the suppression of the connection's own timeout is
  left out with it.
* Pools of one client, which share the session with nobody and have no lock; the counter of live pools
  but for one pool's share, and the warning it serves. pg-pool may learn later than the model that a
  client is gone.
* Server: `listen()`, the SSL and GSS prelude of a connection.
* Storage: a table is its column count and a token for its rows; foreign keys, types and SQL text are
  left out. So is baselining with `prisma migrate resolve --applied` (no row before it). A script is
  applied whole or not at all, so scripts with their own `COMMIT` are not covered, nor files of mixed
  line endings, the `sql` option of `pushMigrations`, `hasMigrations`, `hasSchema` and `pushSchema`,
  whose schema engine is external. Construction of the bridge, its leak registry and its telemetry
  accessors.
* Wire: a field of a RowDescription is its relation and its type. Not covered are a
  RowDescription without fields cut at its last byte, `ReadyForQuery` frames of another length, statistics,
  `standard_conforming_strings = off`, and characters outside the small alphabet of `CopyIn`.
* Not modelled at all: the query trail and telemetry, which only diagnostics read (a record that
  settles late, counters frozen while operations finish); the seam that checks pg's private
  fields, parsers, error types, test helpers, benchmarks and fixtures, which have no state of their own
  or are not part of the library.

## Plan

The plan was followed in this order, and is complete but for what is named here:

1. Lock and line; duplex; server operations and `close()`; pooled clients; the lock's proofs.
2. Statement caching with query timeouts. Not done: the reservation of a re-entrant `query()`
   and the suppressed connection timeout.
3. Wire: chunk queue, framer, COPY capture and scanner, over cut conversations and answers.
4. Storage: snapshot operations against `SnapshotStore`, migrations with crashes; the pool's
   `end()` barrier and live slot. Not done: query trail and telemetry (late settles, freeze).
5. Proofs of the safety properties of server, pool, statement caching, storage and wire, with the
   exceptions named in *Proofs*.
