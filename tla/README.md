# A TLA+ model of the Reliquiae node

Reliquiae is a blockchain node of the Bitcoin/Elements family: it keeps a UTXO
set and a tree of blocks, follows the valid chain with the most work, claims
coins pegged in from a parent chain, and relays transactions and blocks. This
directory holds TLA+ modules that model its parts, the TLC configurations that
model-check them on small instances, and proofs of the main results for every
instance, checked by TLAPS. The code is in the repository's `src/`; file names
below are relative to it.

    tlc -config CoinsCache.cfg MCCoinsCache      # one run; see the table of runs
    tlapm CoinsCacheProofs.tla                   # one module of proofs

`PROJECT.json` lists components, runs, properties and their mutants (changed
definitions that a property has to notice), the source lines of every
definition, the hazards, the findings and the theorems; there the checkout is `src/`, so
that the code is under `src/src/`.

## The system and its parts

| Part | State | Operations | What is hard about it | Module |
|------|-------|------------|-----------------------|--------|
| Coins caches (`coins.cpp`) | maps of entries with DIRTY, FRESH and PEGIN flags at each level, a lazily known best block, a usage counter | lookups, AddCoin, SpendCoin, SetPeginSpent, Flush/BatchWrite, Uncache | flags decide what a flush may forget; two levels; reads fill both | `CoinsCache`, `UtxoView` |
| Coins database, block index on disk, block and undo files (`txdb.cpp`, `validation.cpp`, `node/blockstorage.cpp`) | coins, peg-in flags, best block, head blocks; status and undo data of blocks | ConnectBlock, DisconnectBlock, FlushStateToDisk, BatchWrite in several batches, ReplayBlocks | a crash between any two writes, also during the repair | `ChainRecovery` |
| Block index and best chain (`validation.cpp`) | candidates, unlinked blocks, failure flags, active chain, sequence numbers | AcceptBlockHeader, AcceptBlock, ActivateBestChain, InvalidateBlock, ResetBlockFailureFlags, PreciousBlock, LoadBlockIndex | `cs_main` is released in the middle of most of them; peg-ins that the parent daemon does not confirm | `BestChain` |
| Script check queue (`checkqueue.h`) | a queue of checks, idle, total and to-do counters, a verdict | Loop of workers and master, Add, Wait, start and stop of the pool | lost wake-ups; verdicts of one block in another | `CheckQueue` |
| Scheduler and validation events (`scheduler.cpp`, `validationinterface.cpp`, `init.cpp`) | tasks by time, pending events, a running flag, reference-counted subscribers | serviceQueue, schedule, ProcessQueue, Register, Unregister, Iterate, Sync, Shutdown | serial order with several threads; subscribers that leave while called; who is joined when | `Callbacks`, `EventQueue` |
| Mempool (`txmempool.cpp`) | entries, spent outpoints, ancestor and descendant sums | add, remove for block, reorganisation, parameter transition | many indices of one set; peg-in conflicts; transactions that come back below their children | `Mempool` |
| Transaction download (`txrequest.cpp`, `txorphanage.cpp`) | announcements with a state each; orphans by parent | ReceivedInv, RequestedTx, GetRequestable, ForgetTxHash | timeouts against late answers; best candidate per transaction; orphans in several indices | `TxRequest`, `TxRequestSpec`, `TxOrphanage`, `TxDownload` |
| Federation parameters (`dynafed.cpp`, `pegins.cpp`, `primitives/pak.cpp`) | functions of the chain | the vote over an epoch; parameters, fedpeg scripts and PAK list of the next block | boundaries of epochs; which block's rules apply | `DynaFed` |
| Deployments (`versionbits.cpp`) | functions of the chain, with caches | the state of a period | caches across forks | planned |
| Peg-in witnesses (`pegins.cpp`, `mainchainrpc.cpp`) | none | IsValidPeginWitness, IsConfirmedBitcoinBlock | the daemon may be behind or away | an answer is an input of `BestChain`, the scripts are in `DynaFed` |
| Address manager, bans (`addrman.cpp`, `banman.cpp`) | new and tried tables; bans and a dirty flag | Add, Good, ResolveCollisions; Ban, DumpBanlist | long sequences; concurrent dumps | planned |
| Indexes (`index/`) | best indexed block, synced flag | ThreadSync, BlockConnected, Rewind, Commit | hand-over from thread to events | planned |
| HTTP work queue (`httpserver.cpp`) | bounded queue | Enqueue, Run, Interrupt | stop while requests run | planned |
| Peers (`net.cpp`, `net_processing.cpp`), wallet (`wallet/`), block assembly (`miner.cpp`), signature cache (`cuckoocache.h`) | large | | | later, in part |

Script and transaction checks, commitments, cryptography and encodings are
sequential functions over bytes: in the modules a check holds or fails, as a
constant says. Vendored libraries, the graphical interface, RPC formatting and
logging are not modelled.

The parts interact along the life of a block. Its header and data enter the
block index (`BestChain`); activating it runs its script checks (`CheckQueue`),
changes the coins through a view over the cache (`CoinsCache`) and tells the
subscribers (`Callbacks`); a flush makes it durable (`ChainRecovery`). Transactions
are fetched from peers (`TxDownload`) into the pool, which follows the chain
(`Mempool`). Each
module takes its neighbours by what they promise: `ChainRecovery` sees one UTXO
map, which is what `CoinsCache` is shown to implement; `BestChain` sees a block
whose connection succeeds, fails or stalls; `TxDownload` sees an acceptance with a
verdict and the set of transactions accepted.

## The modules

### UtxoView, CoinsCache

`UtxoView` is what the coins views promise: one UTXO set, one set of spent
peg-ins and one best block, changed through a working copy that is committed or
dropped as a whole. `CoinsCache` is the code: `CoinsTip()` over the database,
and over it the view that ConnectTip and DisconnectTip make. Each level maps
outpoints and peg-ins to entries with flags; there is one action per operation of
`CCoinsViewCache` at each level, with the reads that fill both levels, the
FRESH/DIRTY rules of AddCoin and BatchWrite, eviction, and the exception that
BatchWrite throws on a misapplied FRESH flag (`FlushNeverThrows`). A coin is a
model value with a size. `cachedCoinsUsage` is one number per level, as in the
code: each path that adds or subtracts has an operator of its own
(`FetchCoinUsage`, `AddCoinUsage`, `SpendCoinUsage`, `BatchWriteUsage` with its
four branches, and the statements in Uncache and EmplaceCoinInternalDANGER), and
`UsageExact` compares it with the sum over the map. Two of these paths count
exactly only because of their callers: AddCoin subtracts before it throws over an
unspent coin, and EmplaceCoinInternalDANGER adds even if the map has the key; the
callers rule both out, and so do the guards. `ImplementsUtxoView` reads the answers of the two
levels as the two copies of `UtxoView`.

Proved (`CoinsCacheProofs`, any finite sets of outpoints and peg-ins, any coins
and blocks):
the inductive invariant is `IInv`, types, `FlagsSound`, `UsageExact` and an empty
view when none is open. `FlagsSound` is the heart: a clean entry repeats what the
level below answers, and a FRESH one is over a level that has nothing. It is
inductive once it is stated for both levels against the level below, because a
read of the view changes the tip too. From it follow that no flush throws, that
Uncache and a flush to disk change no answer, and the refinement. `UsageExact`
rests on two facts about `SumFunction`, proved by induction on the number of keys:
the sum of a pointwise sum (`SumPlus`), and of a function that is zero but for one
key (`SumPoint`); with them each path's statements are compared with the change of
the entry it writes (`FetchCoinCounted` and its like).

### ChainRecovery

Memory (`view`, `best`, `index`) and disk (`rev`, `diskIndex`, the coins database
with its best and head blocks) are apart. FlushStateToDisk writes the block index,
unlinks pruned files and starts the coins flush; every batch is a step
(`WritePartialBatch` with any subset of the keys, `WriteFinalBatch`), and `Crash`
may come between any two, also while ReplayBlocks writes its result. A coin is the
height of its block, which is what undo data tells apart. ConnectBlock,
DisconnectBlock and RollforwardBlock are loops over the transactions of a block, and
ReplayBlocks is a loop down the old chain and one up the new chain; each loop is a
recursive function of its position (`ConnectTxs`, `DisconnectTxs`, `RollforwardTxs`,
`RolledBack`, `RolledForward`), so the undo data is what the code's loop makes of it.

Proved (`ChainRecoveryProofs`, any finite block tree, any transactions). `ReplayInv` is
inductive without pruning: the block index on disk is closed under parents and has the
data of every block the coins database names, and the heads are those of the flush under
way. Hence start-up always finds what it needs (`ReplayAlwaysPossible`) and the
assertion in BatchWrite holds (`OldHeadsAssertHolds`).

`CoinsInv` is inductive with or without pruning: undo data on record is what connecting
the block to its parent's coins gives (`UndoOK`), each coin of a database in transition is
the old head's or the new head's (`DatabaseOK`), and the view has the coins of its best
block (`ViewOK`). The step that matters is ReplayBlocks, and the argument is the one the
comment at `validation.cpp:4493` hints at. Let two states go through the same writes; at
each outpoint they then agree, or neither has changed there (`Agree`). A write sets a coin
to a value that does not depend on what was there, so `Agree` survives every transaction,
every block and both loops. Run from the old head's coins, the replay ends at the new
head's coins, because disconnecting undoes connecting (`DisconnectUndoes`) and rolling
forward connects. Run from the database, it ends at the same coins, except perhaps where
nothing was written; there the old and the new head have the same coin, and the database
can have no other. This gives `CoinsAlwaysRecovered`, and with `ReplayInv`
`TipAlwaysDisconnectable`. Since the prover has no induction over data, the loops are
reasoned about by the least position, or the lowest block, at which a set fails to hold
(`LoopInduction`, `TreeInduction`).

The hypotheses are where the code stops being right. Peg-in marks are lost by a replay
(`recovery_pegins`), and then the tip is not undone cleanly. Genesis outputs, on chains
that connect them (`connect_genesis_outputs`), are not applied again by a replay of the
first flush, which starts at height 1 (`validation.cpp:4500`): with `GenesisOutputs` TRUE
TLC finds `CoinsRecovered` violated. With pruning the undo data of the tip may be gone.

### BestChain

One tree of blocks, some of which cannot be connected, are malformed, or claim
peg-ins the daemon does not know yet (`Unripe`). `m_cs_chainstate` makes
ActivateBestChain and InvalidateBlock exclude each other; the stretches under `cs_main`
are the actions, so headers, blocks and commands come in between exactly where the
code releases the lock. FindMostWorkChain, ActivateBestChainStep and the handling of
an invalid block are one action per decision. The comparison of candidates has the
sequence number and the address as the code has. The invariants are what
CheckBlockIndex asserts, stated for the moments the code reaches, and more:
`TipIsMostWork` and `ForwardProgress` say what ActivateBestChain is for. The tree itself,
with the chain of a block as the least set that is closed under `pprev`, is in `BlockTree`,
which `ChainRecovery` shares.

Proved for every finite tree (`BestChainProofs`), in three layers. It begins with the facts
about trees (chains are linear, a chain that leaves another never comes back, induction
along `pprev`) and about the comparison of candidates (a strict total order in which a
block beats its ancestors, hence Best exists). `IInv` holds under all commands, with
unripe, invalid and malformed blocks: linked blocks are closed under parents, candidates
are linked and not worse than the tip even while `cs_main` is held, and a target kept
across a release of `cs_main` is above the tip and not failed. `TipNeverFailed` needs all
of that, since FindMostWorkChain looks for failures only on the part of a chain that the
active chain lacks.

`FlagsInv` adds that a failure flag has a cause and that sound blocks
with data are linked or waiting. It is about every step except reconsiderblock, which clears
flags of ancestors and leaves those of a sibling's descendants. `ExactInv` adds that the
blocks between a failed block and the cause are all failed, so that a block that was not put
in `m_blocks_unlinked` (its parent had failed) never has all data below it; invalidateblock
of a block that waits for data breaks it.

`SelectInv` is about the choice itself. A stretch under `cs_main` begins with a tip,
`startTip`, which stays sound; until it is beaten everything sound that is not worse than it
stays a candidate (`StartOK`), so the loop can always go back to it, and leaves only when
the tip is not worse. No good chain beats the target, except one that came after the target
was chosen, and whoever brought it owes a call of ActivateBestChain (`BestOK`). The
conditions are needed: after a stall `cs_main` is released on a worse tip; after
reconsiderblock ancestors are missing from the candidates; after two calls of preciousblock
between which the counter was reset, the tip's sequence id can become worse, and blocks that
had been pruned would have to come back (TLC shows this with `MaxPrecious = 2`).

### CheckQueue

Workers and master run Loop; an action is one stretch under `m_mutex` or one
execution of a batch. `Add`, `Wait`, the control object, spurious wake-ups, start
and stop of the pool are actions. Which checks a thread takes is left open.

Proved (`CheckQueueProofs`, any finite set of workers and checks, any batch size):
`QueueInv` says that `nTodo` is the number of checks that are queued, held or
executed and not yet accounted for, that no check is in two places, and that
`fAllOk` together with the verdicts threads still carry is the conjunction over all
checks executed so far. It is needed because `fAllOk` alone is wrong at almost every
moment. `CountInv` adds that `nTotal` and `nIdle` count the threads in the pool and in
the condition variables.

### EventQueue, Callbacks

`EventQueue` is a queue whose events are executed one at a time, in order, all of
them, except that the last may be left when it is closed. `Callbacks` is the
scheduler with its condition variable, `SingleThreadedSchedulerClient`, the list of
subscribers, the producers and Shutdown. An action is a stretch under one mutex.
Tasks are ProcessQueue calls, due at once, and one periodic task; `TimerDue` is the
clock. A notification of `notify_one` may go to any waiter, also to one whose time has
come. A producer is an iteration of ActivateBestChain: it waits when more than
`QueueLimit` events are pending, calls BlockChecked directly and adds an event. `Late`
are the producers joined after the scheduler has stopped. Shutdown's second flush
adds an event that is dropped, as its comment says. `m_list` is the set of its entries;
its order is the order in which they were put at its end (`born`), which never changes,
so an iterator is the entry it points to.

Proved (`CallbacksProofs`, any finite number of service threads, producers and
subscribers). The inductive invariant `IInv` has two layers. `StageInv` says where the
threads can be at each stage of Shutdown: once the scheduler is joined no service thread
executes anything, once the last producer is joined nobody but Shutdown adds events, and
after the second flush at most one event is pending. `DeliveryInv` says that at most one
thread executes an event and that it is the last one taken (`SerialOK`), that counts are
exact (`CountExact`), and how far each entry has been served (`CaughtUp`): a subscriber
in the list got all events up to the last one taken, except promises and except the one
under way if Iterate has not reached its entry. `CaughtUp` is what makes
`DeliveredInOrder` inductive, and it needs the counts, because only the count of the
entry Iterate is at keeps that entry's place in the list. `QueueRefined` maps the steps
to those of `EventQueue`: adding an event to Add, the ProcessQueue that takes one to
Begin, the end of a callback to End, the destruction of the queue to Close, and every
other step to a stutter. That all events are executed is liveness and model-checked.

### TxRequest, TxOrphanage, TxDownload, TxRequestSpec

`TxRequest` has the announcements of one hash: a state for each peer, and the
operations of `TxRequestTracker` on them. `TxOrphanage` has the orphans with the three
indices over them. `TxDownload` ties them together as PeerManager does: inv, tx and
notfound messages, SendMessages, orphans that are tried again, the filters of rejected
and confirmed transactions, peers that leave, and the BlockConnected event, which takes
its locks one after the other. An action is what runs under one hold of `cs_main`.
`due` abstracts the comparison of times with the clock, which may go backwards.
AcceptToMemoryPool is seen through its verdict. When inputs are missing it calls a
transaction known only if one of its outputs happens to be in the coins cache
(`validation.cpp:718`), so for a confirmed transaction the verdict is open. The rolling
filters are sets without false positives; `RecentCoin` says which older transactions the
filter of confirmed ones holds at the start. Transactions enter the mempool from peers
only. The counters per peer (`m_peerinfo`) are computed from the
announcements, and the order in which one call of SendMessages makes its requests
(`m_sequence`) is left open.

`TxRequestSpec` states the rules at the head of `txrequest.h` for one hash:
a request goes to the best candidate that is due, while no other request is outstanding,
and an announcement that failed is not tried again. `TxDownload` implements it for
every hash.

Proved (`TxDownloadProofs`, which begins with lemmas about the row of one hash; any peers,
hashes, transactions and priorities): the tracker passes SanityCheck after every step and
implements `TxRequestSpec`. The inductive invariant `TrackerInv` is `TrackerSane` with types
and one fact more: while SendMessages works through its list nothing is left for the clock
to move, so no announcement on the list loses its place. The argument goes hash by hash:
every operation takes a sane row to a sane row, because ChangeAndReselect looks for the best
ready announcement exactly when the selected one goes.

The orphanage keeps its three indices in step, and an orphan whose parents were all accepted
is in the work set of a connected peer, unless that peer has left or a block brought a
parent (a parent submitted by RPC or put back by a reorganisation queues no orphan either,
and is not in the model). `OrphanInv` says that the list and the positions are inverse to
each other, that the index by outpoint lists exactly the inputs of the orphans, and that the
peer an orphan came from is connected. The loops that erase a set of orphans (for a peer,
for a block, for the limit) are folds over sets; the proof shows that such a fold has a run
for every finite set, by induction on its size, and that each step keeps the indices in
step. A known transaction is forgotten by the tracker: `KnownInv` says that a hash which is
an orphan's, in the pool or in one of the filters has no announcement, except for the
transactions of a block whose BlockConnected event is still under way. This needs
`AnnouncedByType` (peers with wtxid relay announce no txid of a transaction with a witness
and the others announce no wtxid: ProcessMessage drops an inv of the other type,
`net_processing.cpp:2952`, but has to believe the peer about the hash in it) and
`HashAssumption` (hashes do not collide, and outpoints are named by txids).

### DynaFed, Mempool

`DynaFed` is pure: a chain is a sequence of headers, and the vote, the parameters of the
next block, the fedpeg scripts and the PAK list are functions of it. An entry is one
value, which stands for its signers, scripts and PAK list together; a compact entry is
one that cannot be read, so that a look-up at the wrong height is noticed, and what it
commits to is not modelled (see below). The second
half of the module is the reference: what the votes decide (`Elected`, `VotesDecide`).
`start_p2wsh_script` is taken to be off: with it, the two functions encode the scripts of
the chain parameters differently.

`Mempool` is `CTxMemPool` with the chain it follows. Entries have their links and the
counts and fees of ancestors and descendants, kept by the same increments as the code
keeps them; `next` is mapNextTx. The actions are acceptance with replacement, one round
of TrimToSize, prioritisation, ConnectTip with removeForBlock, DisconnectTip with the
queue of transactions, and MaybeUpdateMempoolForReorg. A reorganisation is several steps
under one lock, so `phase` says where it is. Every transaction has size one; limits on
sizes and on the rate of fees are left out (which transactions policy lets in is the
constant `Standard`), and locktime and maturity of inputs are one height (`Matures`). The
parent daemon confirms every peg-in.

Proved (`MempoolProofs`, with the lemmas about chains in `DynaFedProofs`; any epoch length,
number of valid epochs, activation height and transactions): `ParamsFollowVotes` and
`NextBlockRules`. The inductive invariant is `ChainOK(chain)`: besides the result itself it
says that parameters are constant during an epoch and can be read at its start and in the
first block that has them, which is what the look-ups of
ComputeNextBlockFullCurrentParameters rely on; that nobody votes before the activation is
why the vote of the first epoch can be trusted. `NextBlockRules` then compares two walks
over epoch starts, one of them an epoch further.

## Runs

| Run | Instance | Shows |
|-----|----------|-------|
| `coins_cache` | one outpoint, one peg-in, two coin sizes and an unspendable one, two blocks | flags, usage, no throw, invisible eviction, refinement. Entries of different keys do not interact except in the usage sum; the proofs cover any number |
| `recovery` | six blocks, two branches; a transaction confirmed at different heights on either, and an output spent in its own block | coins, replay, undo and heads after crashes at any point, any number of them |
| `recovery_pegins`, `recovery_prune` | the same with a peg-in, with pruning | violations, see below |
| `best_chain` | branches of 2 and 3 blocks, one unconnectable block, one invalidateblock target, one preciousblock, one restart | what activation achieves, with liveness |
| `best_chain_operator` | invalidateblock and reconsiderblock of two blocks in any order and number, a malformed and an unripe block | the properties of flags and candidates, which survive every sequence of commands |
| `stall_forever` | the unripe block only | violation, see below |
| `check_queue` | two workers and the master, four checks of which one fails, batches of two, two blocks | verdict, counters, no lost wake-up, the pool stops |
| `callbacks` | two service threads, a producer of two events, two subscribers of which one is there from the start, a limit of 0 pending events | order, reference counts, refinement, shutdown, periodic task |
| `callbacks_shutdown` | one service thread and a late producer | violation, see below |
| `tx_download` | an honest peer and one that need not answer and may send notfound at any time, a parent with and without its witness, orphans of one and two parents, a block, an orphanage of two; the parents of confirmed transactions are in the filter | sane tracker, consistent orphanage, no orphan forgotten, nothing known requested, refinement, arrival |
| `mempool` | seven transactions: a chain of parents and children, confirmed in one block or in two, a replacement, two claims of one peg-in, a peg-out; epochs of three blocks of which two are valid | counts match links, the next block could take the pool, votes decide, reorganisations lose nothing, the rules agree |

Bounds: `MaxSessions`, `MaxSteps`, `MaxPrecious` and `MaxRestarts` bound how often an
agent starts anew; two of each are enough for one activity to meet the leftovers of
another. The limits of the code that are constants (batch size 128, 10 pending events,
288 blocks kept) are small values that are reached. `Callbacks` checks no deadlock
because the node may stop: after Shutdown nothing happens; nor does `TxDownload`, whose
peers may all leave. In `Mempool`, `MaxHeight` lets two epochs end, so that an entry is voted
in and the script of the genesis parameters expires; a pool of three, two descendants, three
ancestors and two disconnected transactions are limits that are met. Two of the fixed blocks
confirm what conflicts with the pool. The instance of `TxDownload` takes `RecentCoin` to be the
coin that the confirmed transaction spends; with `RecentCoin = {}`, where the parent of a
late copy of it is requested as well, the properties hold too (378,847 states, which
takes longer).

Fairness, where a run checks liveness:

- `BestChain`: a thread that owes a call of ActivateBestChain makes it (weak), calls run
  to their end (weak), and a block whose connection can succeed again and again is
  connected (strong; the daemon is not behind for ever). There is no fairness for the
  periodic call of ActivateBestChain: its scheduler has no thread. Operator commands may
  go on for ever, so `BestChainActivated` is about behaviours in which they stop.
- `CheckQueue`: threads in Loop run on, and the owner of a control object calls Wait, as
  its destructor does.
- `Callbacks`: threads run on, callbacks return, the clock advances. Producers, subscribers
  and the operator who stops the node owe nothing.
- `TxDownload`: the message thread visits every peer again and again, so SendMessages is
  called and finishes and work sets are emptied; the clock advances; validation events end;
  peers in `Honest` answer every request, with notfound only for what they do not have. The
  others owe nothing, and anyone may leave.

## Where the code and its comments disagree

Four runs are expected to fail; each is a finding in `PROJECT.json`.

- `recovery_pegins`: RollforwardBlock does not mark peg-ins as spent, so a crash between
  two batches can lose the mark (`validation.cpp:4437`).
- `recovery_prune`: files are unlinked before the coins flush that may need them in a
  replay (`validation.cpp:2385`).
- `stall_forever`: the 30-second call of ActivateBestChain is queued on a scheduler that no
  thread services (`init.cpp:1963`).
- `callbacks_shutdown`: the scheduler is stopped before the loading thread is joined, which
  may wait for an event (`init.cpp:220`).

Met while modelling and left without a run; the models do what the code does:

- The replay starts at height 1 and does not restore outputs of the genesis block on chains
  that connect them (`validation.cpp:4500`); the instances have none.
- A reorganisation that stalls on a peg-in releases `cs_main` on a tip with less work
  (`validation.cpp:2838`); `ForwardProgress` is checked without unripe blocks.
- After a reorganisation every peg-in and peg-out leaves the pool, also those that are still
  valid (`txmempool.cpp:511`, with a TODO); `ResurrectedKept` is about the others.
- `DynaFedParamEntry::operator==` leaves out `m_elided_root` (`primitives/block.h:156`), so the
  comparison at `validation.cpp:3467` accepts a compact entry with any commitment, although the
  comment at `primitives/block.h:64` says that it is validated. Nothing that decides which
  parameters are in force reads it, so `ParamsFollowVotes` and its theorem are not affected.
- With several service threads a task can run before its time, since the thread takes
  whatever is first after its wait timed out (`scheduler.h:43`); the node has one thread.
- reconsiderblock clears the flags of ancestors without making them candidates
  (`validation.cpp:3210`, `rpc/blockchain.cpp:1951`), and leaves BLOCK_FAILED_CHILD on the
  descendants of a sibling. So `TipIsMostWork` and `FailureHasCause` are checked without
  reconsiderblock.
- After a stall the tip is not among the candidates, which CheckBlockIndex would assert
  (`validation.cpp:4812`).
- The condition at `validation.cpp:3123` is never true, so every block that InvalidateBlock
  disconnects keeps BLOCK_FAILED_VALID.
- A block that arrives while InvalidateBlock has released `cs_main` is not a candidate when
  CheckBlockIndex runs at `validation.cpp:3146`.
- A block whose data arrives while its unlinked parent is failed is never linked
  (`validation.cpp:3297`). With invalidateblock of a block that waits for data,
  `UnlinkedExact`, which CheckBlockIndex asserts, fails: TLC finds the headers b1, b2, b3, the
  data of b2, invalidateblock b2, then the data of b3 and of b1. The run invalidates another
  block, and `UnlinkedAlwaysExact` is about nodes without invalidateblock.
- preciousblock resets its counter when the tip has more work than at the last call
  (`validation.cpp:3025`), so an earlier call may be forgotten. When a later call gives
  the tip a worse id than it had, blocks that now sort before it are missing from the
  candidates, which CheckBlockIndex would assert; `CandidatesComplete` is checked and proved
  for one call per amount of work.

## What is proved, and what is only model-checked

| Theorem | Module | Assumes |
|---------|--------|---------|
| `Invariance`, `FlagsAlwaysSound`, `UsageAlwaysExact`, `NoFlushThrows`, `EvictionsInvisible`, `Refinement` | `CoinsCacheProofs` | the sentinel values are not members of the sets; the sets of outpoints and peg-ins are finite and disjoint; sizes are natural numbers, and the null coin's is zero |
| `ReplayAlwaysPossible`, `OldHeadsAssertHolds` | `ChainRecoveryProofs` | a finite tree with one root; PruneMode is false |
| `RecoveryTypes`, `CoinsAlwaysRecovered` | the same | a finite tree with one root; the first transaction of a block, and no other, is a coinbase, and its transactions have different outputs; GenesisOutputs is false |
| `TipAlwaysDisconnectable` | the same | also: PruneMode is false, no peg-ins |
| `FailedBlocksAlwaysMarked`, `TipNeverFailed`, `CandidatesAlwaysSound`, `NeverRelabelled` | `BestChainProofs` | a finite tree with one root; distinct addresses |
| `FailuresAlwaysCaused`, `SoundChainsLinked` | the same | also: no reconsiderblock |
| `UnlinkedAlwaysExact` | the same | also: neither reconsiderblock nor invalidateblock |
| `CandidatesAlwaysComplete`, `TipAlwaysMostWork`, `ForwardProgressAlways` | the same | also: no reconsiderblock, no unripe peg-ins, at most one preciousblock call for each amount of work of the tip |
| `VerdictIsCorrect`, `CountersAreRight`, `CountersNeverWrap` | `CheckQueueProofs` | finite sets of workers and checks; a positive batch size |
| `EventsAlwaysInOrder`, `CountAlwaysExact`, `QueueRefined` | `CallbacksProofs` | finite sets of threads and subscribers, the kinds of threads disjoint |
| `TrackerAlwaysSane`, `TrackerRefinement` | `TxDownloadProofs` | priorities that tell peers apart; the sentinel values are not members of the sets |
| `OrphanageAlwaysConsistent`, `NoReadyOrphanLost` | the same | also: hashes do not collide |
| `KnownTxAlwaysForgotten` | the same | also: peers announce hashes of the type they negotiated |
| `ParamsAlwaysFollowVotes`, `NextBlockRulesAgree` | `MempoolProofs`, on `DynaFedProofs` | positive epoch length, number of valid epochs and activation height; the node starts from a chain that is in order |

Only model-checked: liveness and fairness (among them `BestChainActivated`, `ShutdownEnds`,
`TimerKeepsRunning` and the liveness part of `ImplementsEventQueue`), which the prover does
not handle;
`PoolConsistent`, `PoolMinable` and `ResurrectedKept`, whose actions are folds nested in folds
over sets of transactions; the liveness of `TxDownload` (`HonestTxArrives`); the violations.

## Not modelled

- Transaction download: BlockDisconnected's reset of the filters; transactions submitted by
  RPC or put back by a reorganisation, for which the code calls neither ForgetTxHash nor
  AddChildrenToWorkSet, so that `KnownTxForgotten` and `ReadyOrphansQueued` say nothing about
  them; replacement and eviction in the mempool; peers with relay permissions; one more
  connection of the same peer.
- Mempool: sizes and the rolling minimum fee, acceptance of packages, transactions that
  differ in their witness only, `mempool.dat`. Chains without dynamic federation, whose epoch
  length is the largest `uint32_t`, are outside the integers TLC would reach.
- Block files: positions, the moment undo data of older files is synced, the choice of files
  to prune. `ChainRecovery` has one durable store of undo data.
- Version bits, the address manager, the ban list, the indexes, the HTTP work queue, the
  signature cache and coin selection have state worth a module and none yet.
- Header and block download from peers, sockets and their timeouts; snapshot chainstates;
  the wallet.
- Scripts, commitments, encodings and cryptography: functions over bytes.
- The graphical interface, its translations (`qt/locale/*.ts`, data rather than code, and by
  far the most lines of the tree), RPC formatting, logging and vendored libraries.

## Plan

1. `BlockFiles` (positions, undo flushes, the choice of files to prune); the indexes composed
   with `EventQueue`; the ban list and the HTTP work queue.
2. Version bits as functions against a reference definition, with the cache.
3. The address manager, the signature cache, coin selection; block download.
4. Proofs: the indices of the mempool.
