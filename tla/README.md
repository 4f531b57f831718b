# TLA+ models of the Ignition Coin node

This directory holds a verification project for the node in `src/`, a C++ program
of the Bitcoin / PPCoin / Dash family: proof of work and proof of stake, a LevelDB
transaction index, masternodes, InstantX transaction locks and Darksend mixing.
The modules model the parts of the node that keep state which several steps, several
messages or several threads change; TLC checks them on small instances and TLAPS
proves the main invariants for every instance.

File names in this text are relative to `src/src/`.

## 1. Inventory

| Part | State | Operations | What makes it hard |
| --- | --- | --- | --- |
| Transaction database (`txdb-leveldb.*`) | LevelDB on disk, one `activeBatch` per `CTxDB` object | `TxnBegin`, `Write`, `Erase`, `Read`, `Exists`, `TxnCommit`, `TxnAbort` | reads inside a batch, a commit that fails, a crash |
| Best chain and index (`main.cpp`, `main.h`) | `mapBlockIndex`, `pnext`, `pindexBest`, the `CTxIndex` records, `hashBestChain` | `AddToBlockIndex`, `SetBestChain`, `Reorganize`, `ConnectBlock`, `DisconnectBlock`, `LoadBlockIndex` | a branch is switched block by block; any block may fail, the process may stop anywhere |
| Memory pool (`txmempool.*`, `main.cpp`) | `mapTx`, `mapNextTx` | `AcceptToMemoryPool`, `addUnchecked`, `remove`, `removeConflicts` | the chain changes under it; locks of another component refuse transactions |
| Orphan transactions (`main.cpp`) | `mapOrphanTransactions`, `mapOrphanTransactionsByPrev` | the `tx` and `dstx` messages, `LimitOrphanTxSize` | transactions arrive before their inputs; random eviction |
| Block reception (`main.cpp`) | `mapOrphanBlocks`, `mapOrphanBlocksByPrev`, `setStakeSeen`, `setStakeSeenOrphan` | `ProcessBlock`, `AcceptBlock`, `PruneOrphanBlocks` | blocks arrive in any order and repeatedly; acceptance may fail half way |
| InstantX (`instantx.*`) | `mapTxLockReq`, `mapTxLockReqRejected`, `mapTxLockVote`, `mapTxLocks`, `mapLockedInputs` | `txlreq`, `txlvote`, `CreateNewLock`, `ProcessConsensusVote`, `CleanTransactionLocksList` | votes before requests, conflicting requests, expiry, three threads without a common lock |
| Masternode list (`masternodeman.*`, `masternode.*`, `activemasternode.*`) | `vMasternodes`, requests and pings by time | `dsee`, `dseep`, `Check`, `CheckAndRemove`, ranking | time, repeated announcements, pointers into the list used without its lock, ranks taken from cached block hashes |
| Masternode payments (`masternode-payments.*`) | `vWinning`, `mapSeenMasternodeVotes` | `mnw`, `AddWinningMasternode`, `ProcessBlock`, `CleanPaymentList` | order of votes, reorganisations |
| Sporks, alerts (`spork.*`, `alert.*`) | latest signed message by identifier | `spork`, `alert` messages, `UpdateSpork` | order of arrival |
| Darksend (`darksend.*`) | the session's state, users, entries and final transaction | `dsa`, `dsi`, `dss`, `Check`, `CheckTimeout`, `CheckForCompleteQueue` | clients that send anything; a timer thread that erases entries and resets the session, without a lock, wherever a handler waits |
| Connections and inventory (`net.*`, `main.cpp`) | `vNodes`, `mapAskFor`, known inventory, ban scores | `inv`, `getdata`, `SendMessages`, `ThreadMessageHandler` | five threads and many locks |
| Address manager (`addrman.*`) | `mapInfo`, `mapAddr`, `vRandom`, `vvTried`, `vvNew`, counters and reference counts | `Add_`, `Good_`, `Attempt_`, `Select_`, `GetAddr_`, `peers.dat` | structures that must agree after any sequence of evictions, and after renumbering |
| Wallet (`wallet.*`, `walletdb.*`, `crypter.*`, `keystore.*`) | `mapWallet`, key pool, encrypted keys | `AddToWallet`, `ReserveKeyFromKeyPool`, `EncryptWallet`, `Unlock` | two-phase changes of memory and file |
| Secure messages (`smessage.*`) | buckets of messages by time | `smsgInv`, `smsgShow`, `smsgWant`, `smsgMsg` | bucket locks with time-outs |
| Staking, mining, retargeting (`kernel.*`, `miner.*`, `main.cpp`) | stake modifiers, block templates | `ComputeNextStakeModifier`, `CreateNewBlock`, `GetNextTargetRequired` | integer arithmetic on 256-bit numbers |

How the parts call each other: a block message reaches `ProcessBlock`, which accepts it
(`AcceptBlock`, `AddToBlockIndex`, `SetBestChain`) and then the orphans that waited for it;
`SetBestChain` runs `ConnectBlock` and `DisconnectBlock` inside a batch of the transaction
database, commits, relinks memory and updates the pool; a `tx` message reaches
`AcceptToMemoryPool`, which reads the index, the pool and InstantX's locked inputs;
InstantX calls `AcceptToMemoryPool` for the transaction of a lock request, and
`CheckBlock` refuses blocks that spend inputs locked for another transaction.

`ProcessMessage` does not hold `cs_main`; each handler takes it where it needs it.
Everything from `ProcessBlock` down to `SetBestChain` runs under `cs_main`. The InstantX
maps and the Darksend session have no lock. The masternode list, the address manager and
the wallet have locks of their own. The masternode list's covers `Add`, `Remove`, `Find`
and `CheckAndRemove`, and not what is done with the pointer `Find` returns, nor the walks of
`CountEnabled`, `GetCurrentMasterNode` and `GetMasternodeRank`; `CReserveKey::KeepKey` takes
no lock. `ThreadCheckDarkSendPool` drives
`CheckTimeout`, `CheckForCompleteQueue`, the masternode checks and InstantX's cleaning.

## 2. Modules

| Module | Models | Composition |
| --- | --- | --- |
| `TxStore` | what callers expect of `CTxDB`: a store and, per handle, one open transaction | abstract specification |
| `TxDB` | `CTxDB` with its list of batch entries | implements `TxStore` |
| `BlockTree` | the blocks and transactions a node may meet; what a valid chain is | constants, extended by the next two |
| `BlockChain` | the best chain, its index on disk, the batch, memory, failures, restart | the batch is the transaction `TxStore` describes |
| `MemPool` | pool, orphan transactions, what chain changes do to them | reads the chain that `BlockChain` shows the index to be |
| `OrphanBlocks` | `ProcessBlock` | takes the outcomes of `AcceptBlock` from `BlockChain` |
| `InstantX` | transaction locks | its `mapLockedInputs` is `MemPool`'s |
| `AddrMan` | the tables of known addresses | |
| `Masternodes` | the masternode list | sees the chain as the set of spent collaterals |
| `KeyPool` | the wallet's key pool, in memory and in the file | |
| `DarksendSession` | the mixing session of a masternode | |
| `MC*` | the instances TLC checks | |
| `*Proofs` | lemmas and theorems | `BlockStoreProofs` has those of `TxDB` and of `OrphanBlocks`, the others those of the module they are named after |

### TxDB

Its specification is `DBSpec` (`DBInit`, `DBNext`), since its proofs share a module with
those of `OrphanBlocks`. State: `disk`, and per handle `activeBatch`, the sequence of entries since `TxnBegin` (or
none). `Read` is `CTxDB::Read`: the last entry with the key (`LastHit`, what
`CBatchScanner` ends up with), else the disk. `Exists` has the code's own rule: only a
value found in the batch answers, a key the batch erases is looked up on disk; hence it
may say yes where `Read` says no. Actions: `TxnBegin`, `WriteOrErase`, `TxnCommit`,
`TxnCommitFails` (LevelDB refuses the batch, which is deleted all the same), `TxnAbort`,
`Crash`. LevelDB is external: `Applied` writes a batch whole.

### BlockTree and BlockChain

Hashes are the blocks and transactions themselves; height, trust, ancestors and
transactions of a block are constant functions of it. What scripts, values, signatures
and stake kernels decide once and for all about a block is the constant `Unconnectable`;
what depends on the node's present view of masternodes (`ConnectBlock`'s payment check,
`CheckBlock`'s lock check) is `refused`, which the environment changes between blocks.

The step is one block connected or disconnected inside the open batch, or one commit.
`AddToBlockIndex` commits the block's own record and starts `SetBestChain`;
`DisconnectBlock` and `ConnectBlock` change the batch; `TxnCommit` makes it the disk and
relinks `pnext`; the first commit is at `pindexIntermediate` (`Intermediate`), the later
blocks are committed one by one (stage "postponed"). `DisconnectFails`, `ConnectFails`
and `StorageFails` give the batch up as the code does: before the first commit nothing
has changed; afterwards the loop breaks and the argument still becomes `pindexBest`
(`GiveUp`). `Restart` stops the process in any state and runs `LoadBlockIndex`, with its
verification of the last blocks (`txdb-leveldb.cpp:443`-`569`): it goes down `nCheckDepth`
blocks from the best one (`Checked`), every block that `CheckBlock` refuses replaces
`pindexFork`, so that the lowest one decides (`LowestBad`), and `SetBestChain` is then called
for that block's parent, which goes through the same steps as any other reorganisation and
may fail or be stopped like it. A block that was connected can be refused at load since
`CheckBlock` looks at the masternode payments the node knows of, and since the node may come
up as another version; which blocks are is the environment's choice among `Contested`. The history variable `strayed` records that the best block in memory has left the connected
chain in this way, and whether a batch was committed after that.

### MemPool

State: the chain the index is of (`tip`) and `pindexBest`, which differ inside
`SetBestChain`; the pool; `mapLockedInputs`; the orphans; the work lists of the orphan
loop and of `Reorganize`. `AcceptToMemoryPool` is an operator with the verdicts accepted,
missing input and rejected, its tests in the code's order; `ReceiveTx`, `TryOrphan`,
`EraseTried` are the `tx`/`dstx` handler, `SubmitTx` the wallet and RPC, `ConnectTip`
`SetBestChainInner` on a child of the best block, `Reorganize`, `Resurrect`,
`DeleteConnected` and `ConnectFurther` a reorganisation. Fees and sizes are the sets
`Free` and `Large`. Lists that the code goes through in order are sets gone through in
any order, which includes the code's order. The transactions are well formed and standard,
with sane fees: refusals of `CheckTransaction`, `IsStandardTx`, `AreInputsStandard`, the
limit of signature operations and `fRejectInsaneFee` do not occur, so that
`ReorganizeLosesNothing` speaks of standard transactions. Failures of a reorganisation are the business
of `BlockChain`: here every chain that is set valid connects.

### OrphanBlocks

State: the index, the two orphan maps, the two sets of stakes, the work queue, the position
`it` of `PruneOrphanBlocks` with the block that waits to be entered (`shunted`), and the
history `failed` (blocks indexed although `AcceptBlock` failed). Actions: `ShuntOrphan`, which
enters the block or, without room, picks any orphan and begins the walk; `Walk`, one turn of
the loop over `mapOrphanBlocksByPrev.find`; `Prune`, what follows when `find` finds nothing;
`ProcessBlock`, `ProcessOrphan`, `WorkDone`, `Restart`. The handler holds `cs_main`, so no
other one begins while it walks or has a queue (`Idle`); the process may stop in between.
`AcceptBlock` accepts, refuses (`Refusable`), or fails after indexing (`Contestable`).

### InstantX

State: the five maps, the pool, the `txlreq` that waits for `cs_main`, whether the process
has stopped, and the history `refused`. Time is what each lock has left, -1 when expired;
`Tick` passes it. Masternodes in `Doubtful` may be unknown, ranked too low or sign
badly when their vote arrives: `RefuseVote`. `AcceptRequest` and `RefuseRequest` are the
two branches after `AcceptToMemoryPool`; `CountVote` is the rest of
`ProcessConsensusVote`; `RequestByWallet` is `RelayWalletTransaction`; `Clean` is
`CleanTransactionLocksList`. `Stops` is what happens when a lock completes for a refused
request: the blocks are reprocessed on a database opened for reading and through a pointer
that was never set, so an assertion or a bad access ends the process.

### AddrMan

State: the fields of `CAddrMan`, and `evicting`, where `Good_` stands inside `SelectTried`
(an `Eviction`: the entry to place, its old bucket, the loop's position and choice).
Bucket numbers are constant functions of address and source, since they are hashes. Every
public method runs under `cs` and is one action: `AddNew` and `AddKnown` are the two ways
of `Add_` to its end (`Insert`, with `ShrinkNew` on a full bucket), `GoodAgain` and `Good`
are `Good_`; with a full tried bucket it goes on with `SelectTried`, one action per turn
of its loop, and `Evict`, the rest of `MakeTried`. `GetAddr` is one swap of `GetAddr_`.
`Restart` writes `peers.dat` and reads it back. On disk are the address, source and times of
an entry (`Record`), the new entries, then the tried ones, each list by old identifier and
no longer than its counter says (`Upto`), and per new bucket the places of its entries in the
first list (`Indexes`). `Load` numbers the entries anew and rebuilds what is not on disk:
`mapAddr`, `vRandom`, the tried buckets from the hashes, dropping entries that find their
bucket full (`Kept`, `nLost`), `fInTried` from the list an entry was in, and `nRefCount` by
counting the buckets that take it (`Taken`).
Times except `nLastSuccess` are left out: whether an entry is terrible, the oldest, or its
announcement is news is a free choice.

### Masternodes

State: `vMasternodes`; `pending`, what the message thread is busy with: a message and the
pointer `Find` gave for it, or an entry to add once `CheckNode` returns; `own`, the pointer of
the node's own masternode; the collaterals that are spent. `Find` takes the list's lock and
returns a pointer, which is used without the lock. It is a position here: erasing entries
moves those behind it up (`Erased`), so that it may lead to another entry or past the end, and
appending may reallocate the vector (`Moved`, position 0), after which what is read is
anything and what is written is lost. The handlers end a step at every call between two uses
of the pointer: `dsee` is `Dsee` (`Find`), `SeeAnnounced` (the comparison of keys,
`UpdateLastSeen`, the call of `CheckNode`) and `FinishUpdate` (the rest), or
`BeginAdd`/`FinishAdd` for a collateral that is not listed; `dseep` is `Dseep`, `ReadPing`
(key and address are read for `VerifyMessage`) and `FinishPing`; `CActiveMasternode::Dseep`
is `DseepSelf` and `FinishSelf`; `Register` adds the own masternode. `CheckOne` and
`CheckAndRemove` are the checks, in which `TRY_LOCK` may fail for any entry. Time is the age
of each entry, negative when `lastUpdated` is ahead of the clock. What an owner has signed for
in an announcement (`pubkey2` and the address) is the owner's collateral `announced`; a ping
verifies if it is signed for that.

### KeyPool

State: the pool records in the file, `setKeyPool`, the reservations, whether the wallet is
encrypted and locked, and where `EncryptWallet` is in `NewKeyPool`; history: the keys kept,
and whether an index was given a new key while it was held (`reissued`). `GetReservedKey`
tops the pool up, takes the lowest index and, if it has no record, puts it back as the
destructor does; `GetKeyFromPool` loses such an index. `KeepKey` may happen at any time, all
else waits for `cs_wallet`. `Restart(n)` stops the process after n writes of a refill, or
between any two of `NewKeyPool`, and reads every record into the set.

### DarksendSession

State: the fields of `CDarksendPool` on a masternode, and where the two threads wait. The
message thread (`msg`) waits for `cs_vNodes` whenever it relays: in `dsq.Relay`, in
`RelayFinalTransaction` and in `UpdateState`, which notes the time, relays the status and only
then writes the state (`BeginState`); for `cs_main` in `AddEntry`; for `cs_main` and
`cs_wallet` in `CheckFinalTransaction`. `CheckTimeout` (`timer`) waits after every entry it
erases and in `UnlockCoins`, `CheckForCompleteQueue` in `UpdateState`. At each wait the step
ends and the other thread may go on.

`AcceptFirst`, `BeginQueue` and `FinishAccept` are the `dsa` of a session's first user,
`AcceptLater` that of another; `BeginEntry`/`FinishEntry` are `dsi` before and after its wait;
`AddScriptSig` is `dss`. The last two call `Check`, which tests the number of entries and
goes on as `Finalize` (the state is written), `Merge` (the transaction is made of the entries
there are by then), `Relayed` (the signatures are looked at), `Transmit`, `FinishSending` and
`FinishRefused`. The timer thread is `CheckTimeout`, `ExpireEntry`, `FinishEmptied`,
`EndExpiring`, `FinishTimeout`, `CheckForCompleteQueue` and `OpenQueue`; `Reset` is the RPC.
Entries are numbered so that two with the same inputs stay apart, which the code allows (see
the observations); a transaction has its inputs with the number of their entry. What leaves
the node is left out: status messages, charged collaterals, the session's identifier.

## 3. Runs

| Run | Instance | Shows |
| --- | --- | --- |
| `txdb` | 2 handles, 2 keys, 2 values, batches of 2 entries | transactional reads; refinement of `TxStore` |
| `blockchain` | 9 blocks above genesis on four branches, with a double spend, an in-block spend, a coinbase repeated in two blocks, an immature spend, two contested blocks; the load verifies the last 2 (and the one below) | the index is the replay of its chain; the chain is valid; `IsInMainChain` is right; trust grows except below a block that the load refuses; `SetBestChain` ends |
| `blockchain_stray` | the same | **violated**: the best block in memory is the connected one |
| `mempool` | three branches, six transactions of which two conflict and two depend on others, at most 2 orphans, two lockable transactions | `mapNextTx` and the orphan index are exact; no confirmed transaction in the pool; a reorganisation loses nothing that stays valid; conflicts go with their dependents |
| `mempool_valid` | the same | **violated**: every pool transaction is valid on the best chain |
| `orphanblocks` | 9 blocks, repeated stakes, at most 3 (+1) orphans | the maps agree; the walk ends at a leaf; no orphan is left behind; the handler ends |
| `instantx` | 2 conflicting transactions, one masternode, whose vote is needed and which may be unknown when it arrives, a lock lives 1 tick, fairness | one vote per masternode; locks are earned; inputs are released only by expiry; every lock goes in the end |
| `addrman` | 4 hosts, one with two ports, 2 sources, new buckets of 1 and a tried bucket of 2 addresses, 4 identifiers between restarts; hosts and ports are symmetric | the tables and their indexes agree; counters and reference counts are exact; buckets keep their size; no tried address is deleted; what is read from `peers.dat` and rebuilt is what was known |
| `masternodes` | 2 collaterals, one of them the node's own, any number of announcements and pings, two threads with pointers, removal after 2 ticks, times up to 1 tick ahead, fairness | no collateral is listed twice; silent masternodes and spent collaterals leave |
| `keypool` | 3 reservations, target size 1, refills of 2, 6 keys, encryption, restarts | a kept key never comes back from the file; unless an index is reissued, the set is backed and reservations are exclusive |
| `keypool_reuse` | the same | **violated**: no one holds a key that was kept |
| `darksend` | sessions of 2 users, submissions of two and of one output, signed in any parts, 2 denominations, time-outs of 1 and 2 ticks, fairness | users have paid; entries are uniform; the transaction lacks no signature that its entries have; sessions end |

The violated properties state what a comment or an assertion of the source says; the
findings in `PROJECT.json` quote it. In words:

* `SetBestChain` (`main.cpp:2632`): if a block after `pindexIntermediate` does not
  connect, the branch's last block becomes `pindexBest` in memory although only a part of
  the branch is connected. The next block that extends it is connected on the wrong
  index. `IndexMatchesChain` and `BestChainValid` are stated for histories in which no
  batch was committed after that; a restart repairs memory from disk.
* `SetBestChainInner` (`main.cpp:2566`) removes a block's transactions from the pool but
  not the pool transactions that conflict with them; only `Reorganize` does.
* `TopUpKeyPool` (`wallet.cpp:4147`) numbers its records from 1 when `setKeyPool` is empty.
  A locked wallet can hand out its whole pool; after it is unlocked, indexes that are still
  held get new keys. When the old holder returns its index while the new key is reserved,
  a third reservation gets that key too, and keeping it in one place leaves it reserved in
  the other. `PoolBacked` and `ReservedExclusive` are stated for histories without such a
  reissue; `UsedNeverPooled` holds in all.

Further observations made while modelling. They are behaviours the models have, or are
left out because they do not come back; none has a run of its own.

* Chain: `AcceptToMemoryPool` (`main.cpp:866`) looks for inputs in blocks only, so the loop
  that takes up orphan transactions when their parent enters the pool accepts none of them.
  `ProcessBlock` (`main.cpp:3249`) returns before the loop over orphans when `AcceptBlock`
  failed after indexing the block, and the block is known from then on; `OrphansTakenUp`
  excepts its children. `PruneOrphanBlocks` keeps one block more than `-maxorphanblocks`
  (`main.cpp:1409`; `OrphansBounded` states the bound that holds).
* InstantX: a refused `txlreq` locks its inputs without votes (`instantx.cpp:103`; the second
  case of `LocksEarned`). They are released only when another request for the same
  transaction is in `mapTxLockReq` (`instantx.cpp:450`). A lock that completes for a refused
  request reprocesses blocks on a read-only database (`instantx.cpp:388`; action `Stops`).
  The accepting branch of `txlreq` never looks at a lock that early votes have completed
  (`instantx.cpp:78`).
* Sporks: the default of spork 7 is its identifier (`spork.cpp:93`).
* Addresses: `SelectTried` remembers the position from which it swapped the oldest entry
  away (`addrman.cpp:142`), so another entry than the oldest is evicted.
* Masternodes: the pointers that `dsee`, `dseep` and `CActiveMasternode::Dseep` use
  (`masternodeman.cpp:766`-`781`, `1119`-`1142`, `activemasternode.cpp:213`) may refer to another
  entry or to none by then, so that one masternode's message makes another one look alive,
  overwrites its announcement or removes it; what holds all the same is that no such entry
  stays for good; `lastUpdated` of a `dsee` is not compared with the clock
  (`masternodeman.cpp:843`); the copy constructor sets `nLastPaid` to the present
  (`masternode.cpp:121`).
* Darksend: a `dsi` whose wait outlasts its session is added to the next one; entries are
  compared with each other and never with `sessionDenom`, of which `darksend.h` says "Users
  must submit an denom matching this"; a refused `dsi` lowers `sessionUsers`; entries that
  fill the pool while it is still queueing are not finalized until another message calls
  `Check`; equality of inputs includes `scriptSig` (`core.h:96`), so an input that has been
  signed is not recognised when it is submitted again, and `SignatureValid` verifies nothing;
  refused `dsi` and new `dsa` can renew the session's time without end, so that no bound on
  an entry's stay can be stated; between the test of the number of entries and the merge
  `Check` waits (`darksend.cpp:532`-`548`), entries may expire meanwhile, and the transaction
  then mixes fewer than `GetMaxPoolTransactions()`, or none, the test of the signatures being
  true of no entries; that such a transaction is not broadcast is up to `AcceptToMemoryPool`;
  after a refused final transaction the completion is relayed with session 0
  (`darksend.cpp:597`).

**Bounds.** Two keys and batches of two entries are enough for an entry that overrides an
earlier one and for a key the batch does not touch. The block trees are chosen so that a
reorganisation disconnects two blocks, connects three, has a postponed part that can fail,
and returns to the first branch, and so that the load can find one or both of two blocks of
a branch bad, at the tip and below it. The pool's instance has a dependent, a conflicting
and an untouched transaction on each side of a fork. The orphan area is filled past its
limit on two branches, and the walk takes up to two turns. Four addresses in buckets of one
and two are the smallest instance in which an evicted address finds its own bucket full and
`SelectTried` has a choice; with equal times the choice is free. Two collaterals are enough
for a pointer to move from one entry to the other, three reservations for the three holders
of a reissued index, two entries of one or two inputs for an entry that is signed in part;
`chainparams.cpp:111` has 3, for which the safety properties are proved and `SessionsEnd` is
not checked. Named bounds limit what the code does not: `MaxBatch` (entries of a batch),
`MaxId` (identifiers between restarts), `MaxAhead` (clock difference), `MaxKey` (keys
generated). The collaterals of a session are counted up to `MaxTransactions`, past which no
test tells their number. All others are sizes of constant sets or the code's own limits made
small.

**Fairness.** `BlockChain` and `OrphanBlocks` assume that the thread which runs
`SetBestChain` or the loop of `ProcessBlock` keeps taking its steps: it holds `cs_main` and
waits for nothing. `SetBestChainEnds` also supposes that the process is not stopped again
and again, since `LoadBlockIndex` may start `SetBestChain` anew each time. `InstantX`
assumes that time passes and that `CleanTransactionLocksList`, which
`ThreadCheckDarkSendPool` calls every minute, runs. `Masternodes` assumes that time passes,
that a connection attempt ends, and that the check, which runs every minute, does not find
`cs_main` taken each time there is an entry to remove; this is strong fairness, since a
removable entry may be revived for a while. `DarksendSession` assumes that time passes, that
the timer thread runs and that who waits for a lock gets it. `SessionsEnd` excepts users who
keep joining, which renews the session's time, and a loop of `CheckTimeout` that never ends
because it waits so long after each entry it erases that another one has expired meanwhile.
No fairness is assumed of peers, clients, masternodes or storage.

**Proved and not in the runs.** Type correctness of the modules that have a proof module,
`ExistsMissesNothing`, both `OrphansBounded` and `KeysOnce` are theorems (section 4) and are
left out of the runs, which are kept for what takes several steps to go wrong.

**Mutants.** Next to a definition stands, where a property needs it, the same definition
with a plausible mistake, marked "Mutant". No module uses them; put in the definition's
place, each makes TLC find the property violated.

## 4. Theorems

All are proved for every value of the constants that satisfies the named assumptions
(`TxDBAssumption`, `TreeAssumption`, `HeightAssumption`, `TxAssumption`,
`BlockChainAssumption`, `MemPoolAssumption`, `OrphanBlocksAssumption`,
`InstantXAssumption`, `AddrManAssumption`, `NoneAssumption`, `MasternodesAssumption`,
`KeyPoolAssumption`, `DarksendAssumption`). Most say what kind of thing a constant is. Those of `BlockTree` also
say that the blocks form a tree with increasing heights and trust, that a block repeats no
transaction, and that two blocks with the same coinbase have the same height
(`AcceptBlock` requires the height in the coinbase). That ancestors are linearly ordered and
lower follows from the tree by induction along the chain, which is out of the prover's
reach; it is stated as part of the assumption and TLC evaluates it on the instances.

* **TxDB**: type correctness; transactional reads; `ExistsMissesNothing`; `DBSpec => TxStore!Spec`. The argument
  rests on what the last hit of a batch is after an entry is appended (`ScanAppended`),
  which needs that a non-empty set of positions has a last member (`MaxPosition`).
* **BlockChain**: type correctness; `IndexMatchesChain`; `BestChainValid`;
  `MainChainPointers`; `TrustGrows`. The inductive invariant `IInv` says: disk and memory
  links are exact for the committed tip unless a batch was committed after straying; while
  not strayed the open batch is exact for the block it has reached, and the part of the
  goal's chain that is already on disk is below that block; and `SetBestChain`'s goal has
  more trust than the best block, unless the load has called it for the parent of the lowest
  block it refuses, when nothing is postponed (`BelowRefused` in `StageInv`). `Exact(disk)` alone is not inductive since a commit copies
  the batch. The two central lemmas are that connecting (`ConnectKeepsExact`) and
  disconnecting (`DisconnectKeepsExact`) a block keep a database exact; the first needs that
  a block connects no transaction that is already indexed (`NoDuplicate`), which follows from
  its inputs being unspent, or, for a coinbase, from the heights. That an exact database has
  a valid chain is `ExactIsValid`.
* **MemPool**: type correctness; `SpendsExact`; `PoolUnconfirmed`; `OrphanIndexExact`;
  `OrphansBounded`, which is inductive with the finiteness of the orphans;
  `ReorganizeLosesNothing`; `ConflictsRemovedWhole`. The
  invariant adds where `SetBestChain` stands: `tip` is the best block outside a
  reorganisation, and only a reorganisation has transactions to delete. For the two action
  properties a second invariant `RInv` is needed: the chains of `tip` and of the goal are
  valid (`ValidTips`); while `Reorganize` works its lists off, what is to be put back comes
  from the old chain, what is to be deleted lies in the new one, and nothing stands against
  a transaction that is owed (`Reorganizing`, `Undisputed`); and each such transaction is in
  the pool, confirmed or still to be put back (`OwedKept`). Trying to prove
  `ConflictsRemovedWhole` showed that it was stated of the chain before the step and of one
  stage only; it now says of every step that what leaves the pool unconfirmed leaves with its
  dependents.
* **OrphanBlocks**: type correctness; `MapsAgree`, `StakesBacked`, `OrphansTakenUp`,
  `OrphansUnindexed`, `OrphansBounded` and `PrunesLeaves`. They are inductive together with
  the finiteness of the orphans and `WalkOK`: the walk is at an orphan, and the block that
  waits for its end is still new and without its parent. `PrunesLeaves` says of the orphan that
  leaves that none waits for it, for every walk: it needs `MapsAgree`, since the walk looks
  into `mapOrphanBlocksByPrev` and the property speaks of the orphans.
* **InstantX**: type correctness; `OneVotePerMasternode`; `LocksEarned`; `ReleasedByExpiry`. Added are
  `VotesSeen` (a vote in a lock is remembered, so it is not counted again) and `Earned` (a
  transaction that holds an input has its request in `mapTxLockReq`, so that cleaning
  releases the input with the lock).
* **AddrMan**: `Consistent` (type correctness and the agreement of all indexes),
  `BucketsBounded`, `TriedNeverDeleted` and `RestartKeepsAll`, that is, all that the run
  checks. The inductive invariant `Inv` adds two parts. `IdsBelow`: no entry has an identifier
  that is still to be handed out, or `Create` would overwrite it. `EvictionOK`: while
  `SelectTried` works, the entry to place has left the new table, its tried bucket is full, a
  position of that bucket is remembered from the first turn on (which needs
  `Inspect >= 1`), and the new bucket the entry came from has room; the last is why `Refuge`
  always finds place. The proof states each index as a predicate of given tables
  (`RandomOK`, `AddrOK`, `RefsOK`, `TriedOK`, `CountsOK`), and per operation what it does to
  them: deleting the last reference moves the last entry of the random list (`ErasedTables`),
  a bucket gets, swaps or replaces an entry (`TriedAppended`, `TriedSwapped`,
  `TriedReplaced`). For the restart: since the counters are right the writer stops nowhere
  early (`UptoAll`), since no bucket is too full nothing is lost (`AllKept`), and since no
  entry has too many references every bucket takes its entries back (`AllTaken`), so that the
  counts rebuilt are the old ones. The order of writing is shown to be a bijection between
  the new identifiers and the old (`OrderOnce`, from `AscendingOnce` and the pigeonhole
  principle), and every index carries over along a renaming (`Renames`, `RenamedAddr`,
  `RenamedRefs`, `RenamedCounts`, `TriedRebuilt`).
* **Masternodes**: type correctness; `UniqueVins`. The two are inductive together. A write
  through a pointer never changes the `vin` of the entry it meets, whichever that is
  (`WriteKeeps`), and `Add` looks for the `vin` again (`AddedKeeps`). Erasing is the hard
  step: the list of what is kept has the entries at the positions an increasing list gives
  (`InOrder`), so two of its entries with one collateral would come from two positions of
  the old list (`EraseKeeps`).
* **KeyPool**: type correctness; `UsedNeverPooled`, `KeysOnce`, `PoolBacked` and
  `ReservedExclusive`. Added is `HeldInPlace`: the key of a reservation is in the record of
  its index or in none, even after a reissue, so that keeping it erases the right record;
  and `UsedGenerated`: a used key has been generated, so that a new key is not a used one.
  That the set has a lowest and a highest index is shown from well-foundedness
  (`LeastMember`).
* **DarksendSession**: type correctness; `UsersBacked`, `EntriesUniform` and
  `SignaturesKept`. Added is `AddingFits`: an entry that waits fits the
  entries that are there and has no signature, since a reset leaves none and no one else adds
  any meanwhile. That a number freed by an expired entry is given to a new one, while the
  final transaction still has the inputs of the old, does no harm to `SignaturesKept` because
  the new entry comes without signatures and each `dss` signs entry and transaction alike
  (`FinishEntryKeeps`, `ScriptSigKeeps`).

Checked by TLC only: the liveness properties `SetBestChainEnds`, `ProcessBlockEnds`,
`LocksExpire`, `SilentRemoved`, `SpentLeavesForGood` and `SessionsEnd`
(liveness under fairness is not in this prover's reach). Every other property of a passing
run is the statement of a theorem.

## 5. Plan

What is left, in this order:

1. Composition: `MemPool` with `InstantX`'s locks, `OrphanBlocks` with `BlockChain`.
2. `MasternodePayments`: winner votes in any order, the payment list over a reorganisation.
   Abstract specification: the winner of a height is the vote with the highest score.
3. `Inventory`: `inv`, `AskFor`, `getdata`, `SendMessages` and `mapAlreadyAskedFor` with
   lost answers; liveness of a requested object under retries.
4. The wallet's transactions under reorganisation; the wallet told before the batch commits.
5. Sporks, alerts, the bounded containers; retargeting, rewards and block size as operators.

## 6. Not modelled

Of `LoadBlockIndex`: check levels 2 to 7, which are off by default, and block files that cannot
be read, which end the program; what its own reorganisation does to the pool, which is empty
then. Of `AddToBlockIndex`: the failure of its own commit (`main.cpp:2785`). Of
`InvalidChainFound`: the record of the best invalid trust, which nothing but messages read.
Of `peers.dat`: a file written with another number of buckets, or damaged. Of the unlocked
walks and writes in the masternode list: what is read while the vector moves, beyond the
entry, the other entry or none that a pointer may lead to.

The script interpreter, keys, signatures and hashes (their verdict is a constant or a free
choice of the models); LevelDB and Berkeley DB below their interface; RPC, GUI, option
parsing and logging; the 256-bit arithmetic of the stake kernel; masternode ranks, which are
hashes. Data races on the InstantX maps, and torn fields of the Darksend session, are not
modelled below the granularity of a handler between its waits. The client's side of
Darksend and its queue announcements are not modelled: a client may send anything.

The files `qt/locale/*.ts`, by far the largest part of the repository by lines, are the
translation catalogs of the graphical interface (Qt Linguist XML). They contain texts and
no code, so there is nothing in them to model; the program is the C++ code beside them.

Hazards of the code that no property covers: a crash after a block's record is committed and
before `SetBestChain` (`main.cpp:2785`) leaves an indexed block with more trust than the best
one, which only a child of it takes up; the wallets are told about a block's transactions
before the batch is committed (`main.cpp:2013`); the cleaning thread erases from InstantX's
maps while the message thread iterates (`darksend.cpp:2292`); masternode ranks may be worked
out from the cached hash of a disconnected block (`masternode.cpp:36`); `nLastPaid` is reset
by a copy (`masternode.cpp:121`).

Components of the plan that have no module yet are listed in `PROJECT.json` as not modelled.
