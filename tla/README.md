# A specification of the a_blockchain node

TLA+ modules for the node of `src/`: a single-process, UTXO-based
proof-of-work chain with a TCP server for wallets and miners (Asio), an HTTP
and WebSocket server (Crow) and two LevelDB databases. TLC checks the modules
on small universes of transactions. All safety properties that TLC finds to hold,
of the core, of its servers, of its behaviour under database and power failures
and of its pure functions, are also proved with TLAPS, for every universe and
every number of clients, threads, blocks and failures, and for inputs of every
length; so is that the core implements an abstract ledger, and the TCP server the
core. Only liveness is left to TLC alone.

## The system

| Part | Source | State | Operations |
| --- | --- | --- | --- |
| Ledger rules | `src/chain.cpp`, `tx.h`, `crypto.cpp` | none | `apply_tx`, the checks of `add_tx` |
| Chain | `src/chain.cpp`, `chain.h` | `blocks_`, `height_`, `utxo_`, `address_utxo_`, `pool_`, `pool_spent_`, the databases `blocks` and `pool`; `mutex_` (shared) | constructor (`load_blocks`, `load_pool`, `create_genesis`), `add_tx`, `add_block`, readers |
| TCP server | `src/net.cpp` | one coroutine per session, one thread | `GetUTXOs`, `GetTip`, `GetPool`, `GetDifficulty`, `CreateTransaction`, `CreateBlock` |
| HTTP API | `src/web.cpp` | none of its own, several threads | `GET` queries, `POST /api/transaction` |
| WebSocket events | `src/web.cpp`, `src/main.cpp` | `ws_connections_` under `ws_mutex_` | connect, close, broadcast of `new_tx` and `new_block` |
| Process | `src/main.cpp` | | start, SIGINT/SIGTERM, death |
| Hashing, Merkle root, proof of work | `src/crypto.cpp`, `src/block.cpp` | none | pure |
| Encoding | `types.h` (`Reader`, `Writer`), `serialize`/`deserialize` | none | pure |
| Charts | `src/web.cpp` | none | pure, over the blocks and the clock |
| Logging, formatting | `util.h`, `web.cpp`, `tx.cpp`, `block.cpp` | none | output |

How they interact. `Chain` is the only shared state. Each of its methods takes
`mutex_` for itself, exclusively in `add_tx` and `add_block`, shared in the
readers. The TCP thread runs one handler at a time and calls several `Chain`
methods in it; HTTP threads submit transactions and read between these calls.
Only the TCP thread adds blocks. Accepted transactions and blocks are announced
to the WebSocket connections after `mutex_` has been released.

What is hard, and the property that says it goes right:

* `add_block` deletes pool keys one by one before it stores the block; the
  process may die in between, and `load_pool` revalidates nothing
  (`PoolSpendable`, `LossOnlyInFlight`, `AckedDurable`);
* the checks of `on_create_block` are made under locks released before
  `add_block` is entered, which checks nothing (`ChainSpec`,
  `OneWinnerPerTip`, `GetPoolTxFinds`);
* three structures (`utxo_`, `address_utxo_`, `pool_spent_`) are updated
  incrementally and must never drift from the blocks and the pool
  (`UtxoMatchesChain`, `IndexSound`, `RestartIsIdentity`), also if a database
  call throws in the middle or the machine goes down (`RestartHeals`,
  `LocksHeld`, `HistoryOnlyCutByPower`);
* all of this has to look like one ledger from outside (`ImplementsLedger`);
* a txid commits to no height, a block may list a txid twice and a transaction
  an input twice (`SpentStaysSpent`, `NothingAppliedTwice`, `ValueConserved`);
* handlers that read twice (`PoolReplyNotShort`, `TipLabelNotAhead`,
  `PageSound`), events sent by several threads (`BlocksInOrder`,
  `TcpTxBeforeBlock`), sessions that share a thread (`Answered`);
* encodings and hashes that leave out a count or repeat an element
  (`TxidCommits`, `MerkleCommits`), counts that come from the data
  (`OnlyWholeValues`), unsigned differences of timestamps that miners choose
  (`ChartHours`, `ActivityBounded`).

`PROJECT.json` lists the hazards with their lines.

## The modules

**`Ledger`** — the data. Hashes are ideal: a member of `Tx` is a txid, and the
contents (`inputs`, `outputs`) are constant functions of it; a block hash is
the path of block bodies from genesis to the block, so two blocks have one hash
exactly when they have one history. A signature names its key and its message.
Amounts are bounded by `MaxAmount`, which stands for the largest `uint64_t`;
the overflow tests of `add_tx` are modelled with it, and the sums compared after
them are sums modulo `MaxAmount + 1`. `ApplyToUtxo` and
`ApplyToIndex` are `apply_tx`; the vectors of `address_utxo_` are bags, because
`push_back` may list an outpoint twice and `std::erase` removes every copy.
`ValidateTx` makes the checks of `add_tx` in the order of the code, the first
failing one deciding the `TxError`. `utxo_` is kept as a set of outpoints: the
output an outpoint maps to is a function of its txid.

**`Chain`** — the class, memory and databases. The constructor takes one step
per transaction loaded, `add_block` one step per transaction (`ApplyMined`:
`apply_tx`, then `pool_spent_`, `pool_` and the `Delete`) and one for
`store_block`, `push_back` and `++height_`; `blk` and `done` are its argument
and loop index. While `blk # NoBlock` or the constructor runs, `mutex_` is
taken and nothing else moves, except that the process may die (`Crash`: memory
is lost, what was written stays). `add_tx` writes one key, so it is one step;
so is `create_genesis`. `Stop` is the signal handler, which runs between two
messages. `BeginBlock` is the contract between `on_create_block` and
`add_block`: the block extends the tip and consists of a coinbase and pool
transactions, each as often as the miner listed it. `CarefulMiner` is an
assumption on the environment, used only where a run says so: no miner repeats
an earlier coinbase or lists a txid twice. The node enforces neither.

**`Queries`** — what is read under one lock: `get_utxos` with the balance of
`/api/utxos`, `/api/block/<id>` by height and by hash, and `rebuild_utxo`, the
fold of `apply_tx` over the chain. They change nothing and see one state, so
they are operators and not actions.

**`AbstractLedger`**, **`Refinement`** — what the node promises: a `history`
that grows by whole blocks and a set of `pending` transactions; `Accept` takes
a transaction only if the history leaves its inputs unspent and nothing pending
competes; `Confirm` takes a block out of the pending transactions in one step;
`Lose` is the death of the process, which may cost the transactions of one
block. In the refinement mapping `history` is the blocks database and
`pending` the pool database together with what the running `add_block` has
already deleted from it.

**`ChainFaults`** — `Chain` with LevelDB calls that fail. After a `Put` or
`Delete` the exception leaves `add_tx` or `add_block` half done; the handlers
catch it and the node goes on. An iterator that runs into an error just ends:
`load_blocks` asks for its status, `load_pool` does not (`IterateFails`). What it
did not read stays in the pool database, so a competing transaction can be
accepted and after the next restart, or after a power failure that takes the
deletion of a key, two pool transactions may claim one output; mining one of them
then unlocks the output although the other is still there. `LocksHeld` says what
remains true: no lock outlives its transaction, and the locks of a pool without
competition stay exact from one `load_pool` to the next.

**`PowerLoss`** — `ChainFaults` with power failures. Writes are made with
`sync` off, so the machine may go down and come back with each database as it
was after some prefix of the writes made since it was opened; `blocks_past` and
`pool_past` are these candidates. The two logs are cut independently.

**`Server`** — the TCP server around `Chain`, one step per `Chain` call.
`ready` is the queue of sessions with a complete frame, `pc`, `k` and `count`
are the position and locals of the handler. Payloads are well formed or carry
one `Flaw`: they end too early, or the Merkle root or the work is wrong.
`Submission` steps of `Chain` are the HTTP threads. `ChainSpec` (that is,
`Spec` of `Chain`, as a property of the server) says that the detailed server
implements the abstract contract: every block that enters `add_block` is one
`BeginBlock` allows.

**`Web`** — the HTTP threads, each with a `job` between two `Chain` calls, the
WebSocket connections with the `stream` of messages sent to them, and the TCP
thread as far as they see it. `/api/tip` and `/api/status` read the height and
then, under another lock, the tip; the first labels the tip with `height() - 1`,
the second reports `height()` itself.

**`Hashing`** — `compute_merkle_root`, level by level, over an ideal BLAKE2b
(the hash of two hashes is the pair of them), with the tree from the top as a
reference; the target and its comparison with a hash as byte arrays.

**`Codec`** — `Reader` and `Writer` and the encodings built on them, in words of
four bytes, since every field but the tags of replies is a multiple of four
wide: transactions, headers, blocks, the txid preimage, the two parsers of a
submission (TCP and HTTP), `CreateBlock`, and the keys of the blocks database.
An exception is the result `Thrown`. Values are cut, and sizes read, in whole
words; a cut inside a word ends the `Reader` at the same field as one at the start
of the word.

**`Charts`** — the four sections of `/api/charts`, with `uint64_t` subtraction
modulo `U64`. Each section reads the clock for itself, so a case of `Pure` has two
readings, `now` and `later`, the second not before the first.

**`Pure`**, **`MCPure`** — picks one input per behaviour and states what
`Hashing`, `Codec` and `Charts` return for it; the inputs are constants, to which
`MCPure` gives small values. **`Sums`** has the operators on numbers that several
modules share: the sum of a function and repeated division.

**`MCChain`**, **`MCFaults`**, **`MCServer`**, **`MCWeb`** — the universe for
TLC: two keys; the genesis coinbase; three coinbases; five valid transactions
that conflict (`split`, `rival`, `twin`), depend on each other (`child`) or
spend coinbases; five that each fail one check of `add_tx`; and submissions
with a foreign key and with a foreign signature.

**`ChainProofs`** (the core), **`ClientProofs`** (the core under assumptions on
miners or wallets), **`InterfaceProofs`** (`Queries` and `Refinement`),
**`FaultProofs`** (`PowerLoss`, hence `ChainFaults`), **`ServerProofs`**,
**`WebProofs`** and **`PureProofs`** — the theorems. **`SumProofs`** has the lemmas
on induction and on sums that they share. `IInv` is defined in `Chain`, where a run
checks it; the other invariants they induct on are defined before the proofs.

Operators introduced by a comment `Mutant:` are wrong versions of the definition
below them: a plausible slip in the code. Replacing the definition by one makes
the property it is paired with in `PROJECT.json` fail.

## The runs

| Run | Configuration | Checks |
| --- | --- | --- |
| `core` | `MCChain.cfg` | four blocks, two pool transactions per block, two crashes, careless miners, all submissions except `twin` (which lists an input twice and has a run of its own): the inductive invariant `IInv`, which contains the type invariant, `IndexSound`, `PoolSpentExact` and `ChainLinked`, and the properties of `Chain` that need no assumption on miners; `RestartIsIdentity` compares the memory with what the constructor would make of the databases |
| `careful` | `MCChain_careful.cfg` | with careful miners, three coinbases, one crash, fairness: nothing is applied twice, spent outputs stay spent, balances are exact; the constructor and `add_block` end; refinement of `AbstractLedger` |
| `faults` | `MCFaults.cfg` | one failing database call anywhere and one power failure: what still holds |
| `server` | `MCServer.cfg` | two clients, all message types, whole and short payloads, three blocks, one crash, HTTP submissions at any time, fairness: replies, the race for a tip, every request answered; refinement of `Chain` |
| `web` | `MCWeb.cfg` | one HTTP thread, the TCP thread, one WebSocket connection, four blocks, one crash, pages of one block: the labels of `/api/tip`, `/api/status` and `/api/blocks`, the order of events |
| `pure` | `MCPure.cfg` | Merkle roots, target, encodings, keys and charts over some 52,000 inputs |
| `crash_loss` | `MCChain_crash_loss.cfg` | violated: `AckedDurable` with a crash |
| `replay` | `MCChain_replay.cfg` | violated: `SpentStaysSpent` with a repeated coinbase |
| `twin` | `MCChain_twin.cfg` | violated: `ValueConserved` with an input listed twice |
| `faults_utxo` | `MCFaults_utxo.cfg` | violated: `UtxoMatchesChain` with a failing database call |
| `power` | `MCFaults_power.cfg` | violated: `NothingAppliedTwice` with a power failure, although miners are careful |
| `charts` | `MCPure_charts.cfg` | violated: `ChartsAsCommented`; its counterexample refutes both `AllHoursShown` and `ActivityOfLastBlocks` |

`pure` and `charts` have behaviours of one step, so they do not check for
deadlock. In every other run the node can always be stopped or started, and deadlock is checked.

The six violated properties are statements of the repository's documents and
comments that the code does not keep; `PROJECT.json` quotes them under `findings`:

* `add_block` deletes pool keys before it stores the block, so a crash in
  between loses transactions that were acknowledged. `LossOnlyInFlight` bounds
  the damage: only those of the block being added, and the databases still fit
  together. Storing the block first would need `load_pool` to drop confirmed
  transactions, which it does not.
* A power failure can produce just that: the block is kept, the deletion is
  lost, and the transaction is mined again. What remains true is in `faults`.
* A coinbase with the address, reward and timestamp of an earlier one has its
  txid: its spent output becomes spendable again.
* An input that a transaction lists twice is counted twice.
* A database error inside `add_block` leaves `utxo_` ahead of the chain in a
  node that goes on serving; a restart repairs it (`RestartHeals`).
* The hourly charts show 24 slots, and a comment says that blocks are grouped into
  them, but a strict comparison leaves the oldest slot empty. `ChartHours` is what
  holds of both the comment's chart and the code's: every hour is shown whole, the
  oldest one whole or not at all.
* Another comment says that the activity comes from the last ten blocks. It comes from
  the blocks of the window, and the sum over ten blocks is not used.
  `ActivityBounded` says in which sense the activity of a window is right.

Of the same kind, and left without a run of their own:

* Block timestamps are compared only in `verify_block_header`, which nothing
  calls, although `DOCUMENTATION.md:1580` says "The only check is
  `timestamp > previous_block_timestamp`."
* The count of a `PoolResponse` can be smaller than the list that follows, when
  an HTTP submission comes between the two reads of `on_get_pool`.
  `PoolReplyNotShort` is what remains true.
* A block that lists a txid twice is accepted and applies it twice (`careful`
  needs its assumption for this too).
* `/api/tip` may label a new tip with the height of its predecessor
  (`TipLabelNotAhead` is what remains true).
* `add_tx` changes the pool before the `Put` that may fail, so a refused
  transaction can be in the pool. An error of the iterator in `load_pool` goes
  unnoticed, although `DOCUMENTATION.md:1821` says "Any LevelDB error causes a
  `std::runtime_error`".
* The balance of `/api/utxos` is a `uint64_t` sum without an overflow test:
  `BalanceExact` holds modulo 2^64. It needs careful miners, because a repeated
  coinbase puts its outpoint into the index twice.
* A Merkle root commits to the txids only up to repetitions at the end
  (`MerkleCommits`), against `DOCUMENTATION.md:607`, and a txid to the contents
  only up to the border between inputs and outputs (`TxidCommits`), against
  `DOCUMENTATION.md:1557`: seven inputs are as long as nine outputs. The ideal
  hashes of `Ledger` abstract from both. The first makes no difference to
  `Chain`, since blocks are compared by their hashes only to link them; the
  second needs txids whose bytes read as addresses and amounts.
* The TCP parser of a submission ignores bytes after the signature, the HTTP
  parser refuses them; inside a stored block, what is left of the view of a
  transaction is skipped.
* A block with a timestamp ahead of the clock hides the activity before it. If the
  hour turns between two readings of the clock, the two hourly charts of one answer
  have different slots, although `web.cpp:358` says "same buckets as
  blocksOverTime".
* `DOCUMENTATION.md:577` has a header of 82 bytes with a difficulty, and sample
  sizes to match; the code writes 80 bytes, and `SizesExact` is about the code.

### Bounds

`MaxBlocks` 3 or 4: with genesis, the shortest histories with a coinbase
output that is spent, confirmed and created again take four blocks, those with
a gap in the announced blocks four, those with a race for one tip and a later
block three. `MaxRefs` 2 gives a block with a
transaction and its parent or with one txid twice. `MaxCrashes` 1 is one death
at every point, also while loading; in `core` it is 2, so that the node also dies
while it recovers from a death; clean restarts (`Stop`) are not bounded.
`MaxFaults` 1, because after one fault the memory has already drifted;
`MaxPower` 1 together with it; `MaxCrashes` 0 there, because a power failure
that loses nothing is a crash.
`MaxAmount` 7 makes the sums of `overflow` and `inflow` pass the limit.
`Timestamp` has one member: only the hash looks at it.
`server` and `web` use one coinbase and one submission, `split`, which can come in
at any step, be mined, and be refused when it comes again; two clients suffice for
a race, since one thread serves them. In `server` a payload is whole or short; a
wrong Merkle root or work is refused at the same place (`BlockErr`), and the
theorems about the server cover all flaws. `charts`: two blocks where the comment
speaks of one (`TpsBlocks` 1 stands for the 10 of the code), in the hours shown,
and a window that covers them.
`pure`: up to six txids of three kinds, so that levels of odd length occur at
two heights of the tree; up to eight inputs and ten outputs, since 7 * 36 =
9 * 28 is the first length at which they can be confused; charts of up to three
blocks, with three hours of two seconds, timestamps before and after the clock,
and two readings of it, in one hour or in two.
No symmetry is used: the transactions differ.

### Fairness

`FairSpec` assumes weak fairness of the constructor's steps and of `add_block`'s
steps: code that runs without waiting for anyone. Nobody is obliged to start
the node, submit or mine. `FairSpecS` adds weak fairness of the handlers as a
whole: the TCP thread, when it can go on, does; sessions with a complete frame
are served in order of arrival, as Asio's queue does. This includes that
`std::shared_mutex` lets the TCP thread in although HTTP threads go on reading,
which the platforms' implementations do and the standard does not promise.
`Answered` excludes
`GetBlock`, which the documentation lists as not handled and for which the
server sends nothing.

## The proofs

Every theorem holds for every universe of transactions, every number of clients,
threads and connections, and all bounds that satisfy the assumptions named in
`Ledger`, `Chain`, `ChainFaults`, `PowerLoss`, `Server` and `Web`: txids determine
contents, an output index fits, coinbases have no input and one output, the
bounds are numbers, the clients are finitely many, and `NoBlock`, `NoMsg` and
`Free` are no block, no frame and no event. Two hypotheses are stated in the
theorems that need them. `CarefulMiner`: no miner repeats a coinbase or lists a
txid twice. `InputsOnce`: no submission lists an input twice. The node enforces
neither, and without them the properties fail (runs `replay` and `twin`).

The theorems of `PureProofs` are about all inputs that have their types, which is
what the assumptions of `Pure` say: any lists of txids (`LeavesAssumption`), any
transactions, blocks and messages whose fields have the sizes of the code
(`EncodingAssumption`), any chains, with any timestamps (`ClockAssumption`). Three
of the assumptions say more than a type. A txid is a sequence of one element, so
it is no pair of hashes: BLAKE2b is ideal. The largest height can be written with
`KeyDigits` digits, as a `uint32_t` can with ten. The clock has passed `Slots`
hours of `kHour`, and every window, since 1970.

A word of `Codec` is any natural number. The theorems on encodings thus speak of
values whose counts and sizes fit into the `uint32_t` they are written to, as they
do for every value below 4 GB: the truncation of larger ones is not modelled.

| Module | Theorems |
| --- | --- |
| `ChainProofs` | `Invariance` (`Spec => []IInv`) and from it `TypeCorrect`, `LedgerFaithful` (`UtxoMatchesChain`, `IndexSound`), `PoolSound` (`PoolSpendable`, `PoolSpentExact`), `StoresInStep`, `Linked`; `Immutable` (`HistoryImmutable`); `HashTellsHeight`; `LossBounded` (`LossOnlyInFlight`); `Durable`: with `MaxCrashes = 0`, `AckedDurable` |
| `InterfaceProofs` | `Implements` (`Spec => ImplementsLedger`); `LookupsAgree` (`BlockLookup`); `RestartChangesNothing` (`RestartIsIdentity`); with careful miners, `BalanceCorrect` (`BalanceExact`) |
| `ClientProofs` | with careful miners, `AppliedOnce` (`NothingAppliedTwice`) and `SpentForGood` (`SpentStaysSpent`); if inputs are listed once, `NoMoneyCreated` (`ValueConserved`) |
| `FaultProofs` | `FaultInvariance` (`SpecP => []PInv`), `IndexSurvives` (`IndexSound`, `ChainLinked`), `RestartRepairs` (`RestartHeals`), `OnlyPowerCuts` (`HistoryOnlyCutByPower`), `LocksKept` (`LocksHeld`) |
| `ServerProofs` | `ServerInvariance` (`SpecS => []SInv`), `DrivesChain` (`SpecS => ChainSpec`), `PoolTxFound`, `AcceptedStored`, `OneWinner`, `PoolReplyWhole` |
| `WebProofs` | `WebInvariance` (`SpecW => []WInv`), `TipLabelled`, `PagesLabelled`, `StreamsInOrder`, `TxAnnouncedFirst` |
| `PureProofs` | `RootOfTree` (`MerkleIsTree`), `RootsCommit` (`MerkleCommits`), `WorkRule` (`WorkIsLeadingZeros`), `ReadsWhatWasWritten` (`RoundTrip`), `RefusesParts` (`OnlyWholeValues`), `SizesReported` (`SizesExact`), `TxidsCommit` (`TxidCommits`), `KeysOrdered` (`KeysInOrder`), `HoursCounted` (`ChartHours`), `ActivityExact` (`ActivityBounded`) |

**The core.** `PoolSpendable` alone is not inductive: a crash inside
`add_block` replaces the pool by what is left in `pool_db_` and the chain by
`blocks_db_`, so one needs `DiskSound`, which says that the databases by
themselves are fit to start from at every moment, and `Mirror`, which says how
far memory has caught up with them in each phase. Inside `add_block`,
`PoolSpendable` needs `BlockFits`: what the block has yet to apply competes with
no pool transaction outside it. That in turn holds on entry because pool
transactions do not compete. A repeated coinbase or txid does no harm here,
since it only adds outputs or erases inputs that no pool transaction has.
`UtxoMatchesChain` is inductive by `UnspentStep`: the declarative definition
(created at some position, spent at no later one) changes with one more
transaction exactly as `apply_tx` changes `utxo_`. `ChainLinked` needs
`BlockFits` for the block about to be stored. `HashHeights`, that a hash tells
the height of its block, follows from the links; `BlockLookup`, `OneWinnerPerTip`
and the labels of `Web` rest on it.

**Refinement.** On top of `IInv` it needs `BlockOfPending`: the block inside
`add_block` consists of a coinbase and pending transactions that are no
coinbases, and the keys of those already applied are gone. With it, `ApplyMined`
leaves the pending transactions as they are (a deleted key is replaced by the
position in the block), `StoreBlock` is `Confirm`, `Crash` is `Lose`, `add_tx` is
`Accept`, `create_genesis` is `Begin`, and the rest stutters. The operators of the
instantiated module are first shown to be those of `Ledger`.

**Careful miners.** `CarefulInv` says that the chain, with the part of the current
block that has been applied, is `Ordered`: each transaction stands at one
position, and what it spends was created before it. A new coinbase keeps the
order because the miner has not used it (`FreshBlock`). A pool transaction keeps
it because its inputs are unspent: had it been applied before, they would be
spent, and by the order nothing recreates them. `BalanceExact` needs in addition
that no vector of the index holds an outpoint twice (`ListedOnce`); then both
sides of it are sums of one function over one set.

**Money.** `ValueConserved` compares two sums over sets that change with every
transaction, and does so at every step of `load_blocks` too, where blocks are
applied that were checked long ago. So `ValueInv` says of the databases what
`add_tx` once checked: every block, the stored ones and the one inside
`add_block`, is paid for (`PaidBlock`: behind the coinbase, its transactions spend
unspent outputs of the chain before it, different ones different outputs, that are
worth at least what they create), and so is the pool. That a pool transaction stays paid
for while blocks come in is `PoolSpendable`. From `ValueInv` follows, block by
block (`ValueFollows`), that the unspent outputs of a chain, with a block applied
to any part, are worth no more than its coinbases. `sum_in` of `add_tx` runs over
the list of inputs, the outputs spent are a set: this is where `InputsOnce` is
used, and the only place. The overflow tests make the compared sums exact
(`ValidatedPays`). Miners need not be careful: a repeated coinbase counts
as issued again, a repeated txid recreates what it had created.

**Restart.** `Replayed` says that `utxo_` and `address_utxo_` are what
`rebuild_utxo` makes of the applied chain, the part of the current block included.
The recursive functions behind its two loops are first shown to exist and to do
one more transaction, or one more block, at a time; then each step of the node
that applies a transaction is one more step of the replay.

**Induction.** The library's induction rules have a predicate for a parameter,
which the provers cannot instantiate. `SumProofs` states them for sets instead
(`Induction`: a set that contains 0 and with n also n + 1 contains all numbers),
from the theorem that a well-founded relation has minimal elements; a predicate
then is a set comprehension. `SubsetInduction` does the same for finite sets, and
the laws of sums (`TotalUnion`, `TotalSubset`, `TotalImage`) follow from it. Recursive functions are handled by `LoopRuns`,
`LoopTyped` and `LoopValues`: a loop over 1..k has a solution, of the type its
steps have, and its values do not depend on k.

**Merkle roots.** The tree of the reference definition exists level by level
(`NodesAre`), each level has half the width of the one below, rounded up
(`Widths`), so one of them is the top (`TopIs`). A round of the loop makes the next
level of the tree, the padding of an odd one included (`Round`), so the loop goes
up the levels and stops at the top (`LoopBuildsTree`). For `MerkleCommits`, equal
hashes in two trees are at the same height, since a txid is no pair (`SameHeight`);
they are over the same set of txids (`SameUnder`); and if they are at the same
place, the lists agree below them wherever both have a txid (`SamePlaces`). The
middle one is needed for places that differ, as a padded node has itself for a
partner.

**Encodings.** `Holds(d, o, x)` says that the words of `x` stand in `d` from offset
`o` on. It is passed from a value to its parts (`HoldsParts`, `HoldsWithin`) and
gives what the `Reader` returns (`HoldsTake`); lists of inputs, outputs, txids and
transactions are placed by `Flattened`, which solves the recursion of
`FlattenSeq`. A parser depends only on the words that are there (`Agree`), so a
proper prefix makes it run into its end at the place where a whole value would
have gone on (`BodyCut`, `SubmissionCut`, `Walk`). `TxidCommits` is by the lengths:
equal preimages with as many inputs have equal parts (`Columns`), and otherwise
9 * inputs + 7 * outputs is the same on both sides.

**Keys and charts.** Two heights have one quotient by 10^k as long as their first
digits agree (`SameDigits`), and at the first digit that differs the quotients are
ordered as the digits are (`DigitDecides`, `KeyOrder`). For the charts, hours are
multiples of `kHour`, and two that are less than an hour apart are one
(`NearMultiples`). The subtraction modulo `U64` makes a block from the future older
than every window (`AgeOf`), which is why the activity is never overstated; a block
that is not from the future only grows older between two readings of the clock,
so what `networkActivity` counts `txPerBlock` has shown as young.

**Failures.** A failing call breaks `UtxoMatchesChain` and with it most of `IInv`.
What remains is `FInv`: memory and database agree on the blocks (`BlocksMirror`,
the half of `Mirror` that does not speak of the pool), the block in `add_block`
extends the tip, the index follows `utxo_` whatever that holds, and the locks
belong to pool transactions. While loading, `utxo_` is right again
(`RestartHeals`), since the constructor starts from nothing. `PastSound` adds that
what a power failure can bring back of the blocks is a prefix of what is stored.

**TCP server.** `SInv` is `IInv` and `HashHeights` with `NetInv`: a session is
served by one handler at a time (`Sessions`); what `on_create_block` has checked
stays true up to the step that relies on it (`Checked`), since HTTP threads only
add to the pool, and the tip moves and the pool shrinks in `add_block` alone; the
blocks under way keep the promises of `Chain`'s miners (`Promised`, about the
bound and careful miners); a stored block that is not answered yet has no rival
among the answered ones (`Winner`, by the heights of the hashes). `EnterIsBegin`
then shows that entering `add_block` is `BeginBlock`, the only step at which the
refinement is not immediate. Every theorem about `Spec` thus holds of `SpecS`.

**HTTP and WebSocket.** Every step of `NextW` is one of `Next` or leaves the chain
alone, so `IInv` and `HashHeights` hold throughout. `Jobs` says what a handler
between two reads knows of a chain that can only grow; `Announcing`, that the TCP
thread begins no block before its event is out and that a pending block is the
tip; `Streams`, that the last block a registered connection was told of is the
tip, or its predecessor while the tip is pending; `Announced`, that what came over
TCP is in the log or next. `TcpTxBeforeBlock` is about the moment a block is
announced: with careless miners a transaction may be accepted over TCP again
after a block with it, and its second acceptance comes later than the block.

### Only model-checked

Liveness (`LoadingEnds`, `AddBlockEnds`, `Answered`): fairness and `ENABLED` are
out of the prover's reach. The three are checked in the runs `careful` and
`server`.

## Not modelled

Inside the state machines a miner is assumed to have found its nonce, a wrong
Merkle root or hash is a `Flaw`, and a payload is whole or short: `Hashing` and
`Codec` say what these mean. Logging, hex, JSON and time formatting, key
generation and signing are left out: no state of the node depends on them.
LevelDB is external: a write happens, fails, or is lost with the end of the log.
An event callback is taken not to throw: if it did, after `add_block`, the miner of
a stored block would be told `InvalidPayload` (`net.cpp:337`). Requests that are
refused before the chain is read (an id that is neither height nor hash, a
parameter that is no number) are left out.
`/api/mempool` is one read of the pool, `OPTIONS` a constant; WebSocket pings,
framing errors and disconnecting TCP clients change no shared state.
`verify_tx`, `verify_block` and `verify_block_header` are never called
(`WorkIsLeadingZeros` compares the work rule of the last with the one in use).

## What is left

All components are modelled, and every invariant and action property that a run
finds to hold is a theorem. Liveness stays with TLC. A change of the code would
begin with the findings: one database for blocks and pool, with the block and
the deletions written in one batch, would make `AckedDurable` hold with crashes,
and a height in the coinbase, a
check for repeated inputs and one for repeated txids would make `CarefulMiner` and
`InputsOnce` facts about the node instead of assumptions about its clients.
