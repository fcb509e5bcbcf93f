# A verification project for stonkfolio

Stonkfolio pays the trading fees of a coin back to its holders as baskets of
tokens.  A keeper (TypeScript, `src/keeper`) samples the holders at secret
moments of a window, buys a basket, computes what each holder gets, and has an
on-chain program (Rust/Anchor, `src/programs/stonkfolio-distributor`) hold and
pay it out.  The program is what outsiders rely on: it fixes the draw before
the randomness exists and pays each committed leaf once.  The keeper is what
must never lose money between two steps of a job that takes hours.

This directory holds TLA+ models of both, TLC configurations that check them on
small instances, and TLAPS proofs for every size.

Run from this directory:

    tlc -workers 2 -config RoundIntent.cfg MCRoundIntent
    tlapm RoundIntent_proofs.tla

## 1. Inventory

### On chain: `programs/stonkfolio-distributor/src`

| part | state | operations | what is hard | what makes it correct |
|---|---|---|---|---|
| sampling lifecycle (`round_intent.rs`, `commit_round.rs`, `distributor.rs`, `state.rs`) | `Distributor`, one `RoundIntent` and one `RoundHeader` per round | `open_round`, `close_window`, `record_seed` (anyone), `abandon_round`, `commit_round`, `propose/accept_root_authority` | two instructions never check the round id; the seed may be recorded by anyone at any moment; delays of a day and a week | one round at a time; the seed is determined; secret, window and price precede it; a discarded draw costs time and is counted |
| seed lookup (`slot_hashes.rs`) | none (reads a sysvar of the last 512 produced slots) | `find_seed` | skipped slots, entries dropped at the old end | the answer does not depend on when it is asked |
| round assets (`open_asset.rs`, `activate_asset.rs`, `payout.rs`, `sweep_excess.rs`, `close_asset.rs`) | a `RoundAsset`, a vault and a bitmap per asset; two masks in the header | open, activate, `push_payout`, `push_payouts`, `self_claim`, sweep, close, all permissionless | any order, repetition, donations, transfer fees, dishonest trees | paid once, solvent, conserved, nothing owed leaves before expiry, everything left returns after it |
| Merkle trees (`merkle.rs`, `lib/merkle.ts`) | none | `verify`, `verify_block` | the padded right edge | a proof verifies exactly for the leaves of the tree |
| price and mint vetting (`pyth.rs`, `token_utils.rs`) | none | checks on account bytes | stale, future or uncertain prices | only an acceptable price is recorded |

### Off chain: `keeper`, `lib`

| part | state | operations | what is hard | what makes it correct |
|---|---|---|---|---|
| collecting (`round/engine.ts`, `state.ts`, `distributor/client.ts`) | `state.json`: the collecting round, committed rounds; in memory `confirmedOpen` | one step at a time: open, snapshot, close, seed, commit, abandon | a step that throws saves nothing although its transaction may have landed, or lands later; restarts; a lost state file | the secret is saved first; what is on disk is what the chain fixed; every round ends |
| buying (`round/engine.ts`, `round/swapWallet.ts`) | per candidate a purchase (wallet key, pending funding and sweep, known swap, attempts), reservations, inventory, two ledger buckets | select, fund a throwaway wallet, swap, settle, sweep, reserve | a swap, funding or sweep that lands unanswered or late; reads that lag | bought once, booked once, all SOL and tokens come back |
| paying (`round/engine.ts`, `payouts.ts`) | per-asset progress | open, fund, activate, push, close | retries, backoff, leftovers | nothing credited twice or lost |
| revenue ledger (`coin.ts`, `feeSplit.ts`, `round/operations.ts`) | buckets of lamports, a journal of pending transactions | claim, split, charge, buy back, burn, settle | unconfirmed transactions, steps interleaving with round steps | every movement counted once |
| process lock (`lib/lock.ts`) | `keeper.lock` | acquire, release | crashes, two starters, a shared directory | one keeper per state directory |
| allocation (`round/allocate.ts`, `round/select.ts`) | none | pure functions | rounding | exactly the allocation is handed out |
| holder pages (`holders/source.ts`) | none | paged reads of all token accounts | pages read while tokens move, nodes that lag | the snapshot is no newer than its oldest page |
| mint vetting (`lib/tokens.ts`, `token_utils.rs`) | none | the keeper's and the program's checks of a mint | two languages, fees that change with the epoch | what the keeper buys the program opens and pays |
| trigger (`round/trigger.ts`, `round/policy.ts`) | none (reads the ledger) | open a round now? | an estimate is used long before the money | a round that opens can buy |
| swap guards (`jupiter.ts`) | none | price impact and slippage of a quote | a small reference quote, fees, rounding | what is refused is a shallow pool, what passes is not |
| publishing (`round/publisher.ts`, `lib/artifacts.ts`) | a git clone, the published bundle | write, commit, push, load again | crashes between git commands, foreign pushes | public before committed, and resumable |
| verification (`round/verify.ts`, `round/prepare.ts`) | none | what a reader recomputes from bundle and chain | inputs that were altered, boundaries | accepted exactly if it follows from the recorded round |
| launch pools (`migrator.ts`, `meteora/*`) | pending migrations in memory | migrate, read prices | retries from memory, two pools and two orientations | every full curve graduates; a price is a live one |
| monitor and pool watch (`monitor.ts`, `coin.ts`) | the pin; recorded pool settings | compare and alert | a check that throws half-way, a restart | a change is reported in the end |
| liquidity, Raydium | none or logs | see section 8 | | |

### How they interact

The keeper sends instructions as transactions.  A transaction is decided by the
program atomically, but its answer may be lost, and one that was given up may
still land within its blockhash's life (about a minute).  `record_seed` and
every asset instruction may also come from anyone else.  The program's accounts
are the only thing both sides share; the state file is the keeper's memory
across restarts, the lock file keeps a second keeper off it.  Inside the keeper
all coins step in one process and `settle` and round steps interleave at every
`await`.

## 2. Modules

| module | models | composed of |
|---|---|---|
| `SlotHashes` | `find_seed` and the sysvar | |
| `RoundDraw` | the abstract promise: one draw per round from an ideal beacon | |
| `RoundIntent` | the lifecycle of every round of one distributor | `SlotHashes`; implements `RoundDraw` |
| `RoundAsset` | all assets of one committed round | |
| `KeeperCollect` | the keeper's collecting half together with the program's lifecycle and the network between them | its own, coarser lifecycle |
| `KeeperPurchase` | the keeper's buying half: `buyBasket`, `buyOne`, `settlePurchase`, `sweepSwapWallet`, `reserveAssets` | |
| `MerkleBlocks` | `verify_block`, `verify` and `MerkleTree.blockProof` | |
| `ProcessLock` | `lib/lock.ts` over a file system | |
| `KeeperPayout` | the paying half: `activate`, `push`, `finishPaying`, `dueClose`, `closeExpired`, and self-claims | its own, coarser asset program |
| `CoinLedger` | `coin.ts`'s tick: claims, migration, split, payouts, buybacks, the journal, and the round's reserve and charges on the same ledger | |
| `Allocation` | `computeHolders`, the median price, `largestRemainder`, the passes of `allocateAsset` | |
| `KeeperPublish` | `prepare`, the git publisher, `loadPrepared`, `commit` | |
| `RoundVerify` | what the keeper records of a round and what `verifyRound` accepts | |
| `RoundTrigger` | `shouldOpenRound`, the pot and what is drawn from it until the coins are selected | |
| `MintVet` | the keeper's `vet` and the program's `vet_mint` of the same accounts | |
| `HolderPages` | `fetchHolders` over a chain that moves | |
| `SwapGuard` | the guards of `jupiter.ts` on a constant-product pool | |
| `LaunchPools` | the migrator and the price of a coin over its curve and its pool | |
| `MeteoraPin`, `PoolWatch` | the monitor's comparison with the pin; `watchPool`'s alerts | |
| `MCRoundData`, `MCServices` | sums: a behaviour is one part's, chosen at the start, the other parts' variables rest | the seven and five modules named in their headers |
| `Sums` | what the proofs need to know of sums over finite sets, of bounded counters and of quotients | |
| `*_proofs` | TLAPS proofs | the module they are named after; `RoundAsset_proofs` also the parts of `MCServices`, `Parts_proofs` those of `MCRoundData` |
| `MC*` | small instances | |

### RoundIntent

State: the clock (`slot`, `now`), the sysvar and, as history, every `produced`
slot; the authority pair; `next_round_id`, `expired_seed_abandons`; the
`intent` and `round` accounts by id ("None" is an account that was not
created).  One action per instruction, guards in the order of the code's
checks.  `RecordSeed` has no signer.  `NextBlock` finishes the block of the
current slot, pushes it on the sysvar and skips any number of slots.
A secret stands for its SHA-256 commitment, a chain head for the snapshots;
Pyth's price account is a reading `[price, conf, age]`.  `create_distributor`
is `Init`, its bounds `ConfigAssumption`.  `assets_root` and `artifact_hash`
are opaque to these instructions and left out.

`RoundDraw` has no accounts, clock or sysvar: a beacon that never forgets, a
target fixed where the beacon has not been, a draw that is the first value at
or after the target, and a counter of public draws thrown away unrecorded.
`DrawSpec` is that specification under the mapping *seed slot = draw, produced
slots = beacon, status = phase*.  It is what rules out that the 512-entry
sysvar, the skipped slots or the choice of the moment give the keeper a second
draw.

### RoundAsset

State per asset index: the account (`status`, allocation, tree, `claimed`,
bitmap), the vault's balance, whether it holds withheld transfer fees; the two
masks; which wallets' token accounts are usable; history of deposits, payouts
and tokens rolled over.  A Merkle proof is membership in the committed tree.
The trees are arbitrary: the program cannot see whether they promise more than
they allocate.  `vet_mint` refuses by mint only, so a refused mint is a leaf
nobody presents.  `close_asset` and `sweep_excess` assume that the root
authority's token account can receive.

### KeeperCollect

State: the chain (`next`, `intent`, `header`), `disk` (the state file),
`confirmed` (`confirmedOpen`), `pc` and `call` (the step in progress and the
transaction it waits for), `stray` (transactions in flight nobody waits for),
and history.  One action per branch of `advanceCollecting`: a step that only
reads and saves is one action; one that sends a transaction is split at the
wait, so that the chain, other people and crashes come in between.  `disk`
changes only where the code saves: after a step that returned, and in
`openRound` before its send.  `LoseAnswer` is a step that throws while it
waits (`confirmTransaction`'s timeout, an RPC error, `chargeTx` failing after
it); its transaction stays in `stray` if it had not been decided.

The lifecycle is `RoundIntent`'s, coarser: the age of a closed or seeded intent
(`new`, `ripe`, `expired`, `day`, `week`) replaces clock and sysvar.
A transaction lives about a minute, so none survives one of the longer waits,
and a snapshot does become due during it.  Buying and reserving are one
step that only advances the round (`BuyAndReserve`), as is `Prepare`.  Reads
are of the current chain: a lagging RPC node is not modelled.

### KeeperPurchase

State: every transaction by signature (`txs`), the SOL and tokens of each
throwaway wallet, the net SOL that left the keeper (`outflow`) and the tokens
that came; `disk` and `mem`, the state file and the object the step works on;
`pc`, the wait the step is in.  `KeeperCollect` could keep one copy because it
saves after every return; here the code saves in the middle of a step (a key
before it is funded, a signature before it is sent) and a throw between two
saves is what matters, so both copies are kept.  `Save` is `store.save`,
`Return` the save after the step.  `Abort` is a crash or any thrown read,
`SendThrew` a send whose answer never came, `SwapThrew` the one error the code
catches, `SweepRefused` a sweep the cluster refuses after it was written down (the mint froze the
wallet's account, say), as often as it likes.  A transaction in flight lands, fails or expires at any moment.

Every transaction costs one unit; an exact-input swap spends the budget and
delivers one unit of the coin, or none (the route pays an account the wallet
does not own), or fails and costs its fee.  Quotes, the guards on Jupiter's
transaction and `basket.vet` are answers.  A transaction reported expired never
lands (`EXPIRY_MARGIN_BLOCKS` in `lib/send.ts`), a funding transfer does not
fail on chain, and rent is part of the fee.  `Lagging` says which reads may be
answered by a node that is behind: the wallet's token accounts, its balance, its
history.  `unbooked` is what `debit` clamped, so that it can be spoken of.

### KeeperPayout

State: the chain's side of each asset (`onchain`, `funded`, `vault`, `claimed`),
the keeper's wallet, `flying` (activations in flight nobody waits for); `mem`
and `disk`, the round's part of the state file; `queue`, the blocks and parts of
blocks a push step still has before it, a set taken in leaf order (`Turn`); the two
clocks, which pass the expiry independently.  One
action per branch of `activate`, `push`, `pushBlock`, `finishPaying` and
`closeExpired`.  `Halve` splits a part that does not fit into one transaction
(`Room`: one unit per leaf and one more per account to be created), `PushRefused`
is one the program refuses, `PushNothing` one of which nothing is left to send.  Everybody else claims and, after expiry, closes.

A next attempt's time is only whether it has come (`resting`).  Transfer fees are
percentages rounded up and `GrossForNet` is `grossForNet`'s loop with its eight
corrections.  Which holders have a token account is fixed.  `SlowNearExpiry`
would let the round expire between an activation landing and the keeper looking,
in which case the tokens are both in the vault and back in the inventory for as
long as the vault stays open (`state.ts` 151); the runs leave that minute out.

### CoinLedger

State: the wallet's SOL of one coin, `tx` (what became of each signed
transaction), `ledger` and `pending` as on disk, the round's reserve and budget,
the tick in progress (`todo`, `busy`), and as history `booked`, how often a
transaction moved the ledger, and `drift`, the SOL lost in ways no booking tells
of.  One action per wait of a tick; the pairs sign/send, send/answer and
answer/settle are separate, because a crash, a refusal or a lagging read comes
between them.  `SettlePending` takes the whole journal at once, as the code saves
it once.  What a claim brings and a swap costs is any value of a set; a
transaction's age and a node's lag are counted in small units, with
`EXPIRY_MARGIN_BLOCKS` as `Margin`.  The round's steps use the same ledger
between a tick's other sub-steps.

### Allocation, MerkleBlocks

`Allocation` runs `computeHolders` (per-owner sums, average, lower median price,
minimum value) and then one action per pass.  Owners are numbered in the order of
their keys, because ties are broken by it.

`MerkleBlocks` has one action per way through `verify_block`'s loop.  SHA-256 is
ideal: a hash is the term it was computed from, a sorted pair the set of its two
nodes.  A leaf is its index and whether payee and amount are the committed ones.
The proof is chosen sibling by sibling as the loop asks for it, which tries every
proof.  The tree and the honest proof are those of `lib/merkle.ts`: the rows of the
constructor, up to the first of one node (`Depth`), and the siblings `blockProof` meets
in them (`Met`).

### HolderPages, MintVet, RoundTrigger, SwapGuard

`HolderPages` keeps the whole history of balances; each page is answered as of
some slot at most `Lag` behind.  All pages of a fetch name their slot, or none
does: of an index that leaves the slot out of one page only, the code would give
the snapshot too new a slot.  `FinalizeRows` first drops the rows without an amount,
then takes the last of each address, as the code does.  An amount that moves during the fetch between two
accounts may be read twice; the property promises age and completeness, not a
sum.

`MintVet` has the two vettings side by side, as the two languages have them, over
a mint account reduced to what they look at (owner, size, flags, extension
entries).  The rows of a listing are chosen as sets of positions, in
the order of the filters.  Between the vettings the mint's authorities act as the token
programs let them, on the entries the programs' own walk finds; a new fee takes two epochs.

`RoundTrigger` counts in units of 40 lamports, the largest in which every rent and
fee is whole.  It holds the two cost estimates apart: one decides to open the
round, another what is left to buy with.  `TriggerLeavesBuys` needs that `select`
returns at most `expectedBasketSize` coins.

`SwapGuard` is one buy against a constant-product pool (external) with a pool fee
and a transfer fee, and against answers of an API that is wrong.  `Slack` names
the rounding of the reference quote: for a coin so expensive that 0.001 SOL buys a
handful of its units, rounding hides an impact of its size.

### KeeperPublish, RoundVerify

`KeeperPublish` has an action per git or file command of `prepare` and the git
publisher, a clone with working tree, index, head, a possibly detached branch and
lock files, and a remote others push to.  A directory is absent, torn or whole.
`syncWithRemote` skips the pull when `ls-remote` shows no branch or fails, whatever
state the clone is in, and throws when the pull does.  A machine that stops inside a git command
(`CutShort`) may leave `index.lock` or a ref's lock, which no step removes, and a
commit's ref moved or not.  What others push touches other directories, so a rebase has
no conflicts.

`RoundVerify` runs a round through the program, then publishes and commits the
keeper's bundle or any other assembled from other policies, snapshots, seeds,
secrets, purchases and files; afterwards a copy of the directory may be damaged or
exchanged.  The list of snapshots it carries may be another's, or the round's own with the
slot of one entry changed: the chain records the hashes only.  The verifier reads the slots
of the snapshots that were drawn in their own files; for the others the
list is the keeper's word, and as the draw goes over the list in slot order,
`AcceptedFollows` promises the draw from the list that was published.  The purchase is held
against the sums over its transactions (`Total`).  Slots also stand for the seconds of the window,
and what the price checks say is a constant.  A purchase that understates the SOL it spent is
accepted (`verifyPurchase` asks for at least that much), and the header's expiry is
not held against the policy: both are so in the code.

### ProcessLock, LaunchPools, MeteoraPin, PoolWatch

`ProcessLock` has one action per file-system call of `acquire` and `release`,
because two keepers interleave between calls.  `Concurrent = FALSE` lets one
process at a time be inside `acquire`.  `Age` is the grace period for an unreadable
file; a live writer is assumed to finish its 2-line write within it.

`LaunchPools` has the migrator's poll, read, send and their failures, and the two
reads `poolPrice` makes with a migration in between.  Nothing can be bought from a curve
that is full until it has migrated; `poolPrice` answers the price at which the curve filled
meanwhile, and `PriceIsLive` names that case as the exception to `price.ts` 1 ("whichever
pool the coin currently trades in").  `MeteoraPin` reads the pinned
entries one at a time, and a failed read takes the findings so far with it.  An authority
may be handed back and an account rewritten as it was (`Restore`): such a change is reported
unless it is undone before a check has come to its end.  A deployment's slot and a closed program
never come back, so those are reported always.
`PoolWatch` compares, alerts and saves as three steps of a tick that may fail.

### The sums

`MCRoundData` and `MCServices` join components that share no state, so that one
run asks several questions: `part` is chosen initially and never changes, the
variables of the other parts are constant, and every safety property speaks of its
own part only.  The temporal ones hold of a part at rest by themselves.  As no two
parts have a step in one behaviour, one fairness condition of `MCServices` (`Takes`,
`Answered`, `Landed`) serves a step of each.

## 3. Runs

All runs are TLC on two workers and finish within two and a half minutes.

| run | question | result |
|---|---|---|
| `round_intent` | two keys, two rounds, every order of instructions, blocks and skipped slots | holds: `Lifecycle` (types, one live round, sampling order, discarded draws counted, a pending authority is another key), `SeedIsFirstBlock`, the refinement `DrawSpec`, and `ClosedRoundEnds`: with nobody recording the seed and the secret lost, a closed round still ends |
| `round_asset` | two indices, six asset leaves (honest, duplicate index, over-promising, paying the account itself, foreign, index too large), any instruction at any time | holds: `Solvent`, `PaidOnce`, `AccountsAgree` (masks, bitmap and `claimed` agree with what happened, tokens are conserved, an unpaid leaf stays payable), `UnclaimedStayUntilExpiry`, and `LeftoversReturned` after expiry |
| `keeper_collect` | two rounds under three faults of any kind, late transactions, a lost state file | holds: `RoundKept` (secret saved, snapshots fixed, committed rounds tracked), `BoughtForIsKept`; `OnlyOpenWindowsStall`: a round ends unless its window was closed or abandoned on chain in a step that did not get to its save |
| `keeper_collect_abandon` | `engine.ts` 22, "Nothing waits forever", when the answer to an abandon is lost | violated, see section 6 |
| `keeper_purchase` | one coin in up to two attempts under three faults, late, failed and unanswered transactions and two lagging token reads | holds: `BooksAgree` (SOL and inventory), `NothingStranded`, `BoughtOnce`; `BuyingEnds`: buying ends unless sweeps are refused for ever |
| `keeper_purchase_lag` | the same if one balance read lags (`swapWallet.ts` 4: everything in the wallet comes back) | violated, see section 6 |
| `keeper_payout` | two assets, one with a transfer fee and a mint that may refuse, leaves that are small, refused for now or for good, blocks of two, claims, foreign closes, two clocks and a fault anywhere | holds: `InventoryBacked`, `LeftoversBooked`, `CompleteMeansServed`, `PayoutEnds` |
| `keeper_payout_close` | `engine.ts` 830, "leftovers are always recovered after expiry" | violated, see section 6 |
| `coin_ledger` | two signed transactions of any kind, a step of a round, a fault anywhere, nodes that lag | holds: `SettledOnce`, `DriftExplained`, `SpendStillCovered` |
| `round_data` | seven questions about a round's data, each over all of its part | holds: `TriggerLeavesBuys`, `VettingAgrees`, `OpenedStaysPayable`, `SnapshotFaithful`, `GuardJudgesDepth`, `SplitIsFair`, `VerdictIsRight`, `AcceptedFollows`, `OwnIsAccepted` |
| `services` | the lock with keepers that start one after the other, publication and commit, two launch pools, the monitor, the pool watch | holds: `OneKeeper`, `LoneStarterWins`, `PublicFirst`, `OnlyNamedStalls`, `PriceIsLive`, `EveryPoolGraduates`, `DriftReported`, `PoolChangesAlerted` |
| `process_lock_race` | the lock with keepers that start together (`lock.ts` 44) | `LiveLockKept` violated, see section 6 |

### Bounds and why they are enough

- `RoundIntent`: `HashWindow = 2` is the smallest sysvar in which an entry can
  age out while a later one is still found; `MaxSkip = 1` and `MaxSkipped = 1`
  let the target slot be skipped once; `SeedSlotOffset = 1`; delays of 4 and 5
  seconds at one second per block are reached within `MaxWait = 10` seconds
  after a close.  Two rounds show the order between rounds, two keys a
  hand-over in the middle of one.  The proofs remove all of these bounds.
- `RoundAsset`: deposits up to 3, blocks of two leaves (`MaxBlockLevel = 1`,
  with level 2 tried and refused), `Expiry = 1` with one tick after it.  Two
  indices, so that an instruction for one can damage the other; up to three
  leaves, so that a block lies at the edge of the tree.
- `KeeperCollect`: two rounds (the successor of an ended one), two snapshots
  (one more than the close needs), three faults (a lost answer, a crash and
  one in the recovery), one loss of the state file.  One reading, as what is in a
  snapshot matters only through which snapshots there are.  Deadlock is not
  checked: the run out of round ids is where the model stops.
- `KeeperPurchase`: `CoinCount = 1`, because purchases share only the bucket,
  and a pot too small and one large enough for the clamp both occur; two
  attempts, so that a wallet is abandoned for the next; `MaxAborts = 3` faults;
  `MaxLags = 2` with `MaxChecks = 3`: the second look finds a delivered token
  only if it is taken more often than nodes lag, as the code's five are meant.
  Deadlock is not checked: the model ends with the basket reserved.
- `KeeperPayout`: two assets (plain and with a 20% fee that rounds), two leaves
  each and `BlockSize = 2`, so that a block is one of two: with a leaf not worth
  its rent, refused, fatal, or too large with its neighbour.  Two attempts and
  two pushes a step let every limit be reached.  One fault, at any point, since each is
  recovered from by the next step; the retries are not faults.  Deadlock is not
  checked: a round that is over stays so.
- `CoinLedger`: the tick is a sequence, so two transactions give one that is in the
  journal while another starts, and `Lag = Margin = 1`, `Life = 0` every order of
  landing, being seen and being given up.  One fault and one step of a round.
- `RoundData`: five owners with an account more than one of them, two samples,
  pools of up to four leaves of which three are allowed; trees of one to six leaves (five is the
  first in which a node is carried up twice, six the first in which a pair is)
  and level 2, above the root of the smallest; pages of one row with three
  accounts and slots one behind; every mint with one extension entry and every pair of the
  entries that interact; pots around the trigger's threshold with a basket of three where the
  default is thirty; one sample of up to two snapshots in what is verified.  Deadlock is not checked: a part ends.
- `Services`: three local processes (the dead owner and two more starters) and one foreign one,
  `Attempts = 3` as in the code; two crashes, two lost commands and two foreign pushes while
  publishing; two pools with opposite orientations; three pinned
  entries; two fees and statuses and two failed ticks.

### Fairness

- `RoundIntent`: blocks keep coming, and the root authority keeps sending
  `abandon_round` once a window closed.  This is the weakest way out: neither a
  recorded seed nor a known secret is assumed.
- `RoundAsset`: time passes and somebody retries `close_asset`
  (`closeExpired`, and it is permissionless).
- `KeeperCollect`: the process is restarted (systemd), the loop keeps stepping,
  time passes, a sent transaction is decided.  Strong fairness on a close
  landing: it may be refused while the price is unusable, but not for ever.
- `KeeperPurchase`, `KeeperPayout`: the loop keeps stepping and, in the first, a
  sent transaction is decided; in the second, a wait for a next attempt ends.
  Crashes, thrown reads and lost answers are bounded; no answer is assumed, and refused
  sweeps are not bounded (`BuyingEnds` names them).
- `KeeperPublish`: the loop keeps stepping.
- `ProcessLock`: a process that does not crash keeps running its code.
- `LaunchPools`, `MeteoraPin`: the polls go on; strong fairness on each read, and on
  a migration landing: a call tried again and again is answered some day.
- `PoolWatch`: the ticks go on; failed ticks are bounded.

The properties about stalls (`OnlyOpenWindowsStall`, `OnlyNamedStalls`,
`PayoutEnds`) say what holds *from some time on*: a normal step passes through the
same conditions, and passing through must not count.

## 4. What is proved

For every value of the constants, under the assumptions the modules name:
`ConfigAssumption`, `BoundsAssumption` and `AssetAssumption` (the checks
`create_distributor` makes and what the runtime guarantees), `KeeperAssumption` (types
of the bounds; at least one snapshot fits), `LedgerAssumption` (the journal's margin is
no shorter than the nodes' lag, and a surplus is refused at least once before it is given up, as
`SURPLUS_REFUSALS_BEFORE_DONE = 3` at `coin.ts` 78), `PurchaseAssumption` (types of the bounds; a coin, an
attempt and a fee), `PayoutAssumption` (types of the bounds; at least two attempts to activate,
`maxActivationAttempts` being 5 at `config.ts` 110; a transfer fee below 100%), `TreeAssumption` (a tree allocates at most what its
reservation brings into the vault after the fee, as `allocate.ts` 216 builds it), `PublishBounds`
(publishing's bounds are numbers), `LaunchConstants` (a curve is full at a price there is),
`VetConstants` (mint accounts have the fields the vettings read; the keeper's fee cap is within
the program's, both 300 basis points at `config.ts` 99 and `state.rs` 24; the coin under study
is none of the platform's own), `PageConstants` (types of the bounds; accounts are numbered
from 1), `SplitConstants` (types; holders, accounts and samples are finite, and there is a
sample), `TriggerConstants` (types; a swap's overhead of at most 0.01 SOL, `SWAP_OVERHEAD_LAMPORTS`,
and at most 0.02 SOL a coin lost of the pot between close and buying), `SnapshotsBounded` (a
round takes finitely many), `EvidenceIsTrue` (the keeper's evidence names transactions that
are there, succeeded and add up), `TreeConstants` (a tree has leaves; the instance has the
trees and levels its other parts rest in), and `SwapConstants` (types; fees, slippage and the cap on
the transfer fee below the whole, none charged by the old token program; a swap's fees within the
overhead it is allowed; and pools deep enough for a quote at each size bought, and at its
reference, to buy a unit of the coin after all fees: a smaller quote is refused as none).

`Sums`: sums are recursive, and the library's induction theorems cannot be used here, since
they take a predicate.  The module does the same induction over a *set of sets*: the family
of subsets for which the claim holds contains the empty one and grows by one element, so it
contains them all.  From it come the sum's laws (empty set, one element added or changed,
equal terms, all zero) that the books below rest on.  The same way: a ranking gives the
members of a finite set the ranks 0, 1, ... so that exactly `k` of them are the first `k`
(`RankingInOrder`), and the shares of a largest remainder add up to the whole, stay
within a unit of the exact ones and follow the weights.  Its last part is about quotients: a quote that is
rounded down three times is within three units of the product without roundings (`QuoteLies`), and a
ratio of two such quotes within one and 30000 parts of the smaller of the ratio of their depths (`RatesLie`).

`RoundIntent_proofs`, of its module `SlotHashes`: `FindSeedMeaning` says what each answer of the lookup
means for any content that is the newest part of the produced slots;
`PushKeepsSysvar` that every new block keeps it so.

`RoundIntent_proofs`: `IInv` adds to the listed invariants what each status has
already fixed (`IntentOK`, `HeaderOK`) and that the sysvar has no gaps
(`Sysvar`).  `SeedIsFirstBlock` alone is not inductive: that the recorded slot
is the *first* at or after the target follows only if nothing between the
target and the newest entry was dropped.  `OneLiveRound` is needed by
`close_window` and `record_seed`, which do not check the round id.  From it:
`TypeCorrect`, `RoundsAreSequential`, `SeedIsDetermined`, `SecretBeforeSeed`,
`NoDrawSkippedUncounted`, `HandOverChangesAuthority`, all of which together are
`LifecycleKept` (the invariant the run checks), the action properties
`DiscardIsCostly` and `ExpiryIsFinal`, and `ImplementsDraw`
(`Spec => DrawSpec`): one lemma per instruction.

`RoundAsset_proofs`: the three payout instructions are reduced to one effect
(`PaysOut`); `IInv` ties the bitmap and `claimed` to the history of payments
while the account exists, and says that before an index is opened nothing was
paid: closing forgets the bitmap, so `opened_mask` is what prevents a second
life.  From it: `TypeCorrect`, `AlwaysSolvent`, `NeverPaidTwice`,
`MasksTellTheTruth`, `TokensConserved`, `OwedStaysUntilExpiry`.  `AccountsAlwaysAgree` adds
the counters: `claimed` is the sum over the leaves the bitmap marks, for trees of any size.

`RoundAsset_proofs`, of the lock: for any number of keepers on any machines, if no two are
starting at once (`Concurrent = FALSE`) and there is at least one attempt.  A
keeper past the creation of its file owns the file that is there, so two of them
are one.  What could break this is a removal: a keeper about to remove saw no
file, a dead holder, or a file so old that its writer is dead, and as it is the
only one starting, nobody has become a keeper since (`RemoveUnheld`).  From it:
`OnlyOneKeeper` and `LiveHoldersKeepTheirLock`.

`KeeperCollect_proofs`: file and chain are not inductive by themselves, because a
transaction may land when nobody waits for it.  `IInv` therefore says of each one in
flight what it can still do (`TxOK`): an open carries a secret that is on disk, a close no
more snapshots than the disk has, a commit those the chain fixed, with the round still on
disk.  The hard one is the abandon sent while the window was open, which could hit the
same round after it was closed, seeded and bought for: it may only do so a week later, no
transaction lives that long, and one sent later comes from a keeper that has taken another
snapshot since and so cannot have adopted the window (`AbandonOK`, `StaleSeeded`).
`LandKeeps` is the step in which a transaction lands, `TimeKeeps` the one in which time
passes; the keeper's own steps are reduced to five effects on the file.  From it:
`RoundsAreKept` and `NeverDiscarded`.

`CoinLedger_proofs`: what can still land is in the journal (`CanLand`), and what landed
unseen did so within its life (`Shown`), so an entry given up after the margin has neither
landed nor ever will.  From it: `LedgerMovesOnce`, for any number of transactions, crashes
and lost answers.  A second invariant, `AmountInv`, is about the amounts: where a tick can be
(`Places`), what a withdrawal has planned (`Withdrawal`), that the open round's reserve covers
its charges (`RoundBacked`), that the wallet is the ledger plus what landed and is still
journaled, less the losses `drift` counts (`Explained`), one sent transaction per label
(`OneSent`), and that a sent spend's bucket still holds it (`Covered`).  `SettlePending`, which
books the whole journal at once, is a sum over it.  From it: `WalletIsExplained` and
`SpendsStayCovered`.

`RoundAsset_proofs`, of publishing and of prices, as theorems of `ServicesSpec`, of which a
behaviour is one part's.  Publishing: each place a step can be at says which copies of the
bundle are whole, a crash forgets the place, and only a step that came to its end saves the
round as prepared; from it `AlwaysPublicFirst`.  Prices: a pool never leaves graduation, so
the second read finds the pool where the first sent it, and whatever the price does between
the two is watched (`ReadingIsWatched`); from it `PriceStaysLive`, for any number of pools.

`Parts_proofs`, of vetting and of pages, as theorems of `RoundDataSpec`.  Vetting: the two
filters are compared entry by entry, so what passes the keeper's at its cap passes the program's
(`KeeperThenProgram`); a coin that was left out although it passes had no room
(`FirstOnesCount`); and `VetIInv` says of an opened asset that each entry the program saw is
out of its authorities' reach (`StaysPayable`) or a fee that was set for two epochs later.
From it: `VettingsAgree` and `OpenedIsPayable`.  Pages: the rows of a fetch are true to the
lowest slot any of its pages was served as of, up to the cursor (`FetchTrue`); a transfer adds
a slot and takes nothing from what was seen before, the next page adds the accounts up to its
own cursor, and `FinalizeRows` loses none that held a balance throughout (`ResultTrue`).
From it: `SnapshotsAreFaithful`, for any accounts, pages, transfers and lags.

`Parts_proofs`, of the split.  The passes drop holders, and what makes them fair is who is left:
always the largest of the eligible, ties by key, because a larger holder's share is never
the smaller one (`HeirsShare`).  What they get are the shares of `Sums` for those weights, so nothing is left
over and nobody is more than a unit away from the exact share.  From it: `SplitsAreFair`, for any holders,
samples, limits and number of passes.

`Parts_proofs`, of the trigger.  The two cost estimates are put in one inequality: a window is
closed only with a pot of twenty times what paying every eligible holder every expected coin costs
(`PotCovers`), and this leaves something to buy with after the reserve and the overhead of every swap, for
any smaller number of coins.  From it: `TriggeredRoundsBuy`.  How much may be lost of the pot
in between is a hypothesis, since a debit of other spendings is not bounded by the code.

`Parts_proofs`, of the verifier.  `VerifyIInv` says what the program's records are of the round
alone (`Closed`, `Seeded`), whatever was published.  The chain of hashes is injective for lists of one length
(`ChainBinds`), so an accepted list has the hashes of what was taken (`ListBinds`) and each drawn snapshot
is the one that was taken; the purchase's sums are those of transactions the chain has.  From it:
`AcceptedBundlesFollow`, and in the other direction, where the keeper's own inputs pass every check,
`OwnBundlesAccepted`.

`Parts_proofs`, of the trees.  A row's length and a node's leaves are given by powers of two,
the last one clipped at the edge (`InRow`, `SameLeaves`).  A node in which two meet is known by its
leaves (`NoneHigher`), and a claimed leaf hashes with its own index, so by induction over the climb its hash *binds* its
place: if it is a node of the tree at all, then one with the leaves of that place (`Binds`), and
it is that node exactly if the leaf is the committed one and every sibling so far is the tree's (`Climbs`).
This is why a proof needs no sides, and why neither another block's proof nor
one of another length fits.  Induction over the rows is over a set of row numbers, as in `Sums`, and the
recursive definitions are reached through the values of their functions (`TwoToAt`).  From
it: `VerdictsAreRight`, for trees with any number of leaves and blocks of any level.

`Parts_proofs`, of the checks on a buy.  `Kept` says of each stage what was compared so far: an honest
quote is the pool's, the impact that was measured is the one of the pool's two quotes (`JudgedBy`), and
a transaction that was simulated does what it showed.  An honest quote has one factor for the pool's fee
and the coin's, the same for both sizes (`HonestQuoteLies`), so that they cancel in the measured
ratio and the depth is left (`MeasuredIsReal`); `Slack` is what the roundings of `RatesLie` can
add.  An honest swap that does not fail delivers its quote's minimum less the transfer fee, whichever of the two
the minimum was stated for (`HonestDelivers`), and what was agreed is within a unit of the quote less
slippage and fee (`AgreedIs`).  From it: `BuysAreJudgedByDepth`.

`KeeperPurchase_proofs`: two invariants.  `IInv` is about the records: memory is the disk
except while a sweep is planned, and whatever is in flight, or landed and not booked, is on
the record of the one coin at hand.  It holds whatever the nodes answer and gives
`InventoryIsBooked` (what the keeper's wallet holds of a coin is in its books or on a
record).  `WInv` is about the wallets, and needed because the code drops a key on the word
of a read: nothing is in a wallet before its key is saved (`UnusedUntouched`), what an open
one holds is what one funding, one swap and the sweep on record leave (`OpenOK`), and a
dropped one is empty (`DroppedEmpty`); `IInv` says that nothing is in flight to it.  It is kept under
`NothingLost`: no read but the tokens' lags, and fewer of those do than a pass looks again.
The hypothesis cannot be dropped: `keeper_purchase_lag` violates it and strands a wallet.
From it: `NothingIsStranded` and `CoinsAreBoughtOnce`, for any number of coins, attempts,
crashes and expired transactions.

The books in SOL need a third, `BInv`, and it too holds whatever the nodes answer.  The sum
over the basket of what is still to be booked is the debt of one record, that of the open
wallet (`OnRecordIsDue`), because every other record has nothing in flight.  What left the
pot is then what the buckets lack plus that debt plus the fee of each sweep that failed
(`Balanced`); it is kept because records name transactions that exist (`ReferencesOK`) and a
wallet swaps at most once (`SwapsOnce`).  From it: `StateFileAgrees`, the whole of
`BooksAgree`.

`KeeperPayout_proofs`: for any assets, leaves, fees, limits, crashes and lost answers.  `IInv`
says of the chain what each status of an asset has moved (`ChainOK`: nothing before it is active,
then the vault is the allocation less what the bitmap paid), and the same of *both* files: an
asset is `PendingOK`, `ActiveOK`, `GivenUpOK` or `ExpiringOK`, and what is given up
for good before the expiry is refused or not worth its rent (`FailuresOK`).  Every step is proved in two halves: the
chain moves and no file becomes wrong by it (`LandingKeeps`, `PayKeeps`, `CloseKeeps`), then
a file follows.  Three facts carry it.  What is sent never brings more than what is allocated
(`GrossIsGuess`), so the step that finds an asset already active books what the lost one would
have.  A reservation is given back only for an asset that is not on the chain and will not be,
since an attempt is counted against an asset that can still land only once.  And the parts in
the queue never overlap (`QueueOK`), so no leaf is failed or paid for twice by one step.
From it: `PayingIsKept`, `PayoutsKeepInventoryBacked`, `PayoutsBookLeftovers` and
`CompleteRoundsServed`.  Two hypotheses are stated in the theorems.  `SeenInTime` is
`SlowNearExpiry = FALSE`, without which tokens are counted twice for as long as the vault is open
(section 2).  `GrossConverges`, for `CompleteRoundsServed` only, says that what is sent for a
whole tree does bring its allocation; where the eight corrections miss it the program refuses the
activation and a round is complete with the asset unserved (section 6).  It holds of the run's
instance.

## 5. Only model-checked

Liveness (`ClosedRoundEnds`, `LeftoversReturned`, `OnlyOpenWindowsStall`,
`BuyingEnds`, `PayoutEnds`, `OnlyNamedStalls`, `LoneStarterWins`,
`EveryPoolGraduates`, `DriftReported`, `PoolChangesAlerted`): fairness and ENABLED
are outside the prover's reach.  Every safety property of a passing run is stated by a theorem.
`CoinLedger` has no liveness property: a tick always ends, and what
it does not settle waits for the next.

## 6. Disagreements found

By a run:

1. `keeper_collect_abandon`: an abandon that lands without the step finishing
   leaves a round that is OPEN on disk and abandoned on chain.  `collect` throws
   on it at every step, also after a restart.
2. `keeper_purchase_lag`: one `getBalance` answered by a node that has not seen
   the funding makes the wallet look empty; its only key is dropped.
3. `keeper_payout_close`: leftovers are booked only by the step whose own close is
   answered.  If the answer is lost, or somebody else sends the permissionless
   close, they stay in the wallet and in no book.
4. `process_lock_race`: of two keepers starting over a dead one's lock the
   slower may unlink the faster one's fresh lock.

Named as the exceptions of properties that hold:

5. A close that lands without the step finishing is not noticed while
   `confirmedOpen` is set; the next snapshot makes the window unadoptable for good
   (`engine.ts` 361, 399; `Unadoptable` in `OnlyOpenWindowsStall`).
6. Publishing can stall for good when the machine stops inside a git command that leaves its
   lock file, and, if there is a remote, between `git add` and `git
   commit`, while a changed bundle is copied again, or within a rebase
   (`Interrupted`), and when a purchase was booked without its signature
   (`NoEvidence`), all against `engine.ts` 22.
7. All of the pot is shared out and the buys' own fees come on top; the debit is
   clamped and the ledger ends above the wallet (`unbooked` in `BooksMatch`; `docs/runbook.md` 102
   says the wallet holds at least the sum).  The fee of a sweep that fails on chain
   is not booked either.
8. The ledger and the wallet drift apart through failed transactions' fees, claims that
   cost more than they bring, migrations, and burns or round steps whose answer was lost
   (`drift` in `DriftExplained`; `coin.ts` 219, 228, 233, 243).
9. A swap wallet that can never be emptied, because its sweep is refused every time, keeps its
   round in SEEDED: `settlePurchase` comes before everything else (`engine.ts` 527) and only
   a week later may the round be abandoned, by hand (`SweepRefused` in `BuyingEnds`), against
   `engine.ts` 22.
10. A pool whose curve is full and not yet migrated has a price though nobody can trade
   there (the last disjunct of `PriceIsLive`; `price.ts` 1).

Seen while modelling and not part of a run: the runbook (line 169) and `lib.rs`
(71) say a seeded round can't be abandoned; after seven days it can (`state.rs` 84),
as the trust model states.  `grossForNet`'s eight corrections do not reach their
target at a 3% fee for amounts from about 10^14 units (`client.ts` 391).  Three
preflight refusals of a surplus withdrawal for want of SOL count as the program's and
give the surplus up (`coin.ts` 291-305).  The trust model (line 55) counts the sample selection among what
anyone can check; of the slots it sorts by, only those of the drawn snapshots are checked
against a snapshot (`prepare.ts` 155, 176; section 2).

## 7. Plan

1. Done: lifecycle, assets, lock and their proofs; the keeper's collecting, buying and
   paying halves; the ledger; the data of a round; the services beside it; the safety of
   collecting, buying, of the ledger and of publishing as theorems, the books included.
2. Done: paying's three invariants, publication and prices, vetting and the pages of holders as
   theorems of the specifications the runs check.
3. Done: the rest of `round_data`'s safety as theorems: the split, the trigger, the
   verifier, the trees and the checks on a buy.
4. Next: the composition of `KeeperPurchase` with `CoinLedger` over one ledger.

## 8. Not modelled, and why

- `liquidity.ts`: no part of the running keeper calls it.  `raydium/*`,
  `addLiquidityAndLock` and the pin of the locked position: launch-time code around
  third-party SDKs.
- `hasTransferHook`, `client.pushPayout`, `priceImpactBps`, `simulateSwap`: helpers
  no part of the running keeper calls.
- `LocalDirectoryPublisher`: a directory copy; canonical JSON and file formats: hashes
  are ideal.
- Generated Anchor client, scripts other than `self-claim` and `verify-round`,
  deployment, tests.
- Errors, events and logs: a refused instruction is an action that is not
  enabled; nothing reads the events.
- Byte layouts of price, mint and sysvar accounts.
