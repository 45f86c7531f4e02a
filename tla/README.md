# MorpheusVM, its faucet and its clients in TLA+

This directory is the verification project of hypersdk-starter-kit: TLA+
modules of the VM's state machine, of the faucet and of its clients, TLC configurations that
check them on small instances, and proofs that TLAPS checks for every instance.

- [1. The system](#1-the-system)
- [2. Modules](#2-modules)
- [3. Runs](#3-runs)
- [4. Proofs](#4-proofs)
- [5. Where code and documentation part](#5-where-code-and-documentation-part)
- [6. What is left out](#6-what-is-left-out)
- [7. Plan](#7-plan)

To repeat a check: `tlc -config MCBlocks.cfg MCBlock`, `tlapm
BlockExecutorProofs.tla`. `PROJECT.json` lists the runs, the mutants that show
that each property can fail, the source lines of every definition, the hazards
of the code and the properties that watch them.

## 1. The system

The repository is a blockchain VM with one action, written against hypersdk,
together with what is needed to try it: a faucet, a command line, a web wallet
and scripts that start a local network.

| Part | State it keeps | Operations | Made correct by |
|---|---|---|---|
| balance store, `storage/storage.go` | one record of 64 bits for each account; no record means 0 | `GetBalance`, `AddBalance`, `SubBalance` on a view of the database | no coin made or lost, no wrap-around |
| state manager, `storage/state_manager.go` | none | `SponsorStateKeys`, `CanDeduct`, `Deduct`, `AddBalance`: the hooks for fees, refunds and genesis | check and deduction agree; the declared key is enough |
| transfer, `actions/transfer.go` | none | `StateKeys`, `Execute` | all or nothing in the end; keys declared are keys used |
| block execution, hypersdk | a view for each transaction, the block's database | fee, actions, rollback, commit; transactions in parallel where keys allow | parallel execution is invisible |
| genesis, `genesis generate` and hypersdk | the file, the list of allocations in it | write the file; one credit for each allocation | a file is loaded as a whole or not; every allocation counts; the supply fits 64 bits |
| faucet, `cmd/faucet/faucet.go` | readiness, rate limiters, one RPC client with a cached genesis, one WebSocket connection with one queue | first transfer, `/faucet/{address}`, `/readyz` | coins once at most for a request, truthful answers, every request answered |
| RPC client and server, `vm/client.go`, `vm/server.go` | the cached genesis | `Genesis`, `Balance`, `Parser`, `WaitForBalance` | no race for the cache |
| `morpheus-cli` | keys and chains in a local database, which one process at a time can open | `transfer`, `sendAndWait`, keys, chains, genesis, spam | a key reported as made can sign and is the default; a transfer in the range that is offered fails for known reasons only |
| wallet's gate, `App.tsx`, `Faucet.tsx` | signer, loading count, error | connect, ask the faucet, poll | opens for funded accounts only; no wallet outlives its address |
| wallet, `Wallet.tsx` | balance, ABI and inputs of actions with their loading flags and errors; the last blocks and a subscription | fetch, refresh, type, execute, listen to blocks | shows what is of the present address; says that it loads when it does; ends its subscriptions |
| test workload, `tests/workload` | the chain of balances it expects | generate and confirm transactions | expects what the chain gives |
| node binary, registration, scripts, images | none | start, build, deploy | |

How they interact. The node calls the state manager's hooks and the action's
`StateKeys` and `Execute` for every transaction of a block, on a view that
allows the declared keys only. The server reads the same records outside of
block execution. The faucet's goroutines, the CLI and the wallet are clients:
they make a transfer, hand it to a node and wait for a message about it, the
faucet's goroutines on one shared connection. The wallet reaches the faucet
over HTTP; the scripts and `compose.yml` start the faucet anew when it exits.

What is hard about it:

- a transfer is two writes, the second may fail after the first, and the action
  does not undo the first;
- transactions of a block run in parallel on the word of their declared keys,
  and an account that sends to itself declares one key twice;
- 64-bit sums are safe only by a bound on the whole supply, established by
  another part, the loading of the genesis;
- faucet requests share a queue of results, take each other's messages and give
  up at a deadline, while the node executes, drops or forgets their transfers;
- calls fail, the connection breaks and is never reopened, the process is
  restarted with transfers under way;
- the wallet's requests overlap, their answers come back in any order, and they
  outlive the address and the page they were made for;
- a component is taken down while its subscription is still being made; the
  development build runs every effect of a mount twice;
- several terminals use one database of keys, and a command there is two writes.

## 2. Modules

```
Storage ── Transfer ──┬── BlockExecutor ──┬── MCBlock        Bank (abstract)
   │                  │                   └── BlockExecutorProofs
   │                  ├── Faucet ──┬── MCFaucet     FaucetPromise (abstract)
   │                  │            └── FaucetProofs
   │                  ├── CliTransfer ──┬── MCCliTransfer
   │                  │                 └── CliTransferProofs
   │                  └── StorageProofs (extended by the four other *Proofs here)
   └── Genesis ──┬── MCGenesis
                 └── GenesisProofs
                                            WalletGate ──┬── MCWalletGate
CliKeys ──┬── MCCliKeys                         │        └── WalletGateProofs
          └── CliKeysProofs                     │ implements
                                             Screen (abstract)
                                                │ INSTANCE
                      WalletView, LatestBlocks ── Wallet ──┬── MCWallet
                                                           └── WalletProofs
```

**Storage** has the operations of the balance store and of the state manager as
operators: they take a database, the scope (permissions by key) of the view and
their arguments, and give the error, the balance returned and the database
left. `Absent` is the value of a key without a record. An address stands for
its balance key, which contains all of the address. `Supply` counts coins as
the cardinality of a set of pairs, which keeps recursion out of the modules the
proofs reach.

**Transfer** has `StateKeys` and `Execute`. A memo is its length. The outcome of
a failed `Execute` shows the half that was done, as in the code.

**BlockExecutor** is the executor of hypersdk as this code depends on it.
`Reject`, `Abort`, `Begin`, `RunAction`, `FailAction`, `Finish` and `Commit` are
the steps of one transaction; transactions interleave unless they share a
declared key. `view` is the transaction's view of the database, `paid` the
checkpoint its actions are rolled back to. Fees are burned. A fee of zero is
included, since the unit prices come from the genesis file
(`genesis.go:43-48`).

**Bank** says what a block promises without records, permissions, views or
limits: transactions settle at once, in block order where they share an
account. `BlockExecutor!ImplementsBank` is the refinement: the balances are the
committed records, a transaction is pending until it ends (`BlockExecutor!Shown`).

**Genesis** is the way of a list of allocations (`allocs`) from the command to the
database. `GenerateGenesis` writes the file, which `WriteFile` truncates first: a
command that is cut short leaves it torn, with some beginning of the list, one that
fails before leaves the old one.
`Start` is a node that starts with whatever file there is, and `Allocate` one
turn of hypersdk's loop: the supply is added up with an overflow check, then the
`AddBalance` hook is called. The command writes the list it is given without a
look, so repeated addresses, zeros and sums that do not fit are inputs. What
it establishes, `SupplyIsSum`, is what BlockExecutor assumes of its initial
databases.

**Faucet** is the faucet process and the chain and connection it talks to.
`pc[p]` is the place of a goroutine in `transferCoins`: `balance`
(`CheckBalance`), `parser` and `fetch` (`ReadGenesis`, `FetchGenesis`: the read
and the write of `cli.g` are two steps), `generate` (`RegisterTx`), `listen`. The
goroutine of `main` is a process like the requests, and `Return` is where they
differ: a request is answered, main becomes ready, tries again or exits; a ready
main listens on its port (`Serve`), or exits when it is taken. `Readyz` is what
`/readyz` answers. The loop of `ListenTx` is one step for each message. The node
has `Receive`, `Accept` (the transfer executes by `Storage` and `Transfer`) and
`Expire`; the environment has `LoseConnection`, `CallFails` and `Restart`.
`BalanceReply` is the balance as `vm/server.go` reads it and `vm/client.go`
returns it.

**FaucetPromise** says what a request is promised: coins arrive for it at most once
(`paid` counts how often they have), "sent" only after they arrived, no coins after
an answer that says there will be none. After any other error it promises no more than
the first, since in the code the transfer may already be out. `Faucet!KeepsPromise` is the
refinement; `Faucet!Payments` counts the transfers.

**WalletGate** is the page that stands between a connected signer and the wallet:
`App.tsx` mounts the component of `Faucet.tsx` (`SignerConnected`), whose effect
starts a run of `performFaucetRequest` (`Effect`). Render and effect are two
steps: in between the page is shown with the state it had. `runs[i].pc` is the
place of a run: `check` and `poll` await a balance, `ask` and `asked` are before
and after the POST of `VMClient.ts`. A run is never cancelled: it outlives its
address and its page, and changes `loading` and `failed` only while the page it
belongs to is shown (`Shown`). An awaited balance is read by the node in one step
(`NodeAnswers`) and used in a later one. The faucet answers as FaucetPromise
permits. StrictMode (`main.tsx:7`) starts two runs with every mount.

**Screen** is what the gate promises the wallet, its child: a wallet is shown for
one address; it can be shown too early, or be handed another address, but then
the next thing that happens to it is that it is taken down. WalletGate
implements it (`ImplementsScreen`: the wallet is shown while the gate has neither
spinner nor error, `leaving` is an effect that is due), and Wallet is built on
it.

**WalletView** is the component `Wallet` with its `Action`: `asks` are the balance
requests of a mount, answered in any order (`NodeReads`, then `BalanceAnswers` or
`BalanceFails`), `AbiAnswers` the ABI's, `sends` the transactions, each of which
fetches the balance when it has succeeded (`TxSucceeds`). `Rendered` is a render
of the component and of its action: the effect of a new action puts the defaults
into the object of the present state, so what is executed (`inputs`) and what is
shown (`fields`) are two variables. A balance stands for how often it has changed
since the mount.

**LatestBlocks** is the component of that name: every mount begins a subscription
and a timer (`Mount`), the clean-up marks it (`Unmount`) and goes on only when
`listenToBlocks` has answered (`Subscribed`, `CleanUp`). Blocks are delivered in
order (`Delivered`), and the newest `MaxShown` are kept.

**Wallet** composes the two under Screen: `Show` mounts them, `Hand` gives them
another address, `Leave` takes them down. They share nothing but their props and
their mounts, and every property is about one of the two, so `part` picks the
one that is followed and the other takes no steps. (A step of one changes no
variable and no guard of the other, so that a behaviour of both, seen by the
variables of one, is a behaviour of that one with stutters.)

**CliKeys** has the key commands of `morpheus-cli` in several terminals. Each
command opens the database (`OpenDatabase`, `root.go`), which fails while another
process has it, makes or reads a key (`GenerateKey`, `ImportKey`), or takes one
that is stored (`SetKey`), stores it (`StoreKey`), makes it the default
(`StoreDefaultKey`), reports it (`Report`) and closes the database
(`CloseDatabase`). A write that fails, or a kill at any step, leaves what was
written before. Key bytes are the type they were read as; `CanSign` is
what `DefaultActor` makes of them.

**CliTransfer** has the command `transfer`: `DefaultActor`, `GetBalanceInfo`, `SendTx`
(the prompts, generation and registration) or `Decline`, `ListenTx`. The amount is
from zero to the balance that was read: `prompt.Amount` is given that limit and no
validator (`action.go:45`). Its connection is its
own, so that messages are about its transaction only. The node executes the
transactions by `Storage` and `Transfer`; other clients move the same coins.

**MCBlock**, **MCGenesis**, **MCFaucet**, **MCWalletGate**, **MCWallet**,
**MCCliKeys** and **MCCliTransfer** hold the instances. **StorageProofs**,
**BlockExecutorProofs**, **GenesisProofs**, **FaucetProofs**, **WalletGateProofs**,
**WalletProofs**, **CliKeysProofs** and **CliTransferProofs** hold the proofs.

Definitions whose comment begins with "Mutant" are plausible errors of the
definition that follows them. No specification uses them: `PROJECT.json` names,
for every property, the one that breaks it.

## 3. Runs

| Run | Question | Instance |
|---|---|---|
| `blocks` | do the operations keep the supply and their permissions, is parallel execution invisible, is every step one of the bank's? | every triple of five transactions that form chains or run side by side, and every pair of ten kinds with a third that takes all coins as its fee, on every genesis of 3 accounts and up to 3 coins, records of zero included; 135,123 states |
| `genesis` | does every list load to what it says, or fail as a whole, whatever became of the command that wrote it? | every list of up to 4 allocations to 2 accounts, balances up to 4 = `MaxUint64`, torn at any place; 175,056 states |
| `faucet` | do answers state the truth; is the cache raced for; is every request answered, does the start end? | three requests, one with a bad address, from two remote addresses, and the start, two attempts, bucket of one, fairness; 441,592 states |
| `faucet_restart` | what do readiness and the promise mean across a restart? | two requests for one account from one remote address, two attempts, one restart at any moment, coins for three transfers; 2,017,636 states |
| `gate` | is the wallet shown to funded accounts only; does the spinner tell the truth; are coins asked for again only after errors; does every run end; is Screen kept? | two signers, three signer events, two runs, two requests and two polls each, both builds, fairness; 360,478 states |
| `wallet` | is what is shown of the present address, up to date and announced as loading; are typed inputs kept; do subscriptions end? | two addresses; for the view three balance requests, a transaction and a change of each balance in a mount; for the list two mounts, three blocks, two shown; both builds, fairness; 531,000 states |
| `cli_keys` | can every announced key sign and is it the default, whatever fails and whatever other terminals do? | two terminals, a file of 64 bytes, a file of 32 that is a key of two types, three keys to generate; 62,874 states |
| `cli_transfer` | when is a transfer in the offered range reverted; does the wait without a deadline end? | two keys, two transactions, other clients, fairness; 250,855 states |
| `result`, `faucet_removed`, `faucet_ready`, `wallet_prefilled` | is a line of the documentation true? It is not: section 5 | two transactions; two requests for two accounts; the instance of `wallet` |

What the block run shows: `SupplyConserved` (coins plus burned fees are those of
the genesis), `AddNeverOverflows`, `ScopeSuffices` (every action and fee does on
its view what it would do with all permissions), `DeductFollowsCheck` (the only
fee that passes the check and fails the deduction is zero, on a missing
record), `SharersInOrder`, `ViewsBalanced`, `Deterministic` (the final balances, and
which transactions are done, failed or refused, are those of block order) and
`ImplementsBank`.

What the genesis run shows: the records add up to the checked supply, a file that was
written whole is refused for its supply or not at all, and after a load each account
has the sum of its allocations in the list the command was given
(`EveryAllocationCounts`), so that what a cut has left of the list is not loaded.

What the faucet runs show: `ResultIsOwn` (an answer that states a result states
that of the request's own transfer, whoever took whose messages),
`ReadyMeansPaid` (ready only after this run's first transfer arrived, also when
its result was lost and the balance told), `NoGenesisRace`, `KeepsPromise` (above all,
no request is paid twice, whatever was lost or restarted), `RequestsEnd` and `StartEnds`.

What the wallet's runs show: `LoadingCounts` (the count is that of the runs of the
page that is shown, those of earlier addresses included), `OpenMeansFunded` (the
wallet is shown only if every account the page checked had more than
`minBalance` at some moment since, although the poll for the coins may end at
once), `AsksOnlyAfterErrors`, `RunsEnd` and `ImplementsScreen`; then, behind the
gate, `ShownIsOwn` (the balance shown is of the address shown: nothing resets it
when the address changes, it is the gate that takes the wallet down),
`SpinnerHasRequest` (one flag serves all overlapping requests, and yet "Loading
balance..." has a request under way), `LagsOnlyByOverlap` (after a
transaction's success the balance of before stays only when an older request was
answered after a newer one), `TypedIsKept`, `NewestFirst` and `ListenersEnd` (the
subscription of a page that is gone ends, also when it was still being made when
the page went, which happens at every first mount: the wallet is rendered for a
moment before the gate's effect runs).

What the CLI runs show: `KeysKept` (default and announced keys sign for their
address), `AnnouncedIsDefault` (a key is the default while it is reported, whatever
runs elsewhere), `KeysStay` (no command loses or replaces a key),
`RevertsExplained` (a transfer in the range offered to the user is reverted only when
another transaction lowered the balance, for the fee the limit leaves no room for, or
because its amount is the zero that nothing refuses before the chain does) and
`TransferEnds`.

**Bounds.** `MaxUint64` is 3, 4 or 10: small enough that balances reach it, so
overflow and wrap-around happen in mutants and would in the code. Three
accounts give a sender, a recipient and a bystander; two transactions give
every conflict, three the dependence on two others; two actions give a failure
after a success. `MaxMemoSize` 0 has a memo that fits and one that does not.
In the faucet a transfer gives 2, threshold and fee are 1 and the faucet has
coins for two transfers or three, so that the last one reverts or expires (in the
run with a restart for three, since there up to six are made); two
waiting goroutines are enough for one to take the other's message, main being
a third one during the start. `MaxAttempts`, `Burst` and `MaxRestarts` keep the
limits within reach. `MaxRestarts` and the number of requests are the only
bounds that cut behaviours off there. At the gate, threshold and `minBalance` are
both 1, as they are both one coin in the code, and one signer may start with
exactly that; two requests and two polls a run stand for ten and a hundred: a
first, a last and a boundary between them. Three signer events and two
runs are enough for an address to be left and come back to on a new page, and for
another to take its place on the same page while the first one's run goes on, and then
leave; in the development build, where a mount alone starts two runs, for a page to
be left with both under way. To come back to an address on the same page would take a
third run, which is beyond five minutes; the theorems of section 4 have no such bound. What
others leave of a balance (`Remainders`) is 0 or the 1 that the poll waits to
change. In the view three requests are those of a mount, of a transaction and of
the refresh button, so that two overlap around a change and a third comes after;
there is no bound on its mounts. In the list two mounts give deliveries to a page
that is gone, and with StrictMode four subscriptions; three blocks overflow a list
of two. In the CLI `MaxTxs` is 2: the command's own transaction and one of
an earlier command; two terminals give every overlap of two commands, and the
database is never open in more than one.

**Fairness.** `WF_vars(Advance(p))` for each goroutine of the faucet: the scheduler
runs a goroutine that can run, calls return an error at the latest with the context
of five seconds (`faucet.go:80`), and so does the wait for a message
(`faucet.go:131`). Nothing is assumed of the node, the connection or the
clients. Sleeps between attempts are left out; the fairness says that they end.

For a run of the gate `WF_vars(Advance(i))`: a fetch ends with a response or an
error and timers fire; nothing is assumed of signers, chain or coins. For the
wallet `WF_vars(SubscriptionGoes(s))`: the promise of `listenToBlocks` is kept or
broken, and the clean-up that awaits it goes on; nothing is assumed of blocks or
users. For the CLI, `WF` of `Node(i)` and of `ListenTx`: a transaction the node has
taken is executed or removed, at the latest when it expires, and the node tells it
on the connection; the command reads what it is told. Without that first assumption
`sendAndWait`, which has no deadline, need not end.

**Deadlock** is checked in every run; `Terminating`, `Stopped`, `Idle`, `Quiet` and
`Over` are the states where nothing is left to do.

## 4. Proofs

Assumptions: `StorageAssumption` (a finite set of addresses, a positive
`MaxUint64`, `Absent` not a number), `MemoAssumption`, `BlockAssumption` (a
transaction has an actor, a fee of 64 bits and at least one action),
`GenesisAssumption` (a bound on the length of a list), `FaucetAssumption` (the
addresses and amounts of the faucet, and that a random address has no record, is
drawn once and is named by no request), `GateAssumption` (the page's minimum is not
above the faucet's threshold), `WalletAssumption` (bounds, and a list of blocks that
is not empty), `CliKeysAssumption` and `CliTransferAssumption` (signers are accounts, a
fee and a supply of 64 bits). Nothing is assumed of the number of accounts,
transactions, actions, requests, attempts, restarts, mounts, commands or terminals.
TLC evaluates the assumptions in the runs.

`StorageProofs` has the lemmas about the operators: what they return
(`SubBalanceType`, `ExecuteType`, ...), what they do to the supply of a set of
accounts, which accounts they leave alone, and that a valid transfer whose value
the sender has is not reverted where the supply fits (`ExecuteSucceeds`).

It also has induction in a form the provers take. The library's induction theorems
have a predicate as a parameter, which none of them can instantiate, so
`NatSetInduction` says it of a set, from the well-foundedness of `<`: a set with 0 and
with each number's successor has all numbers. What is shown by induction is then
that a set, written with its property, is all of `0 .. N`. `PrimitiveRecursion` uses it for
what a reference like `after[k] = Step(k, after[k-1])` means: TLA+ takes such a function
by `CHOOSE`, and the equation holds only once some function is shown to satisfy
it (`InOrderDef` and `PaymentsDef` cite it).

`BlockExecutorProofs` has twelve theorems of BlockExecutor's `Spec`:

- `TypeCorrect`: `[]TypeOK`, in particular every balance of every view stays in
  64 bits;
- `SharersRunInOrder`: `[]SharersInOrder`, two transactions that have an account in
  common, as signer or as recipient, are never under way at once;
- `SupplyInvariant`: `[]SupplyInv`, the inductive invariant;
- `SupplyIsConserved`: `[]SupplyConserved`;
- `CreditsNeverOverflow`: `[]AddNeverOverflows`;
- `ViewsStayBalanced`: `[]ViewsBalanced`, a conjunct of `SupplyInv`;
- `DeclaredScopeSuffices`: `[]ScopeSuffices`. It follows from `TypeOK` and from what
  the operators read and write: `SubBalanceScope`, `CreditScope` and `ExecuteScope`
  say that the outcome with some permissions is that with all of them where sender and
  recipient have those the operation needs, `DeclaredForActor` and
  `DeclaredForRecipient` that the declared scope gives them;
- `DeductionFollowsCheck`: `[]DeductFollowsCheck`. `AbortOfZero` has the argument: the
  check and the deduction read one view, so only a missing record, which counts as
  zero for the one and as an error for the other, sets them apart;
- `SettleInvariant`: `[](SupplyInv /\ SettleInv)`, the invariant of the next two;
- `ExecutorImplementsBank`: `ImplementsBank`, that the executor refines Bank;
- `ExecutionIsDeterministic`: `[]Deterministic`;
- `ResultsShowBalances`: `[]ResultsAreBalances`, which no run checks: the reported
  results are balances of the view, with the one exception that section 5 is about.
  It follows from what the two halves of a transfer return (`ExecuteReturns`) and from
  there being one result for each action run (`OnePerAction`).

`SupplyConserved` is not inductive: a commit writes a view, so something has to
be known of views. `SupplyInv` adds `ViewsBalanced`, that a view under way holds
the database's coins of its declared accounts less its fee, and `DeclarersInOrder`,
that no other view under way has declared the same key, since otherwise a commit
would change what the other view is balanced against. Each step of a view
keeps its coins because an action moves value between declared accounts, a
failed one returns to the checkpoint, and the fee was taken at the start; a
commit replaces the declared accounts' coins and burns the fee, which leaves
the sum. The bound on the genesis supply, carried along, gives
`AddNeverOverflows`: the credited account and the value debited are part of one
supply that fits.

For the refinement, `SettleInv` says of each transaction under way that of the accounts
it declared its view shows what the bank makes of the database's balances after the fee
and the payments run so far, all of which could be made, or that it has failed,
that some payment cannot be made, and that its view is the checkpoint. It is kept for
three reasons. A transfer on a view is the bank's payment on its balances and fails just
when the payment cannot be made (`ExecuteIsPayment`: with every permission and a supply that
fits, no other error is left). What payments do to the accounts of a transaction is
a matter of these accounts alone (`PaymentsLocal`), so that a commit of another
transaction, which by `DeclarersInOrder` has declared none of them, does not change it
(`SettlingElsewhere`). And the fee's check and charge are the bank's (`FeeIsCharge`). The
steps then map: `Commit` is a settlement (`CommitIsBank`), so are `Reject` and `Abort`
(`Abort` is a failed one with a fee of zero, by `AbortOfZero`), the others are stutters.

`Deterministic` speaks of the end, and its invariant of the way there. `PrefixSettled`:
an account whose finished transactions are just those up to a place in the block has the
balance it has there in block order; `OutcomesSettled`: the finished transactions have
the fates they have there. Transactions about one account finish in block
order, so a settlement extends the prefix of each account it is about by one
(`SettlePrefix`), and those in between that are not about the account do not change it
(`InOrderSkip`).

`GenesisProofs` proves `[]TypeOK`, `[]SupplyIsSum`, `[]CreditNeverFails` and
`[]EveryAllocationCounts` of Genesis, for any lists and commands, and `LoadedIsExecutable`: what is left of a load has a
supply of 64 bits, which BlockExecutor assumes of `genesis`. The invariant, `LoadInv`,
adds to those that nothing is loaded before the node starts (`FromTheStart`:
the file may be written anew until then) and that only a whole file is loaded, which
holds the command's list (`WholeList`). `CreditFits` is the argument: an account
has at most the supply, so a sum that was checked leaves room for each credit. The
reference of `EveryAllocationCounts` is a fold over the list, which
`FoldIsSum` unfolds into the running sums of the list (`Sums`), given explicitly so that
they exist: a sum is the number of the units of its terms (`SumsDef`). The invariant
`LoadedCount` says that after some turns of the loop each account has the running sum of
its allocations, and `LoadedWhole` that at the end these are all.

`FaucetProofs` proves `[]TypeOK`, `[]ResultIsOwn`, `[]ReadyMeansPaid` and
`[]NoGenesisRace` of Faucet. None is inductive. `FaucetInv` adds:

- `Truthful`: a message in the queue states the fate of its transfer, which is final
  (`Kept`);
- `OwnIsMine`: the ID a goroutine waits for is of a transfer that it made, to its own
  address. With `Truthful` this gives `ResultIsOwn`, since `ListenTx` answers only when
  the IDs agree;
- `RandomIsMains`: the random address of a run is paid by main only and in that run, and
  has a record only if it was paid. With the two before this gives `ReadyMeansPaid`,
  for a start that ends with the result of the first transfer and for one that ends with
  the balance after the result was lost. `AcceptChain` is the step that could break it:
  a transfer gives a record to its recipient only (`ExecuteGivesTo`, a lemma about the
  operators);
- `ServedAfterStart`: requests are in the handler only while main serves;
- `FetchedBefore`: the genesis is in the client's cache before main makes a transfer, and
  therefore before any of its transfers can end the start. A start that ends with the
  balance of an earlier attempt's transfer skips the fetch, so this part is needed,
  and it needs `RandomIsMains`. With `ServedAfterStart` it gives `NoGenesisRace`.

The proof has a lemma for each part and, before them, one for each kind of step that says
what the step leaves alone (`QuietlyFrame`, `RegisterFrame`, `ListenFrame`, `NodeFrame`,
`RestartFrame`). `TypeOK` needs two more: attempts stay below their bound while main is
at work (`Start`), tokens within the bucket (`Flags`).

`FaucetKeepsPromise` proves that Faucet implements FaucetPromise. `PromiseInv` adds to
`FaucetInv` that a request makes one transfer at most, and none before it comes to `listen`
(`OnePayment`), and that a request refused without a transfer has none
(`AnswerStands`). `PromiseSteps` sorts the steps by what FaucetPromise sees of them: a
request goes on (`Moves`: a stutter, or `Ask`), makes its transfer (`Sends`, a stutter:
coins that are under way are not paid yet), or is answered (`Ends`: `Reply`, or `Ask` for
an answer of the handler); a transfer is executed (`Pay`, of a request that had no coins,
since by `OnePayment` the count of its payments is one or zero, `CountsOfPaid`); the process restarts (`Reply`,
for several requests); everything else is `Aside`. That "sent" is permitted is
`ResultIsOwn`; that "txFailed" is, takes `OnePayment` too: the only transfer was
reverted, so none was paid or will be.

`WalletGateProofs` proves `[]TypeOK`, `[]LoadingCounts`, `[]OpenMeansFunded`,
`AsksOnlyAfterErrors` and `ImplementsScreen` of WalletGate. `GateInv` has, besides the
types and `LoadingCounts`:

- `RunsSound`: what a run has read is not above its peak, the most its account had since
  it began (so a balance read before a signer's change or a payment says enough), it polls
  only after the faucet's word of coins has been true, and an answer is kept until the next
  request;
- `EndedFunded`: on a page without an error, the runs that have ended saw the coins;
- `Started`: once no effect is due, the address that is shown has a run.

An open page has no spinner, so by `LoadingCounts` all its runs have ended, and
`EndedFunded` gives `OpenMeansFunded`. The counter is the cardinality of a set of runs; a
step of a run is `Steps`, which leaves all runs but one as they were, and takes that one
from the count only when it ends. For Screen, a step of a run can open or close the
page, an event can hand it an address or take it down, and only then is an effect due,
which is `leaving`.

`WalletProofs` proves `[]TypeOK`, `[]ShownIsOwn`, `[]SpinnerHasRequest`,
`[]LagsOnlyByOverlap`, `[]TypedIsKept` and `[]NewestFirst` of Wallet. `WalletInv` is the
conjunction of three invariants, one for each piece of state the component keeps:

- `RequestInv`: while a wallet is not about to be taken down, all its requests are of one
  address (`OwnOnly`: Screen hands over another only by taking it down next), and the last
  of them, once read, is as new as what a transaction has told (`LastIsNew`: the refresh
  is sent after the transaction was accepted), so that only an older request answered late
  can lag;
- `ActionInv`: inputs that were edited are those typed, since the defaults are put only
  into an action that is new;
- `ListInv`: a production mount has one subscription (`OnlyOne`), which has delivered
  every block that is shown (`ShownDelivered`), so the next is newer. In the development
  build the two subscriptions of a mount would break both.

`CliTransferProofs` proves `[]TypeOK` and `[]RevertsExplained` of CliTransfer. The
invariant, `CommandInv`, adds `WithinLimit` (the transaction waited for is the command's
own and not above the balance it read) and `StillThere`: until it is executed, the account
has what was read, or `lowered` says that another transaction took from it.
`OwnSucceeds`, from `ExecuteSucceeds`, is the rest of the argument: a transfer whose
value is not zero and is the sender's is not reverted, since by the supply's bound the recipient's record
can take it.

`CliKeysProofs` proves `[]TypeOK`, `[]KeysKept`, `[]AnnouncedIsDefault` and `KeysStay` of
CliKeys, for any number of terminals, from `CliKeysAssumption`: an address fixes
the type of its key, and bytes read as a type give an address of that type. The
invariant, `KeysInvariant`, has four parts besides the types: only the terminal
that holds the database is at work on it (`Exclusive`), the key of its command
fits its address (`KeyFits`) and is stored before it is made the default
(`StoredFirst`), and every stored key fits (`StoredFits`), which `SetKey` relies on.
Without `Exclusive` a second command could move the default between the first
one's write and its report.

Only model-checked: the liveness properties `RequestsEnd`, `StartEnds`, `RunsEnd`,
`ListenersEnd` and `TransferEnds`, since fairness, and with it ENABLED, is out of the
prover's reach. Every other property of a passing run is a theorem, so what is safe
about the system does not rest on the size of an instance.

`SharersInOrder` is about the accounts a transaction touches, `DeclarersInOrder`
about the keys it declares: the first follows from the second and from the fact
that an action declares the keys of all its parties (`StateKeys`), which is what
the code could get wrong.

## 5. Where code and documentation part

Each of these is a run that TLC must find violated:

- `RemovedMeansUnpaid`: the loop returns the error of the next message before it
  looks whose it is (`faucet.go:138`); a request is told that it failed because
  another's transfer was refused or expired, and its coins arrive.
- `ReadyMeansOperational`: nothing clears `isReady` or reopens the connection.
- `ResultShowsBalances`: a transfer to oneself reports the balance between its two
  halves as the sender's. That there is no other case is the
  theorem `ResultsShowBalances`.
- `FieldsArePrefilled`: the defaults of an action are written into the object of
  the present state (`Wallet.tsx:31`), which React takes for no change; when
  the ABI is the last answer to arrive, the fields stay blank, and executing the
  action sends the defaults the user does not see.

The code shows more of the kind, which no run states:

- the loop of `transferCoins` also drops the results of other requests
  (`faucet.go:145`), which then wait for their deadline; the message of
  `faucet.go:226` says five attempts, the loop makes ten;
- an allocation of zero leaves a record of zero, against the comment at
  `storage.go:57`;
- `fetchBalance(true)` is called after a transaction (`Wallet.tsx:124`), but
  `fetchBalance` takes no argument and does not wait for a change; what is left
  is what `LagsOnlyByOverlap` says;
- the README says that the list "shows all non-empty blocks" (`README.md:48`);
  the code keeps the last five (`Wallet.tsx:221`), and the development build,
  whose first subscription may still listen, can show a block twice, which is
  why `NewestFirst` is about the production build;
- the timer of a subscription that failed is never cleared (`Wallet.tsx:229`),
  which `ListenersEnd` excepts;
- `/readyz` cannot answer "not yet healthy": the server starts when the first
  transfer has arrived;
- the CLI offers amounts from zero (`action.go:45`), which the chain refuses
  (`transfer.go:61`), up to the whole balance, which leaves nothing for the fee;
- the CLI reports a transfer as going to the actor who made it
  (`resolutions.go:84`).

## 6. What is left out

- hypersdk and avalanchego are external: consensus, the mempool, block building,
  expiry and replay protection, the pricing of fees, the encoding of keys and
  messages. The executor and the connection are modelled from how this code
  uses them. A transaction that fails between check and deduction (`Abort`) is
  taken as left out of the block.
- Transaction IDs are taken to be distinct.
- The limiter's clock is `Refill`, a token at any time. One limiter stands for one
  remote address; the growth of their map has no bound that could be stated.
- That two requests for one account may both be paid (the balance is read before
  the transfer is sent) is behaviour of the model, no property forbids it.
- `ComputeUnits`, `ValidRange`, registries, documentation page, CORS, logging and
  formatting.
- In the browser, the times of retries and polls, the dialogues of
  `ConnectWallet.tsx`, which only make a signer and wait for its event, and
  `IsReadyWidget`, which shows what `/readyz` answers. An ABI has one action, its
  default texts and values are data, and the wallet's errors are kept apart from
  its state only by their flags.
- In the CLI, a write of a key either happens or fails. The commands for chains,
  `key balance`, prometheus and the watching of the chain hand their arguments to
  hypersdk's cli package, whose source is not in the repository.

Not modelled, and why:

- *VM registration* (`vm/vm.go`, `vm/option.go`, `consts`): tables
  built once at start; no state that changes afterwards.
- *CLI spam* (`cmd/spam.go`): it hands closures to hypersdk's loop, which does the
  sending, the waiting and the counting.
- *Test workload* (`tests/workload`): it makes transactions for hypersdk's test
  driver. What its assertions mean depends on when that driver asks for the next
  transaction and confirms the last, which its source would have to say.
- `WaitForBalance` (`vm/client.go`): nothing in the repository calls it.
- *Node binary, scripts and images*: they start the other parts and keep no state;
  the restart policy of `compose.yml` is `Faucet!Restart`.

## 7. Plan

Done: Storage, Transfer, BlockExecutor with Bank, Genesis, Faucet with
FaucetPromise, WalletGate with Screen, Wallet with WalletView and LatestBlocks,
CliKeys, CliTransfer; the theorems of section 4.

What is left is out of reach of the tools or of the repository: the liveness properties
named under "only model-checked" in section 4, and the parts of section 6 whose behaviour is that of
hypersdk's packages.
