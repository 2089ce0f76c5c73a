# Verification of Aretia Finance

TLA+ modules that model the parts of this repository where order, concurrency,
crashes and rounding decide whether the program is right; the TLC runs that
check them on small instances; and theorems about them that TLAPS proves for
every value of the constants.

Paths below are relative to the repository. `swings/` stands for
`website/src/swings/`, `scripts/` for `website/src/scripts/`.

## 1. The system

Aretia Finance is a website with a self-custody wallet (`website/`), a small
server (`website/api`, `server/worker`), and programs on Solana (`program/`) and
EVM chains (`contracts-evm/`). The website holds no funds and no keys: what can
go wrong with money happens where it decides *when to ask the wallet to sign*
and *what to tell the user*, and in the programs, which hold escrow, reserves
and stakes.

### Modelled

| Part | Source | State | Operations | What makes it correct |
|---|---|---|---|---|
| Cross-chain orchestrator | `swings/orchestrator/{orchestrator,states,store,feeLedger}.ts` | one stored record per move; per tab `busy`, `fresh` and a fee ledger | `create`, `start`, `advance`, `claim`, `resolveAttention`, `recordRefund` | nothing is sent twice; no step is left out; the report never runs ahead of the funds; a record that is over stays as it is |
| Move screen and views | `scripts/walletCrossChain.ts`, `swings/crosschain/view.ts`, `swings/settlement/safety.ts` | the moves let through by the checks and not yet created | which operation a button or the 15 s poll calls | the same move is open once; the fee is charged once; what the user reads is true; a burned move is followed |
| Plan runner and executors | `swings/plan/{runner,state,store,deferred,executors}.ts` | one stored record per plan; `busy` per tab; a baseline balance | `create`, `step`, `cancel`; `start` and `poll` of each executor | legs in order, each begun once; the plan agrees with the move behind it; a plan whose work is done ends |
| ACT staking program | `program/act-staking` | configuration, one position per owner, the vault | `initialize_config`, `update_tier_config`, `set_paused`, `set_config_authority`, `stake`, `unstake` | the vault covers the positions; locks and ages hold; whoever is due can leave |
| Solana bonding curve | `program/aretia-curve` (`curve-math`) | status, four reserves, two vaults, the accounts a migration passes through | `create_curve`, `buy`, `sell`, `migrate`, `abort_migration`, `claim_pool_fees` | rounding never takes from the vault; the last buy sells out; a sold-out curve is never stuck; the pool gets the raise |
| Solana pool | `program/aretia-pool` (`pool-math`) | the pool, its positions, two vaults | `create_pool`, `swap` both ways, `add_liquidity`, `remove_liquidity`, `claim_fees`, `transfer_position`, `set_recipient`, `lock_liquidity` | vaults cover reserves and fees; fees owed are covered and kept; a share never loses value |
| Solana order program | `program/aretia-orders` | configuration, listed asset, one order per address with its vaults | `initialize_config`, `update_config`, `set_venues`, `set_asset`, `create_order`, `fill_order`, `cancel_order`, `cancel_order_fee_frozen` | a fill takes its slice and nothing else; the limit holds over any slices; fees are those agreed; the owner can leave whenever the accounts a payment needs are there and not frozen |
| RPC pool | `swings/rpc/pool.ts` | per node: tokens, places, pauses, refusals; per question: the run under way, the kept answer | asking, looking for a node, each kind of answer | no place is lost; rates and pauses are kept; one question is asked once; everybody is answered in time |
| Record mirror | `swings/orchestrator/remote.ts`, `store.ts`, `api/_swingsRecords.ts` | per browser the records and tokens; per page the queue of uploads; the server's row | `create`, `update`, one upload at a time, `restoreFromCode`, the switch | only the creator's browser changes the copy; nothing newer is overwritten |

### Not modelled

| Part | Source | Why not |
|---|---|---|
| EVM contracts | `contracts-evm` | the curve, pool and orders of the Solana programs in another language, with pooled escrow and re-entrancy guards; the modules here are the place to start from |
| Curve that graduates to the own pool | `program/aretia-curve-grad` | the same trading and mathematics as `Curve` with another migration, which opens a `Pool` and locks its first position |
| Wallet session | `swings/wallet` | a lease is checked when it is given, when it is redeemed and by the wallet itself: no single fault breaks a property, and what is left of its races is listed in section 11 |
| Wallet gateway | `swings/orchestrator/walletGateway.ts` | it is the wallet environment of `Orchestrator`; its checks of account and destination are data there |
| Settlement providers | `swings/settlement` | their late, missing and unknown answers are environment actions of `Orchestrator`; building calls and parsing attestations is data |
| Plan making and recovery texts | `swings/plan/{planner,executionQuote,recovery}.ts` | pure functions of quotes and records |
| Account data, price alerts | `swings/account` | copies of client lists on the server |
| Quote router, engine, exchange adapters | `swings/{router,engine,execution,core,dex,solana,providers,chains}` | one-shot choices and encodings; no state that outlives a call |
| Market data, launch box, token data | `swings/{market,mi,indexer,charts,launchbox,launchmeta,tokens,shield,intelligence}` | read-only views; nothing in them decides on funds |
| Ramps, referrals, notifications | `swings/{ramp,referrals,notify,observability}` | links and bookkeeping; what a ramp delivers is an environment action of `PlanRunner` |
| Server API, worker, stores, migrations | `website/api`, `server/worker`, `swings/{store,db}` | handlers over a database, one write each (that of the record copies is in `RecordMirror`) |
| Other screens, SDK, scripts, mock venues | `scripts/wallet*.ts`, `sdk`, `devnet`, `mainnet` | presentation, generated clients, test doubles |

### How the parts interact

```
 move screen ----------\                      /--> wallet (gateway) --> source chain
                        >--> orchestrator ---+--> settlement provider
 plan runner --> executors                    \--> destination chain (claim)
      |               |             |
      v               v             v
 plan store       balances     execution store ---> record mirror ---> server's copy
                          (both: one browser store, all tabs)        (other browsers)

 every read of a chain --> RPC pool --> public nodes

 order program --> listed venues (a curve, a pool)      curve --> Meteora pool
```

* Several tabs share the two stores and nothing else. A store refuses a write
  whose version is old; every tab has its own `busy` set, so two tabs do run
  the same operation at the same time and meet only in the store.
* A call of the orchestrator spans minutes: it awaits the provider, the wallet
  prompt, the chain, and saves between them. A tab may be closed at any await.
* The wallet and the chains answer late, unclearly, or never.
* The plan runner sees a move through its stored record only.
* The Solana programs run one instruction at a time, whole or not at all; what
  is hard in them is arithmetic and long sequences of legal calls. The order
  program calls a venue in the middle of a fill and judges it by what it left.
* Every version of a record that a browser saves is also put in a queue of
  uploads. Requests may be lost, or given up by the page and yet served, and they
  outlive the page.
* Many callers share the pool of nodes, each caller's steps between two awaits
  being one turn of the event loop.

The hazards this makes, each with its line and with the property that covers
it, are in `PROJECT.json`.

## 2. The modules

| Module | Models | Extends / uses |
|---|---|---|
| `SettlementMove` | what a cross-chain move promises, whoever implements it | - |
| `Orchestrator` | the orchestrator, its store, several tabs, the wallet, the chains | implements `SettlementMove` |
| `MoveExecutor` | the orchestrator called by the plan's executor, with the id the plan saves; fairness and liveness | extends `Orchestrator` |
| `MoveScreen` | the orchestrator called by the move screen, from the press of "Start" | extends `Orchestrator` |
| `PlanRunner` | the plan runner and its executors, over moves seen through their records | - |
| `Staking` | the ACT staking program | - |
| `ProgramMath` | rounding up, minimum and saturating difference, as the programs use them | - |
| `Curve`, `Pool`, `Orders` | the bonding curve, the pool, the order program | extend `ProgramMath` |
| `RpcPool` | the pool of public nodes | extends `ProgramMath` |
| `RecordMirror` | the copies of moves on the server | - |
| `OrchestratorProofs` | theorems about `Orchestrator`, that it implements `SettlementMove`, and about `MoveScreen` | |
| `StoreProofs` | theorems about `PlanRunner` and `RecordMirror`; it extends both, hence `Mirror` in front of the names the two would share | |
| `StakingProofs`, `RpcPoolProofs` | theorems about `Staking` and `RpcPool` | extend `ProgramMathProofs` |
| `ProgramMathProofs` | what a rounded quotient is bounded by; what a sum over a finite set does when one member changes | |
| `CurveProofs`, `PoolProofs`, `OrdersProofs` | theorems about the three programs | extend `ProgramMathProofs` |
| `MC*` | constants and symmetry for TLC | |

Operators marked `Mutant:` in a comment are broken variants of the definition
that follows them. No specification uses them; they record which plausible bug
each property is there to catch.

## 3. Plan

Done: the modules above with their runs and the theorems of section 10, which state
every safety property of the passing runs. Ahead, in this order:

1. The graduating curve as a composition of `Curve` and `Pool`, with its own
   `migrate`; the EVM orders, where one contract holds the escrow of all orders.
   The question it has to settle: `derive` asks only that the tokens kept for the
   pool be more than none (`aretia-curve-grad/curve-math`), while `open_ranged`
   refuses a pool of fewer than `MIN_TOKENS` = 1,000, so by reading the two a curve of
   very few tokens sells out and can leave only through the 7-day abort.
2. `RecordMirror` above `Orchestrator`: a move that goes on in a second browser
   from a copy that is behind (section 11).
3. Plans with swap legs and several plans at once.

## 4. The orchestrator and its callers

### State

| Model | Code |
|---|---|
| `rec[x]` | the `ExecutionRecord` in the store: state, one `StepProgress` per step, the execution id, the failure, `needsAttention` |
| `op[p][x]` | the call in tab `p` on execution `x` (its `busy` set) and the await it is at |
| `op[p][x].stale` | the version check of `store.update`: another tab wrote the record since this call read it, so its next write is refused |
| `fresh[p]` | quotes accepted through `create` in tab `p` |
| `ledger[p]` | the fee ledger of tab `p` remembers a fee for this move |
| `live` | the quotes that have not expired |
| `chain[x][s][n]` | what became of the `n`-th transaction sent for step `s` |
| `settle[x]` | how the settlement ended without our claim: another relayer, or a return |

A call of the code holds its own copy of the record and writes it back against
its version. As long as nobody else wrote, that copy is the stored record;
afterwards every write is refused. One flag therefore stands for both the copy
and the version.

Every await at which something else may happen ends an action. `start` is thus
cut into: the reads up to the first await (`StartInterrupted`, `StartRetire`,
`StartExpired`, `StartBuild`), the answer of `buildSettlement`
(`BuildLapsed` ... `Build`), the loop's head for one step (`StepFailedBefore`
... `StepBegins`), the simulation (`PreflightRefuses`, `MarkSending`), the wallet
(`WalletSends`, `WalletRefuses`, `WalletUnclear`), the two writes after a send
(`SaveSubmitted`, `MoveToSubmitted`) and `settleStep` (`SeeConfirmed`, `SeeFailed`
with `FailStep`, `TimeOut`, then `SettleEarlier` or `SettleBurn`, `MoveToPending`).
`resumeSource`, `advance`, `claim`, `resolveAttention` and `recordRefund` follow
the same way. Where the code writes twice, the model has two actions and a crash
may fall between them.

Two things that are easy to miss in the code and are in the model:

* A wait that runs out returns the flagged record, and the loop of `start`
  returns only on a *final* state: it goes on to the next step (`TimeOut`). A
  record may therefore be flagged in any later state, up to `COMPLETED`.
* Before the fee and the burn, `preflight` simulates the burn. On a network with
  approvals that holds both back until the approval is on chain (`Simulates`).
  Nothing holds the burn back for the fee.

The environment is the rest: tabs that die at any await (`Crash`: `busy` and
`fresh` are gone; the ledger, in session storage, survives a reload but not a
closed tab), writes the browser will not take (`SaveFails`), quotes and
remembered fees that lapse, transactions that confirm, fail or never land, and
settlements that end without us.

Assumed of the user: the answer to "was it sent?" is true, and "not sent" is
given only with no wallet prompt left open. All executions of an instance are
quotes of the same move, which is the case in which they meet (the fee ledger
and `assessSettlement` key by move).

### Callers

`Orchestrator` lets every operation be called at any time. `ScreenCall`, at its end, is
what the move screen calls: the buttons of `viewStatus` and the 15-second poll. It calls
`start` only while nothing was submitted. Two modules add who calls what.

`MoveScreen` puts the press of "Start" in front of `create`. `cleared[p]` holds the moves that
`assessSettlement` let through on page `p` and that are not created yet. The button is never
disabled and the handler does not look at `busy`, so several may be on their way on one
page, each with an execution of its own: `Assess` reads the list of unfinished moves,
and `PressStart` creates without reading it again. `together` is a history variable: the pairs let
through while neither was created.

`MoveExecutor` is one tab, `Tab`, that steps a plan. `leg[x]` is how far the executor's
first call on `x` came: `LegBegins` creates the move, `LegCalls` calls `start`, and only when
that returned does `LegSaved` put the id into the plan (`ref`). A tab that dies before leaves
no id, and what throws, cannot be saved or expired leaves none either (`LegLost`); the
plan's next step then makes another move. `PollStarts` and `PollAdvances` act on the saved
id alone. The move screen's calls (`Asks`) go on beside it in every tab. What deferred.ts asks before
a first call is in `PlanRunner`.

Liveness depends on the caller: the plan's tick calls `start` for a submitted burn, if
the plan knows of it, and the screen never does.

### The abstract specification

`SettlementMove` has two variables per move: where the funds are, and what the
user is told. Funds go forward only, and never leave after "expired"; "in
transit", "arrived", "refunded" and "failed, funds at risk" are said only when
true. `ImplementsSettlementMove` maps the chain to the first variable and the
record to the second and checks that every step of every tab, wallet and chain
is a step of it or changes neither.

## 5. The plan runner

One plan with two legs, the shape its screen makes: leg 1 buys USDC with a
provider and is judged by the balance, leg 2 moves what arrived, quoted only
when its turn comes. Every open tab steps the same stored plan on a timer.
`op[p]` is the place of tab `p`'s `runner.step`, with the same `stale` flag as
above; an executor under way does not look at it and goes on with what it began,
which may be a burn.

Moves are seen as the executors see them: by the state of their record and by
what became of their burn. `open` stands for the states before the burn was
saved, `adrift` for a burn that the user reported and the record does not follow,
`sent`, `settling` and the final ones for the rest. A record may carry its
question through all of them (section 4), and nobody need answer it once the
move is over; the plan's executor looks at the question first.

The wallet is its user's: USDC that has nothing to do with the plan may arrive (`Deliver`), and
what is there may be spent elsewhere at any time (`Spend`), also what the plan is waiting for.

## 6. Staking

Every instruction is one transaction and one action. The token takes a transfer
fee that its authority may change: any `net` from one unit to the whole amount
may arrive for a stake, from nothing to the whole for an unstake. Anyone may send
to the vault. The clock never goes back. The tables an authority may set include
one that `validate_tables` must refuse. Amounts stay below the supply of 10^18, so
that the program's u64 and u128 arithmetic does not overflow; overflow is not
modelled.

## 7. The programs that trade

One instruction is one action, with every check that can fail as a guard and a
refusal as no step. Where a property says that an instruction is *possible* (`WayOut`,
`LastBuyAccepted`, `CanLeave`, `OwnerCanLeave`, and `MaturedCanLeave` of staking), the
guard has a name of its own (`MaySell`, `MayRemove`, `MayCancel`, `MayUnstake`, ...) and the
action is that guard and assignments: the guard holds exactly when the action is enabled, and
unlike `ENABLED` it is a formula the prover can reason about. Amounts are small and the constants of the programs are
parameters, so that a fee, a rounding, a cap or a wrap happens within a few units.

### `Curve`

`curve` is the four live numbers of the account, `start` what `derive` fixed;
`sol_vault` and `vault` are the balances the program does not control alone, since
anyone may send to them (`Gift`). `rent` may change at any time (`SetRent`), which is why
`vault_rent_floor` takes the smaller of today's rent and what the vault had to
spare. `BuyOf` contains the cut of the last buy, which is priced backwards from
the tokens with two roundings. `migrate` takes from the environment how much the
exchange's pool takes, and refuses when more than a sliver is left over; what was
in the migrator's accounts before does not count. Someone else may open the
pool's address first (`OpenPool`), after which only `abort_migration` is left.

### `Pool`

`k` is over real *and* virtual reserves, both of which change in separate roundings.
`credit` moves the accumulator modulo `ACC_MOD`, and `Since` is the wrapping
difference; `ACC_MOD` is 4 in the run, so it wraps all the time. One bound is the
model's own: `NoLap` keeps a position from being left unsettled for a whole turn
of the accumulator, which in the program would take 2^64 lamports of fees on each
of its shares. A launch fee falls with the clock, and adding waits until it is
over. Any id that signs for itself may be opened, or the owner's own address; the run has
one of each.

### `Orders`

`fill_order` takes the venue's result from the environment: what it left in the two vaults,
and whether it changed who controls them (`tampered`). The guards are what
the program checks afterwards. A buy's fee leaves before the venue is called,
a sell's after, out of what was received. Strangers may send to the vaults
(`SendToVault`), and the admin may change fees, venues, listing and pause between
any two steps.

Three kinds of accounts decide whether a payment can be made. `feeAccounts` are those the
fee wallet has: for the payment asset open ones, frozen ones, both or none (the program takes
any account of the wallet), for the launch token one or none. Anyone may open them, their
owner may close them, and the issuer may freeze those of the payment asset
(`FeeAccountsChange`); naming another wallet in `update_config` changes them too. `frozen` are the
payment accounts of orders and their owners that the issuer froze (`Freeze`). `PaymentMoves` and
`FeeAccountTakes` are then guards of every payment. That the owner's own accounts exist is assumed:
whoever signs the cancel can open them in it. So they could the fee wallet's, but the program
does not, and the model leaves it to an action of its own. `deal` records what was agreed and received, for the properties
alone.

## 8. The RPC pool and the record mirror

### `RpcPool`

A question's run goes from `Begin` through `Send` and one of the answers
(`Answers`, `Limited`, `Refuses`, `Breaks`, `TooBig`) to the next node or to `Finish`. What the
code does between two awaits is one action, so `acquire` (refill, forget, sort out the
candidates, send, wait or give up) belongs to the action of every event that leads to
it. The code chooses among ready nodes at random by weight and health; the model
chooses any. Two variables serve the properties alone: `allowance` counts a node's
rate unit by unit, while the code adds up only when it looks, and `told` is what
the node itself asked for, cut to the two minutes at which the code cuts it (`Honoured`).
Refusals for too many requests and failures have a growing pause each, with limits of their own
(`LimitedPause`, `FailedPause`). A node's troubles are a constant of the instance: one
that is busy and one that does not do everything.

Time is in units, and a timer that is due stops it (`Tick`): a browser's timer may be
late, which would only lengthen what `EndsInTime` bounds.

### `RecordMirror`

A record is the list of the browsers that wrote its versions. Its length is the
version, and two records that parted ways differ, which is all that the
properties need of the contents. `queue[p][r]` is the chain of promises in `push`;
`puts` the requests on their way, of which a page may give one up (`GiveUp`) that is
served later, and `Reload` leaves them all behind. `Serve` is the server's one
SQL statement: an insert, or a replacement guarded by token and version.
`BodyLost` is an answer whose head says "created" and whose body, with the token,
never comes; a storage that refuses a token leaves it to the page alone (`remember`). `restoreFromCode` reads the storage before the request and again when
it writes.

Fairness (`Uploading`): a fetch ends, one way or another, and the code after it
runs. The code sets no time limit of its own; that every fetch ends is the
browser's part.

## 9. The runs

`CHECK_DEADLOCK FALSE` is set in every run: sends, crashes and clocks are bounded,
and a record that is over has no next step, so the systems really stop.

| Run | Instance | Question |
|---|---|---|
| `orch_tabs` | 2 tabs, 1 execution, fee and burn, 2 sends per step, 1 crash; the fee without trouble | is anything sent twice, is what a record says of its burn true, does a report run ahead of the funds (349 k states) |
| `executor_live` | 1 tab, approval, fee and burn, 1 crash | is a step left out; is the confirmed burn of a move whose id the plan saved followed, and its receipt reported (132 k) |
| `screen_safe` | 1 page, 2 quotes of one move, fee and burn, 1 crash; at most one burn, until it ends | can the same move be open twice, and can a remembered fee be sent again, other than by two presses on their way at once (608 k) |
| `plan_tabs` | 2 tabs, 2 moves, no crash | order of the legs, what a dropped plan began, agreement of plan and move (2.8 M) |
| `plan_live` | 1 tab, 1 move, 1 crash | is a purchase seen as long as it is not spent, does a plan whose work is done end (28 k) |
| `staking` | 2 owners with 2 units, a day of 2 ticks, 6 ticks, 3 tables, 2 keys | vault, locks, ages, leaving (344 k) |
| `curve` | 7 tokens, targets of 4 to 6, offers up to 9, a fee of 1/10, 1 gift, rents 1 and 3 | does rounding take from the product, can the last buy and every sale be made, is a sold-out curve ever stuck (407 k) |
| `pool` | 2 wallets, 2 positions, 3 tokens, 4 lamports, a fee of 2/10 that starts at 4/10, an accumulator of 4 values | are reserves and fees covered, are fees kept, does a share lose value, can everyone leave (229 k) |
| `orders` | 1 order at a time, up to 5 units, slices of at least a third, 3 fee schedules, 2 programs; up to 2 units and 1 schedule where an account is missing or frozen | is the escrow whole after any venue, is the limit kept over any slices, are fees those agreed, can the owner leave whenever the payments can be made (127 k) |
| `rpc` | 2 nodes, 2 callers, 2 questions, 3 attempts, 5 units of time | places, rates, pauses; is a question asked once and everyone who asked it answered, and when (1.5 M) |
| `mirror` | 3 pages in 2 browsers, 1 record of 3 versions, 1 restore, 1 reload or turn of the switch | who changes the copy, what a restore may overwrite, do uploads end (254 k) |
| `plan_once` | 2 tabs, 2 moves, no crash; a unit in the wallet before the purchase | the statement that a leg is started once, which the code does not keep (section 11) |

The types of the modules with theorems are not asked again by a run, and neither are
`ExpiredSentNothing`, `ArrivedOnlyIfMinted`, `FinalStays`, `FinalPlanStays`, `FollowsOneMove`,
`LockedStaysIn`, the curve's `Backed`, `NeverShort` and `PoolGotTheRaise`: section 10 has
them for every instance.

Why the bounds are enough for what is asked:

* Two tabs are what the version check has to separate; a third adds no new kind
  of meeting. The proofs of section 10 hold for any number of tabs.
* A second send of a step is possible only with `MaxSends = 2`; with
  `MaxSends = 1`, `NoSecondSend` would hold by construction, so the runs that use 1
  do not ask it.
* `orch_tabs` is about the burn and the claim: its constraint (`FeeFirst`) lets the fee through once,
  from one tab working alone, or finds it remembered, and everything after it is free. What goes wrong
  with a fee, and a burn that goes out before its fee confirmed, are in `executor_live` and `screen_safe`.
* One crash at any await of any call is enough to reach every state in which a
  record is found unattended; a second one finds it in the same states.
* `screen_safe` explores until a first burn ends (`OneBurn`): which moves are open together and what
  fee is remembered is decided before that, and a confirmed burn ends what the ledger
  remembers. Its properties are safety properties, for which a state constraint only narrows what is
  explored. Two executions are two presses; a third press meets them in pairs. One page is
  enough for presses to meet, and section 10 has `OpenOnlyTogether` for any number.
* `executor_live` has one execution: what is asked is whether a saved move is followed, and the
  executor makes no second one once it saved an id.
* `plan_tabs` needs two moves because the hazard is the second one. Its two tabs
  already leave each other's writes unseen; reloads are in `plan_live`. The wallet starts empty there
  and with a unit in `plan_live` and `plan_once`, so that a balance can also fall below the baseline, or
  hold enough for two moves.
* In `staking` a day of two ticks lets a lock end in mid-day, and durations of one
  to three days let a top-up extend, keep or fail to cover what is left.
* In `curve` the fee rounds up on every amount, the target does not divide the
  supply, and an offer of `MaxOffer` takes all there is, so that buys, sales, the cut,
  the migration, the abort and trading after it all happen within a few steps.
* In `pool` a smallest addition (2 shares to 3) rounds all three reserves at once,
  and one trade may wrap the accumulator. `OwnIsKept` follows hand-overs at one of the
  two ids only. One lamport per share is 3 in the accumulator, so that credits
  round.
* `orders` follows one address: orders share nothing but the configuration, the listing and
  the fee wallet's accounts, all of which change at any time, and an address is used again after
  it is closed. A third of 5 is not whole, so slices of 2, 2, 1 and their orders
  round differently.
* In `orders` accounts change and orders stay small together (`Bounded`): leaving needs amounts only
  for a cancel fee of one unit and a stray payment to appear, and rounding needs amounts and no accounts
  but open ones.
* In `rpc` a node may ask for 2 or for 4 units, one below and one above the cap of 3, and the two growing
  pauses end at 2. Two callers are enough for one to join, to be at the same node, or to
  race it in failing; the limit of two requests in flight at a node never binds
  for them, and is kept so that two failures can meet at one node, which is what
  `LeftAlone` is about. `PlacesCounted` asks that every place is given back, which does not
  depend on the limit. Three attempts at two nodes include the second look.
* In `mirror` the two tabs of one browser and one other browser are the three
  ways a page can stand to a record: made it, shares its storage, brought it back. Three
  versions are the least at which an upload can be overtaken by one that is not
  the next. With one record, tokens of other records are never overwritten: that
  part of `remember` is in the model and not exercised.
* Symmetry is used only in runs without liveness properties.

Fairness. `ExecutorSpec`: in the tab that steps the plan a call under way goes on (`WF`), the timer
(walletPlan.ts:222, every 15 seconds) polls the id that the plan saved and no other (`PollStarts`,
`PollAdvances`), a user who is asked answers, a transaction in flight ends, and a node
that is asked again and again answers once (`SF`, since an unanswered poll in
between is possible and takes the call back to idle). Nothing is assumed of a move whose id was not
saved, of a first call, or of any other tab. `ScreenOpenSpec` adds that the move screen is
open in the same tab with every move shown, and that all it can call is called: the most the code could do
for a move that nobody follows, and it is not enough. `LiveSpec` in `PlanRunner`: the timer
steps an unfinished plan for ever, and what is tried again and again (a balance,
a quote, a write) succeeds once. Nothing is assumed of the moves there, nor
of what the user spends. `Fairness` in `RecordMirror` is in section 8.

## 10. What is proved

All for any sets of tabs, executions, moves, owners, wallets, orders and records, any step sequence that ends
in the burn, any amounts and any bounds, from the named `ASSUME`s alone.

* **Types** (`TypeCorrect`, `PlanTypeCorrect`). For the orchestrator the type alone
  is not inductive: `AfterStep` must be applied to a source step, so `TypeInv` adds
  that a call in the loop is never at the mint.
* **`FinalStays`** needs no invariant beyond it: every action on a record comes down
  to leaving its state, or a move that `applyTransition` allows.
* **`ArrivedOnlyIfMinted`** follows from `ArrivalInv`, which adds
  `DESTINATION_EXECUTED`, the one state on the table's way to `COMPLETED` the
  property does not name, and from `Minted` never being undone.
* **`NoSecondSend`** needs `SendInv`. It is inductive because of two
  arguments. For the source steps: only the tab that accepted a quote is in the
  loop (`FreshOK`, `LoopOK`), so nobody else can hand the same step to a wallet. For
  the claim, which any tab may begin: whoever saves `sending` makes every other
  call stale (`PromptOK`, `BeforePromptOK`), so a second one cannot save it. Both meet
  in `UnsentOK`: a step whose status lets it be sent has nothing live, also after
  the user's answer. `ClaimOK` is what lets a failed claim be built again: the one
  that is followed is the only live one. A timed-out wait that goes on is covered
  like any other step of the loop.
* **`ExpiredSentNothing`** adds `LapsedOK` to it: a record expires with no
  step begun, by the move that ends its call, and from then on no call on it has the
  stored version, so that none can save `sending` and hand a step to a wallet.
* **`FollowsItsOwnBurn`** and **`NoStepSkipped`** add `TraceInv` to that: what a saved step
  says of its transaction is true, a burn the record names is the only one of its that can
  count, and whoever is past a step, in the record or in a call's loop, finds every
  earlier step sent or paid before. The unclear answer of a wallet is the hard case: a step
  goes back to pending only if nothing of it is live, which `UnsentOK` gives.
* **`ImplementsSettlementMove`**: the initial states map to initial states, and each action
  maps to a step of `SettlementMove` or to a stutter, under `SendInv` and `TraceInv`. Saving a
  state is where the abstract guards have to hold: a report of a burn needs a named burn
  that is confirmed, and the report of a safe failure needs that nothing named went out.
* **Move screen.** `OpenOnlyTogether`, for any number of pages: `ScreenInv` says that two moves of which
  each is open or let through were let through together. A move that is let through finds none open, and
  those let through already are put into the history with it. `RememberedFeeNotSentAgain` is proved under
  `OnePage` (and that there is a fee step): with two pages it fails, because a call whose
  record another page has ended still waits for its fee while a new move asks for one. `FeeInv` adds to
  `SendInv` that one page never holds an old record, and that a call on its way to the wallet with
  the fee belongs to a page that remembers none, or to a move that has a twin (`HasTwin`). The ledger is asked
  when the step begins and not when it is sent, so that last part has to survive every other call of
  the page: one that sees a fee confirm is in the loop too, and then its move and the asking one are
  both open, which makes them twins.
* **Plan runner** (`StoreProofs`). What a call relies on splits in two: `KnownFor`,
  facts no other tab can undo (a done leg, a final move), and `CurrentFor`, facts about
  the stored plan that hold only while the call is not stale. The two together with
  `PlanOK` give `LegsInOrder`, `DroppedBeganNothing` and `PlanAgreesWithMove`; the
  action properties `FinalPlanStays` and `FollowsOneMove` follow because a call that
  writes is not stale.
* **Record mirror** (`StoreProofs`). `VersionInv` rests on one fact: everybody who holds
  anything of a record has it from one browser, the maker, whose own record only grows. The
  server's row, every copy being fetched and every request the server could accept are then
  versions of the maker's present record; whatever else waits or travels carries no token, since
  only the maker's pages have one. `CopyIsTheCreators` follows, since the
  server accepts only the next version. `NewerIsKept` follows from the second reading of
  the storage. `UnbrokenIsSaved` needs `SmoothInv`: as long as one page made every
  version and heard of every upload, what waits are the last versions in their order, the copy
  is the one before the first of them, and no other page has a request that could
  change it. `NamesAssumption` says that the mark for nobody is neither a page nor a record.
* **Staking** (`StakingProofs`). `LockNeverShortened` rests on `RoundedUp` (whole days,
  rounded up, cover the seconds they were made from), `AgeNotInvented` on `AgeLemma`
  (the average of two ages, rounded down, times the new amount is at most the old
  staked time), both from a lemma on integer division. `Solvent` needs the sum over
  owners, which the model takes as a fold. `Total`, a sum by a recursive function on sets, is shown
  equal to it once (`ProgramMathProofs`); from there on the sum follows an action by
  `TotalChange`, since an action changes one position. `OwnersAssumption` (finitely many
  owners) is what makes the sum one. The types need more than the numbers of a
  position: that it always has a tier rests on `TierLemma`, since every table the program
  accepts has a threshold of 0, and on the table in force having been accepted.
  `MaturedCanLeave` is `Solvent` seen by one owner: one member of a sum of naturals is at most
  the sum (`TotalMember`), so that neither the subtraction from `total_staked` nor the
  transfer from the vault can refuse.
* **Curve** (`CurveProofs`). `CurveInv` is `TypeOK`, `PoolGotTheRaise` and `Covered`, which is
  `Backed` with the shape of the reserves in it: what `derive` left between virtual and
  real ones, and a product that is at least that of creation. The rent enters only
  through `start.paid`, since `vault_rent_floor` never asks for more than the vault had to
  spare. `BuyMath`, `SellMath` and `LastBuyMath` say what one trade does to the shape;
  `NeverShort` is a consequence of the shape alone, and so is the cut of `LastBuyAccepted`. That a sold-out curve owes what its
  virtual reserve has gained gives `PoolGotTheRaise`. `WayOut` and the vaults' part of `LastBuyAccepted` add `StaysSolvent`: what an
  instruction takes out of the vault it takes off what is owed, so that the surplus does not
  change and the floor, which never asks for more than the surplus was, is still met. A sale
  can then be refused for dust alone. A sold-out curve whose pool's address is free can migrate with a pool
  that takes everything; one whose address is taken can be aborted at once.
* **Pool** (`PoolProofs`). `ValuePerShareKept` comes down to four inequalities on rounded
  quotients, one for each of buy, sell, add and remove. `FeesKept` rests on the accumulator lemma: under `NoLap`
  the wrapped difference only grows with a credit, and settling moves what was owed
  into `pending` without losing a unit. `PositionsCovered` holds by `CoverInv`, which weighs
  each position instead of rounding it: what is pending, times the accumulator's unit,
  plus shares times the difference. The weights add up to at most the unit times the fee
  reserve, since a credit adds at most what was put there, settling rounds down, and
  shares that are added or handed on start from the present accumulator. What may be
  claimed is at most the weight, rounded down. The token side of `Backed` has no check in the
  program, and is proved from what each instruction moves. `CanLeave` puts the two together:
  the vaults hold the reserves, of which unlocked shares are a part rounded down, and what is owed
  to one position weighs no more than all do, which the fee reserve covers.
* **Orders** (`OrdersProofs`). `LimitKept` needs the rate of what is *left*,
  `min_out_remaining * in_total <= min_out * in_remaining` (`RateInv`), and that every slice
  lowers `min_out_remaining` by at most what the owner got. `FeesAsAgreed` says that the
  cumulative ceiling telescopes. `VaultsAccounted` holds for any venue, of open orders and of
  closed ones. `OwnerCanLeave` is conditional, as the code is: the two fee accounts have to exist, and no
  payment may have to pass a frozen account of the order's or the owner's. Then the
  cancel fee is at most what is left, which the vault holds, and if every payment account of the fee wallet is
  frozen, which closes the one way, the other is open. It needs `ListedInv`, that there is a configuration as soon as there is
  an order.
* **RPC pool** (`RpcPoolProofs`). `RpcInv` relates the four records the pool keeps. A node's
  count is the number of runs at it; what its rate allows now is what its tokens would be
  if it were looked at now (`Earned`), which is why adding up late loses nothing; its wish to be
  left alone is covered by its cooldown; and the map of questions in flight names
  exactly the runs that are not over. `Between` is the invariant in the middle of a turn, when a
  run has left its node and is at no other yet: every way into `acquire` leads to it,
  and `AcquireLemma` leads from it to each of the four ways out. With that invariant the six
  properties follow for any number of callers, nodes and questions. Two
  assumptions: `SecondLookAssumption`, that the second look (150 to 249 ms) fits in the
  margin it is given (500 ms), without which a pause could pass the deadline; and
  `NamesAssumption`, that the mark for no caller is no caller.

Only model-checked is liveness: `SavedMoveIsFollowed`, `ReceiptIsReported`,
`PurchaseIsSeen`, `CompletedMoveEndsPlan` and `UploadsEnd`. Each needs fairness, and fairness
speaks of `ENABLED`, which is out of the prover's reach; `ENABLED` in the safety
properties is why the guards of section 7 have names. The bounds on time, sends and amounts are constants in
the theorems and small numbers in the runs.

## 11. Where the code and its text part

Each of these was met while modelling. `MovedOnce` has a run whose
counterexample shows it; the others that are named are definitions beside the
model that no run repeats, and each fails on the smallest instance that has the
steps it tells of: `ConfirmedBurnIsFollowed` in that of `executor_live` with the burn alone, also
under `ScreenOpenSpec`, `OneOpenMove` in that of `screen_safe`, `CancelAlwaysWorks` in that
of `orders`.

| Statement | Text | What the code does |
|---|---|---|
| `StepsInOrder` | orchestrator.ts:202 "Waits for a submitted step to confirm. Approvals must confirm before the value-moving step is sent." | the wait for the fee runs out, the record is flagged, and the loop goes on: the burn is sent while the fee is unconfirmed |
| `FailedSafeMeansFundsStayed` | view.ts:125 "No funds were moved by this step." | `retire` ends a record with that report although its burn, saved as sending or submitted but not named, is on its way |
| `FeeChargedOnce` | orchestrator.ts:15 never "charge Aretia's fee for a move twice" | the fee is remembered after its confirmation, by the tab that waits; after a reload the next quote charges it again |
| `ConfirmedBurnIsFollowed` | orchestrator.ts:2-3 "so a closed tab, a crash or a restart can always resume honestly"; walletCrossChain.ts:332 "Picks up an unfinished move, for example after a reload or after the tab was closed during the wait." | the plan's executor returns the id of its move only after `start` (executors.ts:28-31), and the plan saves it after that (runner.ts:77, 88): a reload during the first `start` leaves no id, and deferred.ts:80 starts another move instead. The move screen shows the first one, but calls `start` only while nothing was submitted, so nobody runs `resumeSource` for it. A move whose id was saved is followed (`SavedMoveIsFollowed`); one begun on the move screen itself and found submitted after a reload is not either |
| `OneOpenMove` | safety.ts:30 "to stop the same move being started twice"; line 121 "The same move is already in progress. Finish or check it first." | "Start" is never disabled and its handler does not look at `busy`; the list of unfinished moves is read (walletCrossChain.ts:316) several awaits and confirmations before `create`, which makes a new id each time: two presses, on one page or on two, both pass. Both may then send the fee and the burn. `OpenOnlyTogether` is what the check does promise |
| `CancelAlwaysWorks` | lib.rs:15 "a cancel always works (pauses never block it)"; docs/ORDER_PROGRAM.md:70 "Cancel always works." | both cancels name a token account of the fee wallet for each asset (lib.rs:859-862), also for the asset they do not use, and are refused when one does not exist; a frozen payment escrow, or a frozen account of the owner's, cannot pay or be paid. The document says so itself at lines 72, 152 and 200: the card opens the missing accounts in the same transaction, and every other client has to. `OwnerCanLeave` is what holds |
| `ArrivalIsFinished` | view.ts:117 "Finishing up." | a crash between `DESTINATION_RECEIVED` and `COMPLETED` leaves the record there: `advance` returns at once |
| `MovedOnce` (`plan_once`) | runner.ts:6 "a leg is started once" | `busy` is per tab and the leg is saved after its executor returned: two tabs both burn |
| `SubmittedMoveEnds` | states.ts:11 "the only honest outcomes are completion, failure or refund" | a burn that never landed, answered "was not sent" as notConfirmedText asks, leaves `SOURCE_SUBMITTED` with no step that names it: asked again for ever |
| `ThrownLegLeftNothing` | runner.ts:7 "an executor that throws changes nothing" | `orchestrator.start` throws after `create`: the move exists and the plan keeps no reference to it |
| `BoughtBeforeDone` | executors.ts:84 "rose by at least the leg's stated minimum" | a purchase is done when one unit of USDC arrives from anybody |
| `BalanceIsReadAgain` | executors.ts:103 "this step cannot begin safely. Try again shortly." | `poll` never records a baseline, so a leg that began without one is never watched |
| `RequoteHappens` | recovery.ts:100 "Get a new quote for the remaining steps" | the leg keeps its execution id and polls the expired move for ever |

One more has no statement of its own: a move
that goes on while its question is open may complete with it. A finished record
is no longer listed to the user after a reload, and the plan's executor looks at
the question before the state, so the plan waits. `CompletedMoveEndsPlan` is
stated for moves with no question open for that reason.

In the parts modelled since:

* **RPC pool.** pool.ts:62 documents `budgetMs` as "The most time one request may spend waiting for
  a node and being retried." The budget is looked at before a wait and before the second look, not
  before an attempt: a run that is at its deadline may still ask `attempts` nodes
  and wait out each of their timeouts. `EndsInTime` states the bound that holds.
  Of a node that asks to be left alone, pool.ts:10-11 says that it is left alone for "its own Retry-After
  if it says one", and a test (pool.test.ts:48) "for as long as it asked". The code cuts a Retry-After
  at 120 s (line 325), and one in the form of a date is no number and gets the growing pause. `LeftAlone` is
  stated for the time the code means to keep, `told`.
* **Record mirror.** remote.ts:7 says of a copy that is behind that "the screen says
  so". `copyBehind` is one flag for all records, set by the result that came last, and
  it is gone after a reload. Nothing tries a lost upload again: the next version
  is refused as a conflict, and from then on the copy stays behind. The same
  happens for a tab that was opened before the move was made: it has no token, and a
  token it gets later for another record is written over those of the first tab.
  `UnbrokenIsSaved` is stated for a record of one page whose uploads were all heard.
  A move brought back from a copy that is behind shows steps as unsent that were sent;
  that a saved quote is never signed again (`fresh`) guards `start`, and nothing guards the
  claim.
* **Plans.** A purchase is the difference of the balance now and a balance read minutes ago
  (executors.ts:111-116). USDC that the user spends in between is taken off it: if what arrived was spent
  elsewhere before it was read, or as much of what was there before, the purchase is never seen, and the plan waits until the
  balance rises again. `PurchaseIsSeen` is stated for a rise that lasts.
* **Orders.** When the last base unit of a buy carries a fee of one unit, `buy_fee <
  slice` refuses its fill, and only the owner's cancel is left for it.
* **Pool.** pool-math says that the price never falls below the one the range starts at. Each trade
  leaves the product at least as large, but rounding up in the pool's favour can leave a sale
  with a price below the start by the order of one lamport.
* **Wallet session.** A refresh that overlaps an account switch may show the older
  account; `adoptWallet` begins its revisions again, and `restore` may replace a choice
  made while it was waiting. Every signature checks the account again, so each of
  these ends in a refusal.

## 12. What is abstracted

* Quotes, amounts and accounts of a move are one value; building transactions,
  inspecting them and reading attestations may succeed or refuse at will. The
  gateway's checks of destination and account are not modelled.
* Wording, explorers, histories and timestamps are left out; a failure keeps only
  whether it says that funds are safe or at risk.
* The store's read and write of all records is one step. Within a tab nothing
  runs in between; across browser processes it is the browser's business.
* `restoreFromCode` and the server's copy are in `RecordMirror` and not in
  `Orchestrator`. A record found after a reload behaves as a restored one does, in
  that no tab has its quote in `fresh`.
* A tab that dies between the two writes of `create` leaves a record in `CREATED`
  that no call moves and that blocks the same move. It is in the model; no property
  is stated.
* A plan has two legs, one account and no swaps; several plans at once are not
  modelled.
* In the three programs a caller's own limits (minimum out, maximum in) are left
  out: they can only refuse. Checks of accounts and mints that no state of the
  model can change are left out too, and so is u64 and u128 overflow, except for the
  accumulator of `Pool`, which wraps by design, and its `in_range`.
* In `RpcPool` the health figures and weights, which only choose among ready nodes, are
  left out.
* `Spend` takes one unit at a time from the wallet of a plan; a burn takes the amount of its
  move, and fails when the wallet holds less.
* In `Orders` the owner's own two accounts are taken to exist, and the launch token cannot be frozen:
  `create_order` refuses a mint with a freeze authority.
* In `RecordMirror` the server's limits on form, size and rate are a request that
  fails.
