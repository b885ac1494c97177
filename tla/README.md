# A verification development of BankSym

BankSym is a multi-tenant test bank: one FastAPI process that serves the tenants
of one database, through an administration API, an Open Banking (Berlin Group)
API with its redirect flow, two read-only protocols, a live transaction
simulator and a set of browser pages. This directory models what the process
does to its state, in TLA+, checks small instances with TLC and proves what
matters most with TLAPS, for any number of requests, rows and restarts: the
soundness of the ledger and the conservation of money, what payments and
settlement promise, consents and codes, tenants, the simulator, rounding, and
what clients are shown.

Contents: [the system](#the-system), [modules](#modules),
[modelling decisions](#modelling-decisions), [runs](#runs),
[divergences](#divergences), [fairness](#fairness), [proofs](#proofs), [what is not modelled](#what-is-not-modelled),
[plan](#plan).

## The system

### How it runs

Most handlers are plain `def` functions. Starlette runs each in a thread of a
pool, so two requests interleave at any point. A repository method opens a
database session of its own and commits before it returns: one call is one
transaction, and a handler that reads in one call and writes in the next has
given up the isolation in between. Sessions, consents, payments and
authorisation codes are Python objects in dicts that all threads share; a
handler that has looked one up goes on assigning to the very object other
handlers see. The simulator is an asyncio task on the event loop, and each of
its ticks runs in a thread. Nothing is locked. A crash or a restart keeps the
database and loses everything else.

### Components

| component | state it keeps | operations | what makes it correct |
| --- | --- | --- | --- |
| core service and ledger (`core/service/banking.py`, `core/domain`) | customers, accounts, journal entries (rows) | create customer, open account, find or create an internal account, transfer, post entry, balance, history | entries balance; rows of a bank refer to rows of that bank; money is conserved; a transfer does not overdraw |
| repositories (`persistence/repositories.py`) | the tables | one transaction per method | a method touches one tenant only |
| tenancy (`tenancy/`, `routers/banks.py`) | bank rows | create, update, delete | names distinct, an update changes what it was given, a deleted bank stays deleted |
| authentication (`capabilities/auth`, `routers/auth.py`) | credentials (rows), sessions (memory) | register, login, logout | a customer can log in, a login is one customer's |
| consents and redirect flow (`protocols/base/consent.py`, `routers/oauth.py`, `container.py`) | consents, codes (memory) | create, authorise (two ways), revoke, approve, issue and exchange a code, purge | nobody sees what was not granted; a code works once; revoked stays revoked |
| payments (`berlingroup/adapter.py`, `base/payment.py`) | payments (memory) | initiate, authorise, finalise | a payment is settled once, its status tells where the money is and only moves forward |
| settlement engines (`capabilities/settlement`, `container.run_settlement_cycle`) | internal accounts (rows) | settle, run a cycle | what waits in suspense is what awaits the cycle; what awaits is completed |
| transaction history (`routers/banking.py`, `txgen/rulebased.py`) | journal entries | post, import, generate for an account or a bank, read | answers count what was booked; histories are in order and end with the balance |
| population (`routers/banking.py`, `persistence/engine.py`) | customers, accounts, credentials | batch creation, creation by hand, data fix at start | a batch is whole, customers fit the bank and can log in |
| money (`core/kernel/money.py`) | - | exponent of a currency, decimal to minor units and back | rounding is to the nearest and favours no side; what is shown may be sent again |
| read surfaces (`protocols/fdx`, `protocols/openfinance`, `berlingroup/adapter.py`, lists and statistics of `routers/`) | - | list customers and accounts, account, balances, transactions, statistics, participants | an answer made of several reads is true of one moment; statements add up; no half of a batch is seen |
| simulator (`simulation.py`, `routers/simulation.py`) | running flag, task, feed, counter (memory) | start, stop, tick, record a manual transaction, poll | one loop at a time, stop comes back, each transaction recorded once |
| live page (`ui/live.html`) | cursor, what is shown (browser) | boot, poll, receive | every event once and in order |
| everything else | - | tables of constants, routing | see [below](#what-is-not-modelled) |

They interact through calls (a handler calls the container, which calls the
services, which call the repositories), through the shared tables, and through
the objects in memory: a consent that is being approved by the bank's page is
the one a third party is listing accounts with, the suspense account that a
cycle sweeps is the one payments are paid into.

### What is hard

- **Interleavings between sessions.** Check then act: funds check and entry,
  duplicate name and insertion, find and open an internal account, read and
  write back a bank, sweep and promote, look up and delete a code.
- **Objects assigned to while others read them.** A consent becomes valid before
  it is narrowed, and a listing reads its customer anew for each account; a purge
  iterates over a dict that grows, or replaces one that others have added to or
  replaced meanwhile.
- **Deletion next to everything else.** A request that has passed the check of
  its bank writes rows of a bank that is gone; an update brings the bank back.
- **Partial failure.** `delete_bank` goes through five stores, and any of the purges
  in memory may raise; an import stops in the middle; logins of a batch are registered
  after its rows are committed, and what registering raises is swallowed.
- **Cancellation.** `stop` cancels a task whose work is in a thread and waits for
  it, while other requests start and stop the simulator again.
- **A client that polls** a bounded window over a network, and a server that
  restarts its numbering.
- **Answers made of many reads**, one account after the other, while entries are
  booked out of the order of their times, a batch arrives and the bank goes.
- **Crashes**, which keep the rows and lose the objects.

PROJECT.json lists the gravest of these at their lines (`hazards`) with the
properties that would catch each of them.

## Modules

| module | models | state | checked by |
| --- | --- | --- | --- |
| CoreBanking | the core service over the tables, as steps of a worker's frame | customers, accounts, journal, frame | through the two below |
| Ledger | the administration of tenants, customers, accounts, batches and transactions, composed on CoreBanking | banks and the core's tables, which transaction added what | MCLedger |
| Settlement | payments, the three engines and the cycle, composed on CoreBanking; a restart, and the purge of the store by the deletion of another bank | payments, engine, the core's tables | MCSettlement |
| PaymentPromise | the abstract specification of payments | status, where the money is | refined by Settlement |
| Access | logins, sessions, consents, codes, listings, the purges of a deletion, a restart | credentials, sessions, consents, dicts, codes | MCAccess |
| RollingFeed | the feed of the simulator: the bounded deque and the poll | (operators) | by the two below |
| Simulation | start, stop, the task, its ticks, manual transactions | running, task, feed, counter, journal | MCSimulation |
| LiveFeed | the page that boots and polls the feed | cursor, events shown, polls under way, how far boot is | MCLiveFeed |
| Tenancy | creation, update and deletion of banks, and the currencies of accounts opened by hand or in a batch | banks, accounts | MCTenancy |
| History | imports, generated transactions and the history read back | entries, workers, answers | MCHistory |
| Population | batches, customers by hand, logins registered by hand or with a customer, the data fix of a start | customers, accounts, logins, who registered what | MCPopulation |
| Money | exponents, rounding half to even, conversions | (operators) | AccountViews |
| AccountViews | what FDX, Open Finance, Berlin Group and the bank's own pages answer, read by read, next to what is written meanwhile | rows, postings, the request, the answers | MCAccountViews |
| CoreBankingProofs, LedgerProofs, SettlementProofs, AccessProofs, TenancyProofs, SimulationProofs, LiveFeedProofs, AccountViewsProofs | theorems | - | TLAPS |

CoreBanking has no specification of its own: it declares the tables and defines
`CoreStep(w)`, the steps by which a worker goes through `open_account`,
`ensure_internal_account`, `transfer` and `post_journal_entry`. Ledger and
Settlement extend it, declare their own variables and hand a frame over to it
with the label it starts at and the label it comes back to. This is the
composition of the code: the container and the plugins call the service and go
on with what it returns.

A request is a frame `frame[w]` of a worker: the operation, a label `pc` that
names the next transaction or the next assignment to a shared object, and the
locals that survive it. The actions of a module are named after what the code
does at that label, and `map` in PROJECT.json gives the lines of each.

## Modelling decisions

- **Grain.** An action is one repository call (one committed transaction), one
  assignment to an object another thread may be reading, or, in the simulator,
  what the event loop does between two awaits. Reading rows and computing with
  them belongs to the action that reads. A reply that reads the database again
  after the last write (the balance in an account response) changes nothing and
  is left out, except in History, Simulation and AccountViews, where what is read
  is the point. Four steps are coarser. `start_payment_authorisation` finds and saves
  its payment in one step of Settlement, where `update_payment_authorisation` takes
  two. RecordOutcome assigns the status and `settlement_journal_id` at once; the code
  only ever writes the latter, and StatusTellsMoney asks for it once nobody works on
  the payment. `Check` in Simulation looks all accounts of an entry up at once, and
  CreateCustomer in Population writes the row and the login in one step.
- **Sets for tables.** A table is a set of rows; a journal entry bears the order
  of its insertion (`seq`), for the order of reads without a sort depends on it.
- **Money** is an integer of minor units, as in the class; currencies are model
  values. Names, addresses, descriptions and merchants are left out; amounts come
  from small sets. Money and AccountViews have the decimals as well: a decimal is a
  number of ten-thousandths of the major unit, a tenth of the smallest minor unit
  there is, so that amounts can be sent that no minor unit expresses, and doubles, for
  FDX: beyond `FloatExact` a double is the nearest multiple of its spacing, one of
  `Spacings` that is at most the amount divided by `Precision`. In the code spacings are
  powers of two, of the major unit; a double holds 15 decimal digits for sure, hence
  every amount below 10^12 of the major unit exactly. In Tenancy a currency has its
  spelling, because creation folds it and an update does not.
- **Restarts** keep the tables and make the stores in memory anew: requests under
  way are gone, wherever they were. Access, Settlement, Population and LiveFeed have
  them as an action; the payments and consents lost stay in the model as history
  (`forgotten`), to say what became of their money. In Settlement a payment the
  store has lost can also come back: the handler that holds the object saves it.
- **Ids** are fresh (`new_id` is a random UUID): an id is never handed out twice,
  and `issued` records those that were.
- **`Session.merge`** in one transaction: SQLAlchemy reads the row and then
  inserts or updates it; Tenancy takes both as one step, and the read a handler
  did earlier as another.
- **CPython.** Assigning an attribute, setting or deleting a key and rebinding a
  dict are atomic. A comprehension over a dict that others grow raises
  `RuntimeError` where it notices that the size has changed; Access and Settlement
  have the beginning and the end of such iterations as two steps. A purge that has
  built the new dict puts it in place of the old one in a step of its own (`Purged`,
  PurgeAssigns). Access counts what is put into the payment store (`payments`), which is
  all that the purge of that store can trip over. `+= 1` on the simulator's counter is
  taken as one step.
- **The same code in two modules.** `create_customer` registers a credential:
  Ledger has its rows, Access its login, Population takes it as one step next to
  batches. `open_account` checks the currency against the bank: that check is in
  Tenancy, the insertion in Ledger. A batch is drawn and its logins are registered in
  Population; Ledger and Tenancy have it as a transaction of any number of rows, of
  which Ledger's may be of any kinds. `delete_bank` is step by step where a module
  is about what it may leave (Ledger, Access, Tenancy) and one step where only
  its effect matters (History, Population, Simulation).
- **Accounts clients open.** `POST /accounts` takes any type and name, so a client may
  open the very account `ensure_internal_account` looks for, and a batch may give one to
  a customer. Ledger remembers in `made` which transaction added which rows and whether
  a client asked for them: bounds on what races leave count transactions, not rows, and
  bounds on what `ensure_internal_account` opens leave the clients' own accounts out.
- **History** orders by time: its clock ticks once per reading, a month has
  `MonthLength` days and a person one salary and a few purchases in it. A date is
  an instant and an offset, and what is stored is the wall clock. A transaction
  posted by itself is an import of one item.
- **Population**: shares are compared as fractions of naturals, exactly; weights
  that add up to nothing make the request fail before it writes, hence no step.
  A username is an address (the default) or one a client gives, with a customer or by
  `POST /auth/credentials`; only those that could be some customer's address matter
  (`GivenUsernames`). `registered` and `raised` remember who registered what and for whom
  registering raised. The checks of that endpoint and its write are one step.
- **AccountViews** has one request at a time. Requests that only read do not affect
  one another, so one at any point of its way, next to any writers, is the general
  case; which consent allows a Berlin Group request is Access's question. Rows of
  answers keep what properties tell apart: the account, the amount or balance as it is
  written (a double by FDX, a decimal by the others), the sign convention (FDX turns
  debits and card balances round, Open Finance card balances), the direction where
  the protocol names one, whose they are. The journal is kept as postings, two for each
  entry, which may be to one account when "External world" posts to itself; an account of
  an internal type may be a customer's. FDX's available credit, the difference of two
  doubles, is left out. `past` collects the journals there were since the request began,
  `answers` what was answered. An update that brings a deleted bank back is Tenancy's
  alone: AccountViews takes a bank that is gone to stay so.
- **Bounds.** `MaxRequests`, `MaxCommands`, `MaxEntries`, `MaxReads`, `MaxRecorded`,
  `MaxRestarts`, `MaxDisruptions`, `MaxCrashes`, `MaxOutstanding`, `MaxLost`,
  `MaxAuthorisations`, `MaxReconfigurations` and `Closing` count what the environment does and are in the guards of
  the actions that begin it; the sets of ids bound what can be created, `BatchSizes` how
  much at once. Where a
  specification may stop it has an action that says so (`AllServed`) and deadlock
  is checked; Simulation, History and Population stop where their bounds are
  reached and say `CHECK_DEADLOCK FALSE`.
- **Definitions marked "Mutant"** are plausible slips in the code a definition
  stands for. No specification uses them; each shows that a property notices it.

## Runs

`tlc -config X.cfg MCY` for each row of `runs` in PROJECT.json. A *pass* run finds
no error. A *violation* run finds the code against something the repository says;
its counterexample is the finding in PROJECT.json.

| run | question | result |
| --- | --- | --- |
| LedgerRace | two workers, two tenants, three requests of any kind, with deletions, batches, plugins' transfers and malformed entries: are rows consistent, is money conserved, is a tenant touched by another's requests, how much can a race leave behind? | pass |
| SettlementConcurrent | two payments, two workers, every engine and a change of it: is suspense reconciled, does the status tell where the money is, are overdrafts bounded, is PaymentPromise implemented? | pass |
| SettlementFaults | two payments, one request at a time, every engine and a change of it, SCA completed twice, and a restart or a purge at any moment: does no payment leave more often than its SCA was completed, does suspense hold what awaits the cycle, is what awaits completed? | pass |
| SettlementStuckRace | does every payment accepted for the cycle get completed if requests interleave? | violation |
| AccessRace | two workers, two banks, any four requests and a restart: is a code exchanged once, about a consent its customer agreed to, a consent bound to no PSU but its own, what is shown what was granted, and by one customer, and does a deletion forget its own bank and only that? | pass |
| AccessRevoked | does a revoked consent stay revoked? | violation |
| TenancyRace | five requests, one at a time or two at once: names, deletion, partial updates, and currencies in two spellings, with accounts opened by hand and in batches | pass |
| HistoryConcurrent | two imports or generations, a deletion, a crash: what is left, what is answered, how the history reads | pass |
| PopulationBatches | two requests, a deletion, a restart: are batches whole, do selections fit, do logins work? | pass |
| SimulationRace | two controllers, two tasks, a poster, a deletion: one loop, each stop comes back, each entry recorded once and with a balance of its time | pass |
| LiveFeedPolls | two polls at a time, two restarts, two lost polls: once, in order, nothing skipped that was in reach, and the page catches up | pass |
| AccountViews | one request of any of the eighteen views, two entries against any accounts (rounded, and dated in any order), a batch with an account of an internal type, the deletion of a bank: is what was sent shown, do statements add up, are batches whole, is an answer true of one moment? | pass |

What the bounds are for:

- **Ledger.** Two workers and three requests are what the races here take: one
  request between the check and the act of another, and one to make them differ;
  three transactions show that the third finds what two have opened. A second
  tenant is needed for isolation, a third bank id for creation. A deletion and a
  request next to it leave the one transaction that LeftoversBounded allows: a batch
  of a customer and an account shows that it may be more than one row. Clients open
  accounts of the kind that transactions look for; customers' own come with the batch.
  Callers say no currency, or one that the account does not have.
- **Settlement.** Two payments let one be queued while the other is swept, and let
  both pass the funds check of a debtor who can pay one (seed `Poor`). The engine
  changes once, at any point. In SettlementConcurrent a client completes an SCA
  once; in SettlementFaults twice (`MaxAuthorisations = 2`), which is what it takes to
  pay twice, and there is one disruption, a restart or a purge, at any step of a
  request or a cycle. One worker suffices there, for a purge is not a worker's.
  `overlapped` holds the banks whose cycle ran next to a request that settles, to
  another cycle, or to a payment added to the store in any bank, and all banks once
  two purges were under way at once; what a cycle promises is stated for the others.
  Purges and several workers together are beyond these runs; the proof covers them.
- **Access.** Four requests cover creation, approval and two exchanges of a code;
  five in AccessRevoked a login, a consent, its authorisation, the revocation and
  the completion. Two banks are what a purge needs to touch the wrong one, two
  workers what a listing needs to see an approval half done, or the consent of one
  customer at one account and of another at the next. `disturbed` holds the banks
  whose deletion overlapped another deletion, a new consent or payment, a write to the
  bank, a request left over from an earlier deletion or one for a consent that is in
  `late`, or was cut short by a restart. `late` holds the consents added between the
  new dict of a purge and its assignment, which lose their place in the store.
- **Tenancy.** Creations under two spellings of one name and under another, updates
  of each field alone and of all together; five requests are a bank created, changed
  and deleted next to another of its name. `overlapped` tells whether two requests
  were ever in flight together: what is promised to clients that wait for their
  answers is stated for `~overlapped`, and what is left of it otherwise as a bound.
  Rows of accounts bear the number of the request that inserted them, for a batch (of two
  rows here) leaves as many as it has. `respelt` holds the banks an update gave a base currency in lower case.
- **History.** Dates out of order, dates that coincide, dates at other distances
  from UTC, an item of an unknown account, one in a wrong currency, one without a
  date; ranges within a month and across the end of one. Of two requests one may be cut
  off by the deletion at each of its reads, the balance it answers with included.
- **Population.** No weights, a weight of zero, weights above and below the
  thresholds of the derived accounts, a given number of accounts, and a weight for
  a type that counts as internal. The one username clients give is the address of a
  customer of the batch. The registration of any customer of a batch may raise.
- **Simulation.** Three commands give a start, a stop and a start, with the tick of
  the first task still in its thread; three entries, one of each thread there is,
  reach the bound of BalancesNearlyAgree.
- **LiveFeed.** The deque holds 200 events and the page leaves a poll's limit at
  its default of 200. A deque of three and five events let the window slide past a
  cursor, and two restarts let the new counter be below, at and above the cursor.
  Two polls are what overtaking takes; `astray` says that polls overlap, that boot polls
  what the button has already pulled in, or that the cursor has fallen back behind what
  is shown, and is over when it has caught up.
- **AccountViews.** A bank with a card of one customer, a savings account and one of
  an internal type that a batch adds with their customer, the bank's "External world",
  and a second bank in yen, which has no minor unit, with an account of nobody. Of the
  amounts (0.005, 0.017 and 0.037) one is half a cent, two above; in yen all vanish. A
  double is exact to 0.03 here and beyond that a multiple of 0.0256, so that the largest
  amount and the sum of two are not what they were. Two entries can be booked in
  one order and dated in the other, against any account, "External world" itself
  included. The range is absent, a day, or without a time zone.

TypeOK is checked in LedgerRace, where the proofs of the core rest on it; in the
other modules that have one it documents the variables and is in no run. It is
proved for Ledger, Settlement, Access, Tenancy, Simulation and LiveFeed.

## Divergences

Two disagreements of the code with what the repository says of it are findings,
with a run each. The ones below were met while modelling. A few properties are
stated so that they hold in spite of them, with a bound or a condition; each can be
seen by making the change named here to a configuration.

| what happens | where | how to see it |
| --- | --- | --- |
| Completing the SCA of a payment twice settles it twice: the status is not looked at. | `adapter.py:546` | SettlementFaults, SettledOnce with the bound 1 |
| Two payments at once pass the funds check and overdraw the debtor, whom `rtgs.py:4-5` protects. | `service/banking.py:161` | SettlementConcurrent, OverdraftBounded with the bound 0 |
| Two cycles at once both move the suspense balance they read; a payment queued between the sweep and the listing is completed with its money unswept. | `netting.py:67`, `container.py:299` | SettlementConcurrent, SuspenseReconciled without `overlapped` |
| A payment added in any bank while a cycle lists the payments makes the cycle fail after its sweep, and what it swept is never completed. | `payment.py:73`, `container.py:298` | SettlementConcurrent, InitiatePayment without `Meets` |
| A restart forgets the payments, and the money of those that awaited a cycle stays in suspense. | `container.py:94` | SettlementFaults, SuspenseReconciled and AwaitingIsCompleted without `forgotten` |
| The deletion of a bank loses a payment another bank adds meanwhile, settled or not, until a request that still holds it saves it. | `payment.py:79` | SettlementFaults without Restart, AwaitingIsCompleted without `forgotten` |
| A bank that leaves netting never completes what awaits the cycle. | `container.py:261` | SettlementFaults, AwaitingIsCompleted without `engine` |
| Two first transactions open two internal accounts of one purpose (against `service/banking.py:113-114`). | `service/banking.py:116` | LedgerRace, InternalAccountsBounded with the bound 1 |
| A request in flight leaves rows of a bank that is deleted (against `routers/banks.py:126-128`). | `container.py:107` | LedgerRace, LeftoversBounded with the bound 0 |
| A client may open the account the bank looks for, even for a customer: any type and name are taken (against `service/banking.py:113`, "Internal accounts have no customer"). | `schemas.py:140` | LedgerRace, InternalAccountsBounded without `made` |
| A listing while a consent is being approved sees it valid and not narrowed to what was ticked. | `container.py:223` | AccessRace, ShownWasGranted without `s.half` |
| A listing of a consent that is bound again meanwhile shows accounts of two customers. | `berlingroup/adapter.py:114` | AccessRace, ShownWasGranted without `s.customers` |
| A consent made while the stores are purged aborts the deletion with the logins in place; of two purges at once the later restores an old dict. | `consent.py:118` | AccessRace, DeletedBankForgotten and ConsentsKept without `disturbed` |
| A consent of any bank made between the new dict of a purge and its assignment is lost. | `consent.py:118` | AccessRace, ConsentsKept without `late` |
| A payment of any bank made while the payments are purged aborts the deletion with the logins in place. | `container.py:110` | AccessRace, DeletedBankForgotten without "payment" in Disturbs |
| The login of a batch customer is taken over by who registers the address for another: by a customer with the same address, by a username given with one, or by `POST /auth/credentials`; `routers/banking.py:619` speaks of skipping. | `repositories.py:330` | PopulationBatches, LoginsWork without `~taken` |
| What registering a customer of a batch raises is swallowed, and the batch acknowledged without the login. | `routers/banking.py:618` | PopulationBatches, LoginsWork without `raised` |
| Two creations at once make two banks of one name; of two updates at once one is lost; an update brings a deleted bank back; a stale update removes a currency in use. | `tenancy/service.py:131`, `:227`, `repositories.py:88` | TenancyRace, the properties without `overlapped` |
| An update stores the base currency as it is spelt; batches then open accounts in it that no transaction can be posted to. | `tenancy/service.py:222` | TenancyRace, AccountsSupported without `respelt` |
| Dates with an offset lose it and are sorted by the wall clock. | `persistence/models.py:78` | HistoryConcurrent, NewestLast without its condition on offsets |
| Generated entries are dated at the request, not in the range asked for (`routers/banking.py:378-379`). | `rulebased.py:154` | by reading Build in History: no date, hence the clock |
| A restart turns customers made by hand with an example.com address into batch customers (`engine.py:82-83` excludes that there are any). | `engine.py:87` | by reading Restart in Population |
| A weight for nostro, vostro or settlement gives customers internal accounts (against `domain/account.py:32-33`), which the statistics of the bank do not count. | `routers/banking.py:548`, `:638` | AccountViews, ReadersSeeWholeBatches without `is_internal` |
| An entry inserted after its bank was deleted stays in the journal, and nobody is told of it. | `service/banking.py:141` | SimulationRace, EveryEntryRecorded with 1 for closed accounts too |
| After a stop a tick that was under way books and counts a transaction. | `simulation.py:180` | SimulationRace with an action property that `generated` stays while stopped |
| The feed shows a balance the history does not have when an earlier entry is written later. | `container.py:199` | SimulationRace, BalancesNearlyAgree with the bound 0 |
| An answer overtaken by the next poll's is taken for a reset, and events are shown twice. | `live.html:711` | LiveFeedPolls, ShownOnceInOrder without `astray` |
| A restart after which as many events were recorded as the page had seen is not recognised. | `live.html:711` | LiveFeedPolls, NothingSkipped without `restarts = 0` |
| An amount below the minor unit is rounded half to even, possibly to nothing; an entry of zero is booked for a positive request, and FDX shows its credit as a debit. | `kernel/money.py:55`, `fdx/adapter.py:217` | AccountViews, WhatWasSentIsShown with `>` and `<` for `>=` and `<=` |
| FDX writes doubles: an amount with more digits than one has is shown with an error. | `fdx/adapter.py:218` | AccountViews, CloseTo without its second part |
| An FDX `startTime` without a time zone cannot be compared with the times of entries: the request fails once there is an entry. | `fdx/adapter.py:201` | by reading Incomparable in AccountViews |
| Open Finance shows the bank's own accounts to who asks for them by id, and lists them to nobody. | `openfinance/adapter.py:174` | by reading FindAccount in AccountViews |
| A list of accounts has balances of several moments: a transfer between two of them may be counted twice, or not at all. | `fdx/adapter.py:153-164` | AccountViews, AnswersAreOfAMoment with one moment for all rows of an answer |

## Fairness

Three specifications state liveness, each under a specification that states what it needs.

- **Settlement.** `WF(Serves(w))`: a request that was accepted runs to its end,
  as a handler in a thread does. `WF(BeginCycle(w))`: cycles keep being run; the
  endpoint exists to be called by a scheduler, and the promise in the code, that
  a deferred payment awaits *the cycle*, means nothing without one. Clients need
  never send anything. A restart may cut any request short, but only so many of
  them are counted. SettlementStuckRace fails under the same fairness.
- **Simulation.** Weak fairness of each action of the event loop (`StopReturns`,
  `Cancelled`, `LoopHead`, `Wake`) and of each thread: asyncio runs what is ready
  in turn, and the pool's threads are scheduled. Nobody has to start, stop or post.
- **LiveFeed.** The page stays open: boot goes on (`WF(BootAsk)`), from then on
  `setInterval` asks (`WF(Tick)`; nobody has to press a button), and polls are answered
  and received unless they are lost; the number of losses and restarts is bounded, as
  for any property of the kind "eventually".

## Proofs

`tlapm` proves all of the following. What they assume are the named `ASSUME`s on
the constants, which TLC evaluates in the runs, and the hypotheses in the last
column: nothing bounds the numbers of requests, rows, payments or restarts.

| theorem | module | states | hypotheses |
| --- | --- | --- | --- |
| CoreStepAdvances | CoreBankingProofs | a step of the core service keeps the database sound, removes nothing, and hands on a frame whose promise still holds | |
| CoreStepLeads | CoreBankingProofs | where a step of the core leads a frame, and the one row it may add on the way | |
| Invariance, TypeCorrect | LedgerProofs | the strengthened invariant IInv, and `[]TypeOK` | |
| LedgerIsSound | LedgerProofs | `[]LedgerIntegrity`: every entry balances, and in an open bank every posting and every owner resolves within the bank | |
| TenantsAreIsolated | LedgerProofs | no step removes or rewrites a row of a bank that stays open | |
| MoneyStays | LedgerProofs | `[]Conservation`: the balances of an open bank in one currency add up to zero | |
| InternalAccountsStayFew | LedgerProofs | `[]InternalAccountsBounded`, whatever accounts clients and batches open | finitely many workers; no more than that to begin with |
| LeftoversStayFew | LedgerProofs | `[]LeftoversBounded`: what is left of a deleted bank is the work of fewer transactions than there are workers, each of any number of rows | finitely many workers; no left-overs to begin with |
| TypeCorrect, HandlersKnowTheirPayments, MoneyHolds | SettlementProofs | types; what a handler holds agrees with its payment; the money of a payment | MoneyHolds: finitely many workers |
| MoneyIsTakenOnce | SettlementProofs | `[]SettledOnce` | finitely many workers |
| StatusIsTrue | SettlementProofs | `[]StatusTellsMoney` | finitely many workers |
| PromiseIsKept | SettlementProofs | Settlement implements PaymentPromise | finitely many workers; `MaxAuthorisations <= 1`: with more it does not, see [divergences](#divergences) |
| OverdraftStaysBounded | SettlementProofs | `[]OverdraftBounded` | finitely many workers and amounts; no customer below zero to begin with |
| SuspenseStaysReconciled | SettlementProofs | `[]SuspenseReconciled` | finitely many workers; no suspense account overdrawn or unswept to begin with (`SuspenseClear`) |
| CodesWorkOnce | AccessProofs | `[]CodeRedeemedOnce` | |
| TypeCorrect, Invariance | AccessProofs | types, and the strengthened invariant | |
| CodesNeedAgreement, BoundToItsPsu | AccessProofs | `[]CodesAreGranted`, `[]PsuBound` | |
| ListingsAreGranted | AccessProofs | `[]ShownWasGranted`: what is listed was agreed to, read account by account, and by one customer unless the consent was bound again meanwhile | |
| ConsentsAreKept, DeletedBanksForgotten | AccessProofs | `ConsentsKept`, `[]DeletedBankForgotten`, with the purges of both stores in memory, either of which may raise | |
| TypeCorrect, OneByOneHolds | TenancyProofs | types; as long as no two requests overlapped, what a request has read is still so | |
| NamesStayDistinct, DeletionsLeaveLittle | TenancyProofs | `[]NamesDistinct`, `[]DeletedLeaveNothing`: both as clients that wait see it and as a bound on what races do, which for accounts counts requests, for a batch opens any number | finitely many workers |
| UpdatesArePartial, AccountsAreSupported | TenancyProofs | `OnlySuppliedChange`, `[]AccountsSupported` | |
| TypeCorrect, OneLoop, EntriesAreRecorded | SimulationProofs | types, `[]OneRunner`, `[]EveryEntryRecorded`: an entry inserted after the deletion of its bank is recorded by nobody, all others once | |
| BalancesStayNear | SimulationProofs | `[]BalancesNearlyAgree` | finitely many threads |
| BatchesAreWhole, LoginsAreTheirs, SelectionsAreAllowed | SimulationProofs | `[]BatchIsWhole`, `[]LoginsWork`, `[]SelectionsFit` of Population | `PopulationAssumption` |
| ImportsLeavePrefixes, AnswersAreCounts, HistoriesEndNewest | SimulationProofs | `[]ImportsArePrefixes`, `[]AnswersCount`, `[]NewestLast` of History | `HistoryAssumption` |
| TypeCorrect, PageSkipsNothing | LiveFeedProofs | types, `[]NothingSkipped`: however polls overlap and get lost | |
| PageShowsInOrder | LiveFeedProofs | `ShownOnceInOrder`, also over restarts | |
| QuantizeIsNearest, QuantizeIsExact, QuantizeIsOdd | AccountViewsProofs | rounding is at most half a unit off, leaves whole units as they are, and treats debits as it treats credits | |
| FloatIsNear | AccountViewsProofs | what a double makes of an amount: its sign stays, so does all of it to `FloatExact`, and beyond that it is off by a part in `Precision` at most | |
| SentIsShown | AccountViewsProofs | `[]WhatWasSentIsShown`: what was posted to any account is shown by every surface to the nearest minor unit, on both sides of the entry, by FDX but for the digits a double has not; never in the other direction, and in its own unless it was rounded to nothing | |
| BatchesAreSeenWhole | AccountViewsProofs | `[]ReadersSeeWholeBatches`: statistics count all the accounts of the customers they count but those of internal types, participants have names | |
| BalancesFollowAmounts | AccountViewsProofs | `[]StatementsAddUp`: the balances of a statement start from one opening balance and follow the amounts | |
| AnswersHaveAMoment | AccountViewsProofs | `AnswersAreOfAMoment`: each balance and each list in an answer is, as its protocol writes it, that of one moment of the request | |

Finitely many workers is the thread pool of the server. Where a bound counts
workers, a set of them without a number would make the bound say nothing.

**The ledger.** `LedgerIntegrity` speaks of rows only and is not inductive. A
request that has looked an account up in one session adds an entry in another:
that the entry posts to accounts of its bank follows from what the request saw,
from the fact that nothing but a deletion removes a row, and from the fact that
an id is never handed out again. `IInv` therefore adds to the rows (`DbInv`: types,
unique keys, ids issued, entries sound) what each frame may still do
(`LedgerFrameOK`, and `CoreFrameOK` for the labels of the core): *at this label,
these locals name rows of this bank, or the bank is closed for good*. Each lemma
of LedgerProofs shows that one action keeps `DbInv`, advances the rows
(`DbStep`: rows of open banks stay) and leaves a frame that keeps its promise;
`GoodKeepsInv` carries the promises of the other frames over the step once and
for all. The lemmas on the core's steps are in CoreBankingProofs and know nothing
of Ledger; Settlement uses the same ones.

**Sums.** `Conservation` is a sum over accounts of sums over entries of sums over
postings. The models sum with `MapThenSumSet` of the community modules, which takes an
operator; `Sum` in CoreBankingProofs is the same recursive function for the values of
a function, so that lemmas can be about it. What a sum is of a set with one element
more is proved from its definition and from the fact that a
finite set is reached one element at a time: were there a finite set the claim is
false for, there would be one of the least cardinality, and taking an element away
leaves a smaller one (well-foundedness of the naturals, a theorem of the library
without an operator parameter). `MoneyIsConserved` follows because each entry
balances and posts to accounts of its bank only.

**Internal accounts and left-overs.** Neither bound is inductive: each says what is
there and not who is about to add to it. `Few` counts, next to the accounts of one
purpose and currency, the requests that looked for one and found none; nobody joins
these once there is an account, and each opens one. What clients open meanwhile is
known by `made` and counts for nothing, though it too is found. `FewLeft` counts, next
to the transactions that left rows of a deleted bank, the requests in flight that may
still commit one: those that have not yet got to know that an account they need has
gone. The request that deleted the rows is in flight too and adds none, hence *less
than* one transaction each. `MadeInv` says that the transactions remembered are finitely
many and that their rows bear ids and numbers given out already, so that a new
transaction is told apart from all of them.

**Payments.** `HInv` relates the frame of a handler to the payment it settles: payer
and amount are the payment's, an entry booked under way is in the journal and debits
the payer by it. The invariant of the money (`MoneyOK`) counts, for each payment,
entries and handlers that have yet to book one against the SCAs completed, and says
which entry the status names; `Tracked` are the payments the store has or a purge is
about to put back, without which a payment would seem settled twice; only a handler
brings another payment back, and it saves the payment it handles. All steps of
all actions come down to eight effects on one payment (`Effect`: nothing, received,
joined by a handler, taken, refused, recorded, promoted, lost), shown once in
SettlementProofs; the invariant, the status and the refinement are each proved from
the effects alone. `PromiseIsKept` maps an effect to the step of PaymentPromise or to
a stutter. `Covered` makes the bound on overdrafts inductive: what an account holds
less what handlers past the funds check are about to take is at least the bound,
because the last of them saw the account in funds with all entries before.

**Suspense.** `SuspenseReconciled` says what is so when nothing is under way, of the
banks `overlapped` does not name; the proof has to say what is so meanwhile. While a
cycle of a bank runs nothing else settles there (`Alone`), so what the cycle has
read stays true until it uses it (`CycleOK`): the accounts it is through with are
empty, the balance it moves is the balance, the transfer cannot fail, the size of
the store is the one it began to list, and what it has yet to promote contains all
that waits. Then (`HoldsOK`) no suspense account is overdrawn, and none is empty that
was paid into after the last sweep. `CoversOK` compares two sums, what is held and
what is owed, where a payment is owed from its entry on and not only once its status
says so; it is suspended from the first sweep of a cycle to its end, and holds again
there because by then nothing of the bank waits. `OriginsOK` says for each entry not
swept why it lies there: a request is about to record it, or it awaits the cycle, or
the payment is lost, or its SCA was completed again; that no cycle completes a
payment whose money is unswept is `NonePromotes`. A purge only ever puts back what the
store still has unless two were at once (`OnePurge`), and a request that met a purge
puts its own payment back, which is why that counts as adding one.

**Codes and consents.** Two exchanges may look the same code up before one deletes
it, and only the deletion decides. `CodesInv` says that a code in the dict was issued
and never exchanged, and that one never issued was not exchanged. That a listing was
granted is a matter of reach: a consent may be valid and bound to nobody, or bound
and not narrowed, as long as the approval is under way (`Binding`, `Narrowing`) or
no dict and no request has it any more (`Reachable`), for a restart may lose a
consent half way. A listing under way takes along, for each account it keeps, who
agreed to show it, and to which customers it found the consent bound; the customer
of a consent only ever changes to one who agrees. For deletions, `ForgetInv` says who
runs next to a deletion that nothing disturbs (`Apart`), that its iteration is over the
dict all others use (`Cleared`), and what is left once it is over (`Clean`).
Of a purge about to assign its new dict, `DeletionInv` says (`Replaces`)
that this has nothing the store has not, unless deletions overlapped, and no consent
of its own bank; and `ForgetInv` (`Replacing`) that it has all consents of the open banks but
the late ones, so that the assignment loses no other.

**Tenants.** `OneByOne` says that what the one request in flight has read is what the
tables hold; it carries partial updates and deletions for clients that wait. For
requests at once, the banks that bear a name are counted together with those an
update is about to give it to, and with the creations past their check; an update
and the bank that bears the name already are one element of that union, which is
what makes the bound inductive.

**The simulator.** `LoopInv` ties the flag, the task that is kept and the cancelled
marks together; a task that sleeps has no tick in a thread, or it could wake over
one. `EntryInv` says whose an entry is: recorded once, or held by one thread that
will record it, unless it is not in the journal or its bank is gone. For balances, an invariant about
the feed alone would have to speak of the past: `Near` speaks of what may still
happen. A balance read for an entry and the one the history has differ by less than
the number of threads, *even after* all threads that hold earlier entries of the
account (`Earlier`) have written them; a write moves one from that set to the
history. The bound holds between transactions and during them.

**The live page.** What a page skips depends on what the deque held when each poll was
answered, which is gone when the answer arrives. `FeedOK` says what a deque
holds for a given counter: the numbers below it without a gap, as many as there is
room for. `FeedBrings` derives which numbers a poll with any cursor brings, and
`AnswerOK` keeps that with the answer while the server goes on recording.
`ReachInv` then says, of the cursor and of the cursor of every poll under
way, that all numbers up to it were shown or out of reach; that the page may move
its cursor back does it no harm. `OrderInv` needs a case that is easily overlooked: a
cursor beyond the server's counter is one of an earlier run, and then the page
shows nothing of this run (`Afresh`), so that going back to 0 repeats nothing. The poll
of boot asks from 0 and sets the cursor whatever it brings; it is alone, and the
page new, or else the history says so (`astray`).
`EventsAfter` selects by indices (`Selected`) rather than with `SelectSeq`, of which
nothing can be proved here because it is recursive.

**Rounding.** Everything rests on division with remainder being unique
(`Division`, `QuotientIsUnique`): the quotient of the opposite amount is found by
exhibiting one, and that halves go to the even side is what makes both sides alike.

**What clients are shown.** `WhatWasSentIsShown` is about answers that have left.
`SentIInv` follows the rows back: each posting in the journal is near what was sent
(`PostingOK`, from the lemmas on rounding), each row a request has gathered
is near the posting it was made from (`RowOK`, also where FDX splits the sign off and
makes a double of it, which has the sign and is near by FloatIsNear), and each answer
has the rows of its request. It takes the labels of a request to
be those of its kind (`StepsInv`): only ReadEntries makes rows of transactions.
`BatchesAreSeenWhole` adds `TablesInv`, that customers and accounts come and go
together, and `SeenInv`: as long as the bank is open, the customers a request has
read are there, and the accounts it has listed have owners who are. A request reads
customers before accounts (statistics) or accounts before customers (participants);
both are safe because the rows of an open bank stay and each batch is one commit.

**Statements and moments.** Why balances follow the amounts in any order of dates:
the balance after an entry is the sum over the entries dated no later, so it is the
amounts shown up to there and those of entries dated before all that are shown
(`SumSplit`); and these are the same for every entry of a statement because what is
asked for has no gaps (`WindowHasNoGaps`). An answer is of a moment because,
while a request runs, `past` holds today's journal, and each journal in it has what
was booked before the request for a bank that is still open (`PastInv`); what a
request has gathered was so in one of them (`BalancesOfPast`).

**The people of a bank.** BatchIsWhole is about rows and needs that ids are the
batch's own: `BatchesInv` says that the ids of batches do not overlap, `TablesInv`
that the customers and the accounts of a batch are in the tables exactly or not at
all, and `FramesInv` that a request past its commit has its rows there as long as the
bank is open, and before it none. The type of a derived account is distinct from
those before because each addition looks at them (`MaybeAddFits`), and types counted
as places and as values are as many (`ValuesOfInjection`). For logins, `LoginsInv`
says which customers a request has already registered, but for those registering whom
raised; a login only ever passes to a customer for whom the same username was
registered, and that is remembered (`registered`).

**Histories.** `Rest` says of an import under way that the lines it still has are the
items from the number of its rows on, which is why the number of the items, with which it
is answered, is that of its rows in the end; and of any request that its counters
add up to its rows; `Serving` that no two requests book under one number. An import that is
refused an item stops at the first of the rest, hence at the first that is refused.
The generation for a bank counts an account that fails as nothing though it has
rows; that happens only once the bank is gone (`FailKeeps`), and so do the rows. For
the order, `Sorted` picks the row of each rank: the ranks grow with the order
(`RanksGrow`), so they are an injection of n rows into n numbers, and every number is
taken (`EachRankIsTaken`).

The theorems on Population and History are in SimulationProofs, which names them
through instances, `P` and `H`: their constants and variables are declared there anew
and bound to nothing of Simulation, and what their modules assume of constants is a
hypothesis. That `Cardinality` of an instance is that of the library is by definition.

Each inductive invariant was given to TLC, as an invariant of a run of its module,
before it was proved.

**Only model-checked**: liveness under fairness (AwaitingIsCompleted, StopsReturn,
PageCatchesUp), which these provers do not reach. All other properties of the passing
runs are proved.

## What is not modelled

- **Localization, personas and product catalogues**: tables of constants.
- **Capability registry**: filled at import, read afterwards.
- **Routing, schemas, static pages, settings, the description of the
  architecture**, and the browser pages other than the live page.
- **Expiry**: `valid_until` of a consent is stored and never compared, sessions
  and codes do not expire; there is no clock to model.
- **Passwords**: a login with a known user either succeeds or does not.
- **Consents in AccountViews.** A Berlin Group request is taken to be allowed;
  Access says when it is. Masks, names, limits and the classification of
  transactions are left out of the rows.
- **Composition.** No module has all the stores. Settlement has a restart and the
  purge by another bank's deletion, Access the deletion of its own banks and a
  restart, Ledger the deletion next to transfers; a payment of a bank that is being
  deleted is followed by none (its bank's rows are Ledger's).

## Plan

1. *Core* (done): CoreBanking, Ledger, Settlement with PaymentPromise, Access,
   Tenancy, Simulation, LiveFeed, History, Population; the soundness of the ledger
   and the uniqueness of codes proved.
2. *More of the system* (done): Money; the read surfaces next to writers; restarts
   in Access and Settlement; the purge of payments; SCA completed twice; polls that
   overtake each other; currencies in two spellings; rounding, and what clients are
   shown, proved.
3. *More proofs* (done): the rest of Access; conservation of money, internal
   accounts and left-overs; payments, PaymentPromise and what suspense holds;
   Tenancy; Simulation; LiveFeed.
4. *The rest of the proofs* (done): statements and moments; Population and History,
   where the types derived for a customer and the order of a history are stated
   without recursion.
