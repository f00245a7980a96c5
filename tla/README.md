# A TLA+ model of the Proof of Neutrality reporter

The program under `src/` watches a chain on which blocks are built by *builders* and proposed
by *proposers* through a *relay*. For one past epoch it works out who broke the rules in which
slot and lists the penalties (`epochReporter`); a second service checks such a list and signs it
(`/validate`). This directory holds TLA+ modules of that code, TLC configurations that check them
on small instances, and theorems about them that TLAPS checks for every instance. File names of
the code are relative to `src/src/`.

## 1. The system

| Component | State it keeps | Operations | Status |
|---|---|---|---|
| Epoch reporter, `core-reporter/reporter.js` with `services/` | locals of one call: missed and proposed slots, promises in flight, five lists of penalties | `epochReporter(epoch)` | modelled |
| Relay list analysis, `services/relay/highestBid.js`, `processBuilderSubmissions.js` | loop variables | highest header per slot, submission attributed to a slot, `isUnderpayment` | modelled |
| Missed slots, `services/beaconChain/missedSlot.js` | loop variables | `getMissedSlots`, `getLastExecutionBlockNumBeforeAMissedSlot` | modelled |
| Verification API, `verification-api/index.js`, `beaconChain/validatorForSlot.js` | locals of one request: the report checked, the reports signed so far | `POST /validate` | modelled |
| Autoscan, `scanner-api/autoscan.js` | the process, its event stream, scans in flight | scan at start-up, scan per finality event | modelled |
| Scanner API, `scanner-api/index.js` | the process, requests in progress | `GET /scan` | modelled |
| Penalty types, `utils/constants.js` | none | none | modelled |
| Fee penalty, `utils/financials.js`, `executionLayer/eip1559Rewards.js` | none | `getSlotRewards` | not modelled: binary floating point |
| Contracts, signing, RPBS signatures | none | calls of libraries | not modelled: input and output, or elliptic-curve arithmetic |
| ABIs, Docker files | none | none | not modelled: data |

The parts interact through calls within one Node process and through HTTP requests: the reporter
reads the beacon node (finality, duties, blocks, validators), the execution client (blocks,
transactions, fee history), the payout pool's list of proposers, the proposer registry, and three
lists of the relay (submissions, headers handed out, payloads delivered). Nothing is persisted.

What is hard to get right, and hard to test:

* **Promises in flight.** Slot payments, blocks and relay lists are requested together and awaited
  one after the other. A promise that rejects before somebody awaits it ends the process
  (`reporter.js:131-147`, `blocksInAnEpoch.js:29-57`).
* **Failures that read as data.** A failed probe reads as a proposed slot, failed submissions as
  `[]`, failed deliveries as `null`, a failed validator request as "not slashed". Each must not
  become a wrong penalty.
* **Loops with leftovers.** The submission attributed to a slot depends on what earlier iterations
  found, and on the order of the lists.
* **Exclusive verdicts.** Which of three penalties a missed slot gets hangs on the order of the
  tests, and on two `continue` statements.
* **Two judges.** Reporter and verifier decide the same questions with other code, from other lists
  (an epoch's against a slot's), at other times, and the world may move on in between.
* **Services that end.** An exception in one scan ends a process with everything in it; finality
  events are published once; nothing is remembered across a restart.
* **Edges.** Array index against slot number, bids of 0, the finality gate next to genesis, two
  epochs against 64 slots, offsets of two and three epochs, numbers beyond 2^53.

`PROJECT.json` lists these hazards line by line with the properties that catch them.

## 2. Modules

| Module | What it is |
|---|---|
| `PenaltyTypes` | the internal penalty types and their contract types |
| `RelayAnalysis` | what the loops of `services/relay` return, as operators; Node's truthiness where it matters |
| `HighestBid`, `SubmissionMatch`, `MCRelayLoops` | those loops, one iteration per step, and both run on the same lists |
| `LastExecutionBlock` | the block number that a report of a missed slot carries |
| `PbsEpoch` | the world a scan reads: what happened in each slot, and every answer that follows from it |
| `EpochReporter`, `MCEpochReporter` | `epochReporter` with everything it calls |
| `EpochAudit` | abstract: what a scan promises, stated on what happened and not on the relay's lists |
| `Verifier` | `POST /validate`, one check per step, extends `EpochReporter` with the world of today |
| `ReportPipeline`, `MCReportPipeline` | a scan, a client that submits reports of it, a world that moves on, and the verifier |
| `ReportValidation` | abstract: what a signature promises |
| `BeaconFinality` | the finalized epoch and the reporter's gate |
| `AutoScan`, `ScannerApi`, `ScanServices` | the two scanning processes, and both next to one beacon node |
| `RelayLemmas`, `HighestBidProofs`, `SubmissionMatchProofs`, `LastExecutionBlockProofs`, `PbsEpochProofs`, `EpochReporterProofs`, `RefinementProofs`, `ScanServicesProofs` | lemmas and theorems |

**From code to model.** In `EpochReporter`, `pc` names what the scan waits for or the loop it is
in; `todo` holds the slots the loop has left, handled in slot order (`First`). `missedSlot` and
`proposedSlot` are the code's; `pendingPayments`, `pendingBlocks` and `pendingRelay` are the
promises not settled yet; `nullBlocks` and `relayFailed` record answers that carry a failure;
`penalties` is the union of the five lists. Each await, and each iteration of a loop, is an action;
its guard is the code's condition, and every place where the code throws is an action too
(`...Throws`, `...Rejects`, `...Missing`, `...Fails`), which ends the scan as `"thrown"`. A scan also
ends as `"error"` (the code returns an object with only an error) or as `"listing"`.

**The verifier.** `AllChecks` lists the checks of the handler in their order, `Applies` says for which
penalty type each is made, `Refuses` when it answers with an error, `Throws` when it rejects.
`check` is the place of the check that comes next in that list. `Pass` goes on to the next check or
signs the report; `Refuse` and `Throw` end the request, the latter with the process; `Answer` sends the
signatures. `now` is what the services answer today; the scan's variables are what they answered
then. `Unchanged` says that the two still agree. The relay answers the verifier with lists of one slot:
`slotHeaders` and `slotDeliveries` hold the same records as the epoch's lists, each in an order of its own.

**The services.** In `AutoScan` a scan is what the process sees of it: asked for, in flight, ended or
cut off. `events` are on their way to a process that is connected; what arrives nowhere is in `lost`.
`Exit` is the end of the process by an exception anywhere in it. `ScannerApi` has the same for its
clients: the gate, the scan, the answer, and the scan that throws and cuts off the others too.

**The world.** `PbsEpoch` is external: builders bid, the proposer requests the best header so far
any number of times, signs at most one, and the slot is missed, has the signed block, or a block
the proposer built itself. From that history follow the relay's lists (in any order), the block
hashes and the payments. Requests may fail in any combination where `FetchesMayFail`; answers that
arrive are true. A relay or node that answers wrongly is not modelled. The world does not change
during a scan: the epoch is final, and of what can change (the registry, the pool) the scan
reads each part once. After the scan, `ReportPipeline` lets one thing change: finality advances, an
alternative fee recipient is registered or withdrawn, a validator is slashed, a builder or a proposer
is no longer reportable, the fee history is longer. It stands still while a request is checked.

**Abstractions.** Amounts are natural numbers; hashes are `<<slot, bid>>`; keys and wallets are
model values or strings without structure; case-insensitive comparison is equality. Of the RPBS
payload three fields are kept; the others are present whenever the submission is. The
`block` of a report is a number, `NaN` or null (which of them is the subject of
`LastExecutionBlock`); `relayUrl` and `additionalData` are left out. An RPBS signature is valid when
the payload is there. Amounts of proposers, which come from fees, are taken from `ProposerAmounts`. Logging is left out. An empty block reads as a payment of 0 by
the zero address, as `payoutPoolPayment.js:6-11` means it to.

**The abstract specifications.** `EpochAudit` has two steps. A scan either gives up with nothing or
publishes, in one step, a listing that is exact for every slot of a final epoch whose proposer is
in the pool: an underpaid slot has one `BUILDER_UNDERPAYMENT` with the duty's proposer and twice
the highest bid, a missed slot with bids has exactly one of the three penalties for missed slots,
every other slot has none; kicked validators may be left out (a failed request) but never made up.
`EpochReporter` implements it (`ImplementsAudit`) with `outcome` and `published` read off `pc` and
`penalties`. Of the blame for a missed slot it has what the code keeps to (`BlameFits`): no exempt
proposer is blamed, an offline one requested no header worth anything, one that did not sign did request
one, and a builder that did not publish is charged twice the highest header requested. Whether a header
was signed is left open, because there the code departs from the documentation (section 4).

`ReportValidation` answers a request in one step: with all its reports, each of them `Substantiated`,
or with nothing. The slot of a substantiated report, its duty and its amount are right, the blame fits in
the sense of `EpochAudit`, and its proposer, where it is to pay, is not exempt today. `ReportPipeline`
implements it (`ImplementsValidation`); signatures count from the answer on, so those made before a later
report fails are never seen. That a fault took place as the README describes it would be more for a missed
slot, and the code does not keep to it (section 4).

## 3. What the runs check

| Run | Instance | Question and result |
|---|---|---|
| `one_slot` | 1 slot, 1 proposer; every history with up to two bids of 0 to 2, every set of requests, every kind of payment; finalized epoch 2 or 3; requests may fail | Types; the payload of an underpayment report is the bid on chain; every scan ends; the audit is implemented, the blame for a missed slot included |
| `two_slots` | slots 0 and 1, 2 proposers (symmetric), five kinds of slot (not signed, not published, paid in full, underpaid, no bid), finalized epoch 0 or 1, requests may fail | One verdict per slot; verdicts match the chain and name the duty's proposer; the loop invariant of the proofs; the audit is implemented where the gate and the array index have their edges |
| `relay_loops` | all lists of up to 3 headers of 2 slots with bids 0 to 2; up to 3 submissions, 1 delivery, with and without a block | Both loops compute their operators; intermediate values are right; a slot with a block is never attributed another block |
| `last_block` | missed slots 1 to 7, every pattern of earlier slots, with and without failing requests | The number is within two of the right one whatever fails; if nothing fails a number that is found is exact, for every slot, and after slot 4 one is found whenever one of the three slots before has a block |
| `pipeline` | slots 0 and 1, finalized epoch 0 or 2, 1 proposer; seven kinds of first slot, two of the second; requests of up to 2 reports, any fetch of the verifier failing, one change of the world | All reports are signed or none, and only substantiated ones; one of the scan is refused only for a reason in `Disputed`, and none is signed that has one; every request ends |
| `scan_services` | finalized epochs 0 to 4, 2 clients that ask for epoch 1 or for no number | Autoscan asks for accepted epochs only, in order, and skips none whose event arrived; what it asks for is not refused by the API; events lead to scans and clients are answered |

`Disputed` is the list of reasons why the verifier refuses a report of the reporter, although every
request is answered: the epoch is the first, which the reporter's gate lets through before it is final;
the slot is not the epoch's first and 64 slots are not two epochs yet; there is no RPBS payload (a bid of 0); the block of a missed slot is `NaN` or null; the proposer or the builder
is no longer reportable, or the proposer has opted out since; the fees give another amount; the bid
not published was worthless; the payment is missing, is not the one committed to, does not go to the
pool, or was in full but reverted (the verifier's version of web3 gives a receipt's status as a
boolean). `OnlyDisputedRefused` says that there is no other reason, `SignedUndisputed` that each of them
is one: together, with every fetch answered, the verifier signs exactly the reports with none of them.

Why the bounds are enough. Two bids are the fewest where "last considered" differs from "signed",
and where the highest header differs from the block's; values 0 to 2 hold a worthless, a lower and
a higher bid. Two slots let a verdict, a failure or a record of one slot meet the other, both loops
run in one scan, and a promise settle before another. Two proposers tell the duty of one slot from
the other's. Seven slots are more than twice the three a block number is searched in, and hold the
slots below 5 where indices and slot numbers meet. The pipeline runs in epoch 0, where both gates have
their edge and a delivery can have the index of its slot; with two slots an epoch's 64 slots become 4, so
that a slot can be final for the reporter and not for the verifier. Two reports are the fewest where one is signed and
the next fails; the client of the model submits them in slot order and none twice, which changes
nothing for a handler that keeps nothing from one report to the next. The second slot of the
pipeline is final for the verifier only once finality advances; its two kinds suffice, as the first
slot takes all seven. With a last finalized epoch of 4 the offsets of two and three epochs, an epoch
skipped by one event, and a restart in between all occur. Deadlock is not checked: a scan stops, a
client may ask no more.

**Liveness and fairness.** `Termination` is checked under `WF_vars(Next)`: the scan takes a step
when one is possible. That means every request is eventually answered or fails; axios and web3
are given no timeout, so the code relies on this and does not enforce it. `RequestsEnd` assumes the
same of the verifier's requests, `WF(Verify)`. `EventsScanned` and `RequestsServed` assume that an event
that has arrived is dispatched, that a scan ends or throws (which is `Termination`), and that the API
serves a client while it runs. Nothing makes the beacon node advance, a client ask, or somebody start
a process again, and nothing is assumed of the order in which requests settle, nor that any succeeds.

## 4. Where code and documentation disagree

Six runs are expected to find a violation. Each property is a sentence of the README or of a
comment; all of them look at executions in which no request fails.

| Run | The documentation says | The code does |
|---|---|---|
| `signers_accused` | a proposer is at fault that requests a header and does not sign it | accuses signers: the list of deliveries is indexed by slot number (`reporter.js:237`) |
| `offline_unreported` | not requesting a header where a bid was made is a fault | throws on a null payload (`reporter.js:221`), losing the scan |
| `wrong_builder_blamed` | the builder has the full contents and no one else | blames the builder of the last submission, not of the signed one (`processBuilderSubmissions.js:46`) |
| `kicked_unreported` | slashed validators are reported | throws if the first slot of the epoch is empty (`reporter.js:100`) |
| `underpayment_unverified` | paying the alternative fee recipient too little is a fault | the verifier takes only payments to the pool (`verification-api/index.js:197`) and refuses the report |
| `requesters_offline` | being offline is not requesting a header | accuses a proposer that requested and signed one worth 0 (`reporter.js:215`) |

Two of these have more effects than the runs show. Since the list of deliveries is indexed by slot number, from
epoch 1 on no slot is found in it: where a signed block is not published, the signer is accused of not signing, and
the builder, which the README makes liable, is reported only if the proposer has an alternative fee recipient. And
the verifier repeats the reporter's tests (`verification-api/index.js:322`, `:343`), so it signs the reports of
`signers_accused` and `requesters_offline`, although it is to validate that penalties "have actually taken place":
`ReportValidation` promises less than that for missed slots.

Two disagreements have no run. Comments of the code (`reporter.js:40`, `:144`, `:178`) speak of a payment below what
the builder had bid, while it is compared with the highest header handed out; the example in the README
(`src/README.md:118-130`), whose `expectedPayment` is above the `Value` of the bid, agrees with the code, and so does
`EpochAudit`. And the fallback for the block number of a missed slot reads `block_num`, a field that no block has
(`missedSlot.js:82`), and gives `NaN`, as in `LastExecutionBlock!FallBack`.

## 5. What is proved

TLAPS proves, for every value of the constants (any number of slots, proposers, builders and bids,
any history, any pattern of failures, requests of any length, any number of clients and epochs):

* `RefinementProofs!AuditImplemented`: a scan implements `EpochAudit`.
* `RefinementProofs!ValidationImplemented`, `RequestsOrderly`: verification of a scan's reports implements
  `ReportValidation`; what is signed is the part of the request before the report checked.
* `RefinementProofs!VerifierAgrees`, `NoDisputedSigned`: reporter and verifier agree on every report of every
  scan, up to the reasons in `Disputed`; a report with one of these reasons is never signed.
* `EpochReporterProofs!TypeCorrect`, `LoopsInvariant`, `OneVerdict`, `VerdictsTrueOfChain`,
  `DutyProposerNamed`, `ChainBidCarried`: the safety invariants of `one_slot` and `two_slots`.
* `HighestBidProofs!TypeCorrect`, `HighestSeen`, `LoopComputesOperator`, and `SubmissionMatchProofs!`
  `FindsTypeCorrect`, `LoopComputesOperator`, `ChainBlockAttributed`: the loops over the relay's lists
  compute the operators the reporter is modelled with, for every list. `HighestBidProofs!LoopsFindsTypeOK`,
  `LoopsComputeAttribution`, `LoopsAttributeChainBlock` say it of the second loop run on the headers of the
  first, as `relay_loops` does.
* `LastExecutionBlockProofs!TypeCorrect`, `ResultNear`, `ResultExact`: the invariants of `last_block`. What the
  fallback yields, when no block is found, is not part of them.
* `ScanServicesProofs!AutoScanTypes`, `AcceptedOnly`, `InOrder`, `NoOtherGaps`, `ApiTypes`, `Agreement`:
  the invariants and the action property of `scan_services`.

**Assumptions** are named in the modules that declare the constants: the epoch and the rewards
are natural numbers, every history is one that can happen (`WellFormed`), the zero address and
`Null` are none of the other values, `Null` is no block (`NullIsNoBlock`); the lists given to `SubmissionMatch` are lists of records
(`ArgumentsAssumption`).

**The scan.** None of its invariants is inductive. `OneVerdictPerSlot` needs to know that a
slot about to be judged has no verdict, `VerdictsMatchChain` that a slot judged as proposed has a
block although the probe's answer may be wrong. `LoopInv` adds this: slots taken for missed are
missed; a payment that has settled belongs to a slot with a block; before the loops there is no
verdict; each loop's `todo` lies in its half of the slots and is free of verdicts. `ScanInv`
(`LoopInv` with the four invariants) is inductive relative to `TypeOK`. The steps that report rest on
`PbsEpochProofs`: whatever the order of the relay's lists, the attributed bid is a submission for
that slot, it exists exactly if a header of a considered submission was requested, the proposer it
names is the one with the duty, and for a slot with a block it is the signed bid. Those rest on
`RelayLemmas`: `Max` and `Min` of finite sets, and what `BuilderSubmissionForSlot` and
`HighestValueHeader` return on arbitrary lists.

**The audit.** `ScanInv` says that verdicts are not wrong; the refinement also needs that none is
missing. `AuditInv` adds: a scan past the gate is of a final epoch; each verdict is what the audit
calls for in its slot, amount included; and every slot a loop has passed and that calls for a verdict has
one. `SameUnderpaid` is the step from the relay's lists to what happened: the reporter's test holds of
exactly the slots that `EpochAudit` calls underpaid. When the scan ends with a listing, `AuditInv` and
`OneVerdictPerSlot` make it exact.

**The blame.** `AuditInv` says little of the three penalties for missed slots but that one is given where one is
due. `FoundedInv` (theorem `PenaltiesFounded`) adds that the test a penalty stands for (`Offline`, `DidNotSign`,
`DidNotPublish`) holds of its slot, and where its payload comes from. The tests read the relay's lists;
`FoundedBlame` translates them into what happened in the slot, which is `BlameFits`.

**The requests.** `PipelineInv` says that a request exists only once the listing does, that what is signed of
it is the part before the report checked, that validators stay slashed, and (`EvidenceOK`) that the verifier's
lists hold the records of their slot.

**The two judges.** A report in the listing is right by `AuditInv` and `FoundedInv` (`WellFounded`). `SlotListsAgree`
shows the two analyses of the lists equal: those of an epoch and of a slot, in any orders, give the same highest
header and both or neither an attributed bid, since each gives what the history of the slot calls for
(`HighestOf`, `AttributionOf`). `FinalSlots` compares the two gates. On that, `StoppedDisputed` goes through the
fifteen checks: one that stops a report although its fetch was answered gives a reason of `Disputed`. The other
direction has to carry what earlier checks found: `VerdictInv` says that the report at hand has passed every check
behind it that applies (`Passed`), that nothing speaks against the reports before it, and that something does
against one that ended a request without a failed fetch. When no check is left, `PassedUndisputed` rules out the
reasons one by one. A report of the listing with none of them is substantiated (`ListedSubstantiated`), which
gives the refinement of `ReportValidation`.

**The loops and the services.** `SubmissionMatchProofs!LoopInvariant` describes the leftovers: the finds
are those of the last submission before the counter that was referred to. `MCRelayLoops` runs
`SubmissionMatch` with another counter; `SameMatch` and `LoopsMatch` carry the lemmas over. `LastExecutionBlockProofs!LoopInv`
relates the counter to the slot looked at and says that, if no request failed, every slot passed was missed or is
one of those judged by another slot's answer (`Misread`), after which no block is found (`FoundIsLast`). In
`ScanServicesProofs`, `LifeInv` relates the process, its stream and its scans; `OrderInv` says that all
events on their way are later than everything asked for since the process started; `CoverInv` that each
epoch between one asked for and the last one announced is asked for, lost, or on its way.

**Only model-checked**: liveness (`Termination`, `RequestsEnd`, `EventsScanned`, `RequestsServed`), which
is out of the prover's reach. Every invariant, action property and refinement that a passing run checks is
also a theorem.

## 6. Not modelled

* **The fee penalty** (`financials.js`, `eip1559Rewards.js`): an average in binary floating point, turned
  to a string and parsed. TLC has no such numbers, and an exact average would not be what the code
  computes. The amount is any member of a set of naturals, and may differ between scan and
  verification. Rounding of bids beyond 2^53 is left out for the same reason.
* **Contracts, signing, RPBS signatures**: thin wrappers of ethers and elliptic-curve arithmetic. Where
  they matter to the verifier they are a value in `now`, a call that may reject, or a payload that is
  there or not.
* **The pool's first 1000 proposers**: the scan takes the answer for the whole pool.
* **ABIs and deployment**: data.
* A relay, beacon node or registry that answers wrongly, and a client that submits reports it made up:
  the model says what the services do with each other's answers.
