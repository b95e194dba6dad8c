# Verification of the 721sim value-prediction pipeline

The repository holds the back end of a cycle-accurate out-of-order processor
simulator: a register renamer, the stages from Rename to Retire, and a stride value
predictor (SVP) with a value prediction queue (VPQ). This directory models it in
TLA+, checks the models with TLC and proves the central facts with TLAPS.

Contents: 1 the system, 2 the modules, 3 the runs, 4 findings, 5 fairness,
6 the proofs, 7 what is abstracted and what is left out, 8 the plan.

## 1. The system

One thread calls the stages once per cycle, in reverse order
(`pipeline.cc:569-632`): retire, writeback, load replay, execute, register read,
schedule, dispatch, rename2, rename1, decode, fetch. Nothing runs concurrently in
the host program. The concurrency is that of the modelled machine: hundreds of
instructions are in flight, execute out of order in several lanes, and are undone by
four kinds of recovery.

| Part | State | Operations | Used by |
|---|---|---|---|
| Value prediction unit (`vpu.cc`) | SVP table: valid, tag, confidence, retired value, stride, instance counter. VPQ: ring with head and tail, each a pointer and a phase bit | predict, count free entries; allocation, training, replacement, pop and rollbacks are written out in the stages | Rename, Execute, load replay, Writeback, Retire |
| Renamer (`renamer.cc`) | RMT, AMT, free list, active list, GBM, branch checkpoints, physical register file, ready bits | stall tests, rename, checkpoint, dispatch, read, write, ready bits, resolve, precommit, commit, squash | all stages from Rename to Retire |
| Payload buffer (`payload.cc`) | ring of two entries per instruction: head, tail, length | push, pop, rollback, clear | all stages, by index |
| Rename (`rename.cc`) | `RENAME2` register | takes a bundle from the fetch queue; stalls; renames, checkpoints, predicts, allocates VPQ entries | |
| Dispatch (`dispatch.cc`) | `DISPATCH` register | stalls; active list, ready bits, injection of a confident prediction, issue queue | |
| Register read, execute, load replay | lanes: `rr`, `ex[]`, `wb` | operand read, wakeup, results, check of the prediction | |
| Writeback (`writeback.cc`, `squash.cc`) | | completion; branch resolution with selective recovery | |
| Retire (`retire.cc`) | | commit, training, VPQ pop; complete squash after a value misprediction (VR-1), a load violation or an exception | |
| Trap storage (`payload.cc`), `execute_amo()`, `execute_csr()` (`retire.cc`) | trap of an instruction, `state_t` | post, set and get a trap; what AMO and CSR instructions and traps do at Retire | dispatch to Retire |
| `step_micro()` (`pipeline.cc`) | count, compare, interrupt bits, limits, beat | one cycle; update of the timer, end of the simulation, detection of a deadlock | the caller |
| Configuration (`main.cc`, constructor of `pipeline_t`, `steer()`) | parameters, lanes and their depths, lane pointers | options, check and construction of the lanes and of the memory dependence predictor, steering | `main()`, Dispatch |
| Statistics | counters that nothing reads back | | |
| Fetch unit, issue queue, LSU, memory dependence predictor, functional simulator | not in the repository | only their calls are seen | |

What makes it hard:

* State is saved when a branch is renamed (map, free-list head, branch mask, VPQ tail)
  and restored when it resolves. In between older instructions retire, move the other
  ends of the same rings, and reuse branch IDs.
* Rings tell full from empty by phase bits. Some phase bits are saved, some are
  inferred (`renamer.cc:413-418`), some comparisons do without (`retire.cc:131`).
* The instance counter of an SVP entry is never recomputed. Prediction increments it;
  training, replacement, selective and complete rollback, in five places, must keep it
  equal to the number of instances in flight.
* Wakeup runs ahead of the value by the depth of the lane and is left out for
  predicted producers; ready bits stay set in registers that are freed.
* Consumers of a wrong prediction execute and complete before it is found out.
* Faults come up at dispatch, in execution and at Retire, for instructions on right and
  wrong paths and with right and wrong operands; `retire()` has six ways out, and
  only some of them squash.
* Cycles are broken off by the timer, by the caller's limit and by the end of the
  simulation, all in one loop with its tests in a certain order.

Correct means: the VPQ and the active list follow the instructions in flight
exactly; registers are neither lost nor held twice; recovery restores the map of its
point in the program; the predictor is trained with the value of the instruction that
retires, and its counters are exact; every operand is either right or downstream of a
misprediction that will squash its reader; what commits is what sequential execution
computes; traps are precise; software advances; and retirement goes on.

The README of the repository also describes a VR-5 recovery with its own
checkpoints and stall counters (its lines 35 and 46-61). Nothing of them is in the
source files here, so nothing of them is modelled: every value misprediction takes
the VR-1 path.

## 2. The modules

| Module | Models | Role |
|---|---|---|
| `Ring` | cursors (pointer and phase), occupancy, free entries, walks | constant-level operators of the VPQ, the free list and the active list |
| `Vpu` | SVP and VPQ with every place that reads or writes them | component |
| `StrideStream` | `Vpu` on a program whose instructions compute arithmetic sequences | composition: component and workload |
| `RenamerSpec` | what the pipeline may expect of a renamer: maps that follow the instructions in flight, unused registers; no free list, no active list, no checkpoints | abstract specification |
| `Renamer` | RMT, AMT, free list, active list, GBM, checkpoints | component; implements `RenamerSpec` |
| `Datapath` | register file, ready bits, issue queue, lanes, injection, cycle by cycle | component; built on the maps of `RenamerSpec` |
| `Bundles` | rename1, rename2 and dispatch bundle by bundle with all stalls, and the ring of the payload buffer | component; resources counted as the invariants of `Vpu` and `Renamer` justify |
| `Isa` | what software sees: one instruction after the other, with traps and status register | abstract specification; also the functional simulator, external to the repository |
| `Retirement` | prediction of branches and values, overtaking loads, faults, every way out of `retire()`, traps, serializing instructions, the link of fetched instructions to the functional simulator | composition of Rename to Retire; implements `Isa` |
| `Cycle` | `step_micro()` around the stages: timer, limits, end, deadlock detector | component |
| `Configuration` | options for lanes and memory dependence prediction, what the constructor accepts, builds and prints, `steer()` | component |
| `RingProofs` | lemmas on rings, numbers and remainders | used by the other proof modules |
| `VpuProofs` (with `StrideStream`), `RenamerProofs`, `DatapathProofs`, `BundlesProofs`, `RetirementProofs`, `CycleProofs`, `ConfigurationProofs` | | theorems and proofs |
| `MCVpu`, `MCStrideStream`, `MCRenamer`, `MCDatapath`, `MCBundles`, `MCRetirement`, `MCCycle`, `MCConfiguration` | | instances for TLC |

Common conventions. `window` is the sequence of instructions in flight, oldest
first: the part of the payload buffer a module depends on. Variables and fields have
the names of the source. Definitions whose comment begins with "Mutant:" are
faulty variants that belong to the tests of the properties; no action uses them.

**Vpu.** One action is one instruction in one stage: `RenameEligible`,
`RenameIneligible` (`rename.cc`), `Execute` (the deposit and the check in
`execute.cc` and `load_replay()`), `Complete`, `ResolveMispredicted`
(`writeback.cc`), `Retire`, `RetireValueMispredicted`, `RetireSquash` (`retire.cc`).
`mode` is the constructor's choice of real, oracle or perfect confidence. The
stages treat their instructions in a loop, so a bundle is a run of such actions, and a
stall for a bundle is a stall at its first instruction; the interleavings of single
instructions include all those of bundles. Strides and values wrap around at
`ValueSpace`, as 64-bit integers do at 2^64.

**Renamer.** `Rename`, `Dispatch`, `Complete`, `ResolveCorrect`,
`ResolveMispredicted`, `RetireCommit`, `RetireValueMispredicted`, `RetireOffending`:
each with all calls the pipeline makes to the renamer at that point, and with what
`squash.cc` does to the instructions. The GBM is the set of its one bits. Which completed
head carries an exception, a load violation or a misprediction is for other units to
say: any may. The physical registers are a set: the code numbers them and uses the numbers
for their initial order only, so `Init` takes any numbering, which makes them symmetric for TLC.

**RenamerSpec.** Its actions take the renamed instruction as parameter, so that both
`Renamer` (as refinement target, `inflight <- Renamed`) and `Datapath` (as building
block, `inflight <- window`) use the same definitions.

**Datapath.** `phase` is the stage to be called next. Within Retire, Writeback,
Dispatch and Rename one action is one instruction; Execute and Register Read treat all
lanes in one step, since lanes do not influence each other within a call. An
instruction computes `Result(operand)`, which differs from the operand: one operand
stands for A, B and D. A prediction is any value. `Written`, `SetReady`, `Woken` are `write()`,
`set_ready()` and the wakeup port of the issue queue; `RegisterRead` wakes up consumers of
single-cycle producers, `Execute` those of longer ones from the stage before the last
and those of loads that hit, `LoadReplay` those of loads that missed. A load
misses or hits as the LSU likes, and a load to x0 has no destination (the runs have none of
these, the theorems cover them). The number of lanes is not bounded: any set of ready
instructions may issue.

**Bundles.** The fetch queue stands for everything in front of Rename. `Rename1`
takes a full bundle, or a partial one if the fetch unit waits for a serializing
instruction; `Rename2` and `Dispatch` move bundles as a whole or not at all. `pay` is the
ring of the payload buffer, whose indices the instructions carry.

**Isa and Retirement.** `Isa` has one register, one memory word and the part of `state_t`
that traps and CSR instructions touch; `Executed` is one instruction, its fault, or the first
attempt to read a counter, which `retire()` counts, has checked and fetches again
(`retire.cc:384-446`). `Retirement` overlaps up to `MaxInFlight` instructions: `Dispatch`
(fetch to dispatch, with `map_to_actual()`, `predict()` and the prediction of `rename2()`),
`Execute`, `ExecuteFaulting`, `ExecuteStore` (with the loads it finds to have read too
early), `ResolveBranch`, and one action per way out of `retire()`. The refinement maps the
program counter of `Isa` to the address of the oldest instruction in flight, or else of the
fetch unit. `functional` is the oldest entry of the debug buffer, which `checker()` pops.

**Cycle.** What `retire()` finds is any choice; `RetireOne` is one call that commits, with its
`update_timer()`, `AfterRetire` the two tests that follow it in the loop, in their order. Of
the counter only the 32 bits the timer compares are kept. `Hang` stands for whatever
might stop retirement.

**Configuration.** Options may come in any order and repeatedly; the constructor refuses
lanes. Dispatch calls `steer()` only with `PRESTEER` (`dispatch.cc:116`), which option `-a`
sets; it searches from the lane after the last one. Without it the issue queue, which is not in
the repository, gets all lanes of the unit, and nothing here changes. `steered` is history. A
latency may be 0, and a `--lat` with too few numbers sets the first ones only (`main.cc:134-139`).

## 3. The runs

All runs finish with two workers in less than five minutes. Bounds are small because
the hazards are local: two instructions that share an entry, a ring that wraps
around, a branch with something older and something younger. Each bound is chosen so that
all rings become full and empty, wrap around, and are rolled back across the wrap.

| Run | Instance | Shows |
|---|---|---|
| `vpu_tags` | two PCs in one tagged SVP entry, VPQ 2, window 3, three modes | `TypeOK`, `VpqLockstep`, `CheckpointsSplitVpq`, `TrainsWithOwnResult`, `InstCountExact` |
| `vpu_alias` | three PCs, two with index and tag in common | finding 1 |
| `stride` | every sequence over four values alone, and two pairs that evict each other; VPQ 2, window 3, confidence up to 2 | `ConfidentPredictionExact` through replacements, `StrideLearned` |
| `renamer` | 3 physical registers, free list 2, 2 branch IDs, active list 2; producers, branches and calls | `TypeOK`, `RegistersConserved`, `FreeListInOrder`, `MapsPrecise`, `BranchMasksExact`, `ActiveListInStep`, `ImplementsRenamerSpec` |
| `datapath_latencies` | 1 logical, 4 physical registers, window 3; producers of one and two cycles | `TypeOK`, `WrongOperandsAreSpeculative`, `WakeupsExact`, `CommitsSequentially` |
| `datapath_progress` | 1 logical, 3 physical registers, window 2; two-cycle producers, loads, branches | `CommitsSequentially` with loads and branches, `RetirementGoesOn` |
| `bundles_tight` | bundles of 2, every resource 2, payload buffer that is full when all places are taken | `TypeOK`, `PayloadInStep`, `NothingBehindSerializing`, `RetirementGoesOn` |
| `retirement_precise` | all 64 programs of three ALU, load, store and branch instructions under all six settings of the predictors, all 1331 of the other kinds under the usual one; window 3 | `TypeOK`, `OldestOnPath`, `OracleNeverMispredicts`, `WrongValuesSquashed`, `Precise` |
| `retirement_progress` | five loops with violations, traps, refetches, serialization; window 3 | `Progress` |
| `cycle` | counter of 8 values, retire width 4, caller's limit 1, 4 or 9, end at 10, beat of 3 cycles | `TypeOK`, `CountsAgree`, `WithinLimit`, `InterruptPrompt`, `OneMoreThanStop`, `TimerExact`, `HangReported` |
| `configuration` | two units, up to three lanes, latencies 0, 1 and 2, all models of `--mdp`, given up to twice, with and without `-a` | `Balanced`, `SingleLatency`, `PrintedIsBuilt` |
| `configuration_assertion` | two units, up to two lanes | finding 2 |

The properties, in words:

* `VpqLockstep`: the VPQ holds the eligible instructions in flight, one entry each,
  in program order. Retire takes the VPQ head for the entry of the active-list head.
* `CheckpointsSplitVpq`: the tail a branch saved always separates the entries of older
  from those of younger instructions, also after pops and wrap-arounds.
* `TrainsWithOwnResult`: the SVP is trained with address and result of the instruction
  that retires, although slots keep the values of earlier owners.
* `InstCountExact`: the instance counter is the number of matching VPQ entries in flight.
* `ConfidentPredictionExact`: on arithmetic sequences, wrap-around included, no confident
  prediction is ever wrong, whatever is squashed, re-executed or evicted.
  It needs at least one confirmation before confidence, two without tags, since an
  untagged entry starts valid with zeros (`StrideAssumption`; the run has tags, the theorem
  covers both).
* `StrideLearned`: an instruction that keeps retiring and has its entry alone ends up
  predicted with confidence.
* `RegistersConserved`: free-list array and AMT together are a permutation of the
  physical registers; no slot in flight is overwritten.
* `FreeListInOrder`: the slots popped and not yet pushed over hold the registers of the
  writers in flight, in program order, so that moving the head back frees the right ones.
* `MapsPrecise`, `ImplementsRenamerSpec`: the RMT and all checkpointed copies are the
  maps of their points of the program; recovery is the undoing of the younger
  instructions.
* `BranchMasksExact`: GBM, checkpointed GBMs and the masks that travel with instructions
  are the older unresolved branches, and IDs are not shared. Hence squashing by mask is
  squashing by program order, which is how the other modules do it.
* `ActiveListInStep`: the active list holds the dispatched instructions in order, after
  the phase of its tail was inferred; indices point to their own entries.
* `WakeupsExact`: an operand waits in the issue queue exactly when an older unpredicted
  producer has still to announce itself: no wakeup is lost, no stale ready bit believed.
* `WrongOperandsAreSpeculative`: an instruction all of whose elders were predicted
  right, or not at all, reads its true operand, bypass timing included.
* `CommitsSequentially`: the committed registers change by commits only, to what
  sequential execution gives.
* `PayloadInStep`: the payload ring holds the instructions in flight, its head is the
  head of the active list, and its length is never confused between empty and full.
* `NothingBehindSerializing`: when the commit of an AMO or CSR instruction resumes the
  fetch unit without a squash, there is nothing to squash.
* `RetirementGoesOn`: no deadlock or starvation; what the deadlock detector of
  `step_micro()` asserts.
* `Precise`: whatever is predicted, overtaken, squashed and refetched, the committed
  state goes through the states of `Isa`, one instruction at a time: traps are precise, the
  first of several faults counts, wrong values and stale loads never commit.
* `Progress`: and it goes through them for ever: what is squashed and fetched again gets through.
* `WrongValuesSquashed`: no way out of `retire()` leaves readers of a wrong prediction
  behind. AMO and CSR instructions take their way out before the misprediction is
  looked at; it is a condition in Rename that keeps them unpredicted.
* `OldestOnPath`: the oldest instruction is linked to the oldest entry of the debug buffer,
  although links are made from one fetched instruction to the next, on right and wrong paths.
* `OracleNeverMispredicts`: perfect prediction and oracle confidence take the result of the
  right instance, and not on a wrong path.
* `CountsAgree`, `WithinLimit`: the counter of software has counted each retired instruction
  once; a limit tested with `==` is never stepped over.
* `TimerExact`, `InterruptPrompt`: the bit of the timer comes with the very instruction that
  makes the counter equal to compare (except for a compare of 0, which `update_timer()`
  passes unnoticed), and an enabled interrupt is overdue by one instruction at most.
* `OneMoreThanStop`: once the end of the simulation is reached a cycle commits one more
  instruction and no more.
* `HangReported`: a machine in which nothing retires is found out.
* `Balanced`: `steer()` is fair to the lanes of a unit although units share lanes.
* `SingleLatency`: a lane has the latency of all its units that have one; the condition is
  needed, since units of latency 0 may be passed over (section 4).
* `PrintedIsBuilt`: if the log says that loads wait in the issue queue, the predictor that makes
  them wait there was built, however often `--mdp` was given. That the log says so whenever
  one was built holds for one `--mdp` only (section 4), and is stated for that.

`datapath_latencies` uses symmetry over physical and logical registers and `renamer` over
physical ones, which no definition distinguishes; they check no liveness. Physical
registers are chosen freely there, as `RenamerSpec` allows; that `Renamer` chooses
within that freedom is `ImplementsRenamerSpec`.

The latencies of `datapath_latencies` (1 and 2) cover both wakeup sites: from Register
Read, and from the second-to-last execute stage. A third stage would only add a
cycle in which nothing happens. Window 3 makes chains of a mispredicted producer, a
consumer and a consumer of that.

The `renamer` run has one logical register: which of several maps is read or written is a
matter of an index, while order and age of the writers of one register are the difficulty.
The theorems of section 6 hold for any number of them.

Three instructions make a program of `retirement_precise` in which a store, an overtaking load and
a consumer meet, or a predictable producer, its consumer and a branch; addresses wrap
around, so every program is a loop and every pair of instructions also comes in the other order.
In `cycle` the counter wraps around within the bound `MaxCommits`, and the end falls
after the wrap.

`bundles_tight` has each resource just as large as a bundle: the smallest machine for which
`BundlesFit` holds, where stalls meet most often. The safety properties need no `BundlesFit`. The payload buffer then has
exactly two entries per possible instruction, the only case in which full and empty
could be confused.

## 4. Findings

1. `vpu_alias`, `src/retire.cc:133`. REPLACE counts the in-flight instances of the new
   owner by full address; prediction, training and all rollbacks compare the truncated
   tag. With two addresses that agree in index and tag the counter becomes wrong, even
   negative, and stays so until the next replacement. Predictions are wrong for that
   long; VR-1 keeps the results right (`CommitsSequentially` assumes nothing of
   predictions).
2. `configuration_assertion`, `src/dispatch.cc:453`. `steer()` asserts that a lane was found. The
   constructor refuses lanes without a unit (`pipeline.cc:285`) but not units without a lane
   below `issue_width`. Dispatch calls `steer()` with `PRESTEER` only, which is off
   (`parameters.cc:62`) unless `-a` is given (`main.cc:468`): with `-a`, `--iw=1` and the default
   matrix (`parameters.cc:64-72`) lane 0 has loads and stores only, the machine is built, and the
   first other instruction ends in the assertion. Without `-a` it is never reached.

Worth knowing, without a run: nothing compares the sizes of VPQ, free list, branch
checkpoints or active list with the dispatch width (`main.cc:384-399`, `renamer.cc:7`).
`RetirementGoesOn` of `Bundles` is therefore conditional on `BundlesFit`. The condition is
needed: with any one of the five resources of `bundles_tight` reduced to 1 TLC finds a state in which
nothing moves; a VPQ smaller than the eligible instructions of one bundle, for instance, stalls
Rename for ever. No document promises that such machines work. `stall_dispatch()` is called with
`dispatch_width` rather than the size of the bundle (`dispatch.cc:100`; the comment above
asks for the latter), which makes partial bundles wait longer than necessary but,
as `bundles_tight` shows, never for ever. The comment "full - not possible as
roll back" (`renamer.cc:410`) does not hold for a mispredicted branch in the
last free entry; the code under it gets this case right.
`print_storage()` charges ceil(log2(VPQ size)) bits for an instance counter, which can equal
the VPQ size (`vpu.cc:125`). `-e` promises the end "after <n> instructions have been
committed" (`main.cc:29`), but the limit of the cycle is tested first (`pipeline.cc:592`): when the
n-th commit meets it, one more instruction commits. `Cycle` shows it when
`commit_count <= StopAmount` is checked.

A unit of latency 0, which `--lat` accepts, passes for absent while the constructor compares the
latencies of a lane (`pipeline.cc:271`): a unit of latency 0 followed by one of latency 2 in the
same lane is built with depth 2, although "a given lane has a single latency for all its FU types"
(`pipeline.cc:276`). Each `--mdp` clears four flags and neither `STORE_SETS`, `ORACLE_MDP` nor
`ALWAYS_PREDICT_CONFLICT` (`main.cc:164-167`): with model 5 and then model 1 the log says that loads
never wait, and the store-set predictor is built; with 4 and then 3 the log names the counters, and
the oracle is built. Both cases occur in the run `configuration`; `SingleLatency` and
`PrintedIsBuilt` state what holds in spite of them, and TLC finds these examples when the
conditions `fu_lat[fu] > 0` and `mdp_options > 1` are taken out.

## 5. Fairness

* `Bundles`: weak fairness of each stage, since `step_micro()` calls each in every
  cycle; of fetching; and of completion, which stands for the execution units.
* `Datapath`: weak fairness of `Next`: the cycle goes on. Strong fairness of four things,
  as the phase only returns to a stage once per cycle: that `retire()` handles a completed head
  (its first call does), that the oldest ready instruction is issued, that the oldest
  missed load is replayed, and that a bundle is dispatched. The last three are promises of issue
  queue and LSU, which are not in the repository. Nothing is assumed of
  wakeup: that operands become ready is the point of the property.
* `Retirement`: weak fairness of fetching when nothing is in flight, of the execution of the
  oldest instruction, and of `retire()`. The stages are called in every cycle, and that the
  oldest instruction is not passed over is `RetirementGoesOn` of `Datapath`.
* `Cycle`: weak fairness of `step_micro()`: the caller calls it again and again. `Hang` is not fair.
* `StrideStream` needs none: its liveness property is conditional on the instruction
  retiring again and again.

## 6. The proofs

Every invariant and every safety action property that a passing run checks is also proved, for
every value of the constants that the module's named assumption admits, and so are the two
refinements. The runs came first: TLC agreed with each property before it was proved. What
remains to TLC is at the end of this section.

| Theorem | Property | Hypothesis besides the module's assumption |
|---|---|---|
| `VpuProofs`: `TypeCorrect`, `Lockstep`, `SelectiveRollback`, `OwnResult` | `TypeOK`, `VpqLockstep`, `CheckpointsSplitVpq`, `TrainsWithOwnResult` | |
| `InstancesCounted` | `InstCountExact` | no two eligible instructions share index and tag |
| `ConfidenceIsExact` | `ConfidentPredictionExact` of `StrideStream` | the predictor has its own confidence (`mode = "svp"`) |
| `RenamerProofs`: `TypeCorrect`, `Conservation`, `FreeListOrder`, `PreciseMaps`, `ExactMasks`, `ActiveListOrder` | `TypeOK`, `RegistersConserved`, `FreeListInOrder`, `MapsPrecise`, `BranchMasksExact`, `ActiveListInStep` | |
| `Implements` | `ImplementsRenamerSpec` (refinement) | |
| `DatapathProofs`: `TypeCorrect`, `NoWakeupLost`, `CommitsAreSequential`, `OperandsAreRight` | `TypeOK`, `WakeupsExact`, `CommitsSequentially` (action), `WrongOperandsAreSpeculative` | |
| `BundlesProofs`: `TypeCorrect`, `PayloadStep`, `SerializingAlone` | `TypeOK`, `PayloadInStep`, `NothingBehindSerializing` | |
| `RetirementProofs`: `TypeCorrect`, `OnPath`, `OraclePerfect`, `NoWrongValueLeft` | `TypeOK`, `OldestOnPath`, `OracleNeverMispredicts`, `WrongValuesSquashed` (action) | |
| `PreciseState` | `Precise` (refinement of `Isa`) | |
| `CycleProofs`: `TypeCorrect`, `CountsExact`, `LimitKept`, `Prompt`, `StopSoon`, `TimerBit` | `TypeOK`, `CountsAgree`, `WithinLimit`, `InterruptPrompt`, `OneMoreThanStop`, `TimerExact` (action) | |
| `ConfigurationProofs`: `Spread`, `OneLatency`, `LogRight` | `Balanced`, `SingleLatency`, `PrintedIsBuilt` | |

Each module has a theorem `Invariance` besides, `Spec => []IInv` (`Inv` in `CycleProofs`): the
inductive invariant from which the others are read off. None of the properties is inductive
alone; what has to be added, and why, is the content of the proofs:

**RingProofs.** What a step of a cursor does to occupancies, offsets and walks (`SpanPush`,
`SpanPop`, `SpanSplit`), that a non-empty set of naturals has a least and a bounded one a
greatest element (`Least`, `Greatest`), and arithmetic modulo any number (`Remainder`,
`SameRemainder`, `SmallMultiple`, `Wraps`). `Least` stands in for induction, whose library
theorems take an operator as parameter: a smallest counterexample is shown not to exist.

**VpuProofs.** Lockstep is lost at a selective rollback unless the restored tail is known to
split the queue at the branch; the split is lost when a second branch recovers unless younger
branches are known to have saved later tails (`CheckpointsOrdered`); and own results need each
owner's slot to hold what that owner wrote, which an allocation preserves only because slots in
flight are distinct. There is one lemma per action, and the three kinds of emptying share
`EmptyStep`. `ResolveMispredictedStep` measures all positions from the head, which the rollback
leaves alone.

The instance counters are cardinalities of sets of slots (`Instances`). A rollback takes away
one set of slots and subtracts the cardinality of the same set (`RepairedExact`); training
takes away the slot of the head (`TrainedExact`); a new owner counts by full address, while
everything else compares index and tag, and the two agree only without aliases: hence the
hypothesis, and `vpu_alias` shows that it is needed. With tags of full width it always holds.

For `StrideStream` the invariant says what an entry has learned (`Learned`): an entry that
belongs to an instruction of the program either still has its initial zeros, or its retired
value is the last term committed, and after `Confirmations` matching steps (one, or two without
tags) its stride is the right one. `CountIsRank` turns the exact counter into the number of
older instances in the window; a confident prediction is then the next term but that many
(`TermAhead`). Squashes, replacements and evictions disturb none of it, because they change
counters only or start over with confidence 0 (`SameLearning`). The modes `oracle` and `perf`
are excluded since there the debug buffer, which is external, decides what is confident.

**RenamerProofs.** `IInv` has seven parts besides the types, each needed by another one:

* `InstructionOK`: which fields an instruction has at its stage.
* `ActiveListQueue`: its index is its position in the active list; from this follows
  that the tail whose phase is inferred at a recovery is the right one.
* `BranchMasks`: as `BranchMasksExact`, position by position.
* `RegistersConserved` itself: distinct slots hold distinct registers, so that the slot of a
  register in flight is unique.
* `FreeListQueue`: the relation `Owns` between instructions and slots is total both ways and
  monotonic. A commit pushes at the tail, which adds a free slot and ends the ownership
  of the oldest writer; only monotonicity makes it the right one.
* `CheckpointsSplitFl`: a saved head separates the slots of older from those of younger
  instructions, whatever has been committed since, and younger branches saved later
  heads. Without it nothing is known of the free list after a recovery.
* `MapsFollow`: `Follows` says with a youngest writer, rather than `CHOOSE`, that a map is that of a
  point of the program. `FollowsIsMapAfter` leads back to `MapAfter` of `RenamerSpec`.

Recoveries measure the positions in the free list from the tail, which recovery leaves alone,
and those in the active list from the head. `Implements` has one lemma per action: a renamed
destination is free because `Owns` gives every writer a slot that is not the head
of the list; the map restored is `MapAfter` by `MapsFollow`; dispatch and completion stutter.

**DatapathProofs.** A value is followed along the versions of its logical register. `Renaming`
says that the operand of an instruction, the map and the committed map name versions of the
right age and that no two versions share a register (`Version`, `Distinct`); it is what makes a
register that is freed and reused harmless. `ReadyBits` gives each ready bit its meaning by the
stage of the producer, for the instructions that look at it and no others: bits of unmapped
registers stay arbitrary. `Held` says that a register has the prediction until it has the result.
`MayRead` remembers, of every instruction that has read, that its operand was the
prediction or the result of its producer, and `Bypassed` that at the call of Register Read the
results that will be read are there: wakeup runs ahead of the value by the depth of the lane, and
this is the fact that makes up for it. `WrongOperandsAreSpeculative` speaks of the recursive
function `Sequential`; that such a function exists is proved from `Least`, one partial function
after the other (`PartialUnique`, `PartialExists`, `SequentialIs`).

**BundlesProofs.** The length of the payload buffer is recomputed modulo its size after a
rollback, so it has to be known that the buffer was not full with nothing behind the branch:
each stage holds a limited number of instructions (`Limits`), and a branch that resolves is
behind none of the front end (`Ordered`). `BundlesAssumption` asks for positive sizes and that no
branch serializes (otherwise its misprediction would resume fetching behind it), not that a
bundle fits; `PayloadAssumption` says that the power of 2 which `PayloadSize` chooses exists, as the
constructor asserts (`payload.cc:105-110`), because the prover knows nothing of
powers; TLC evaluates both.

**RetirementProofs.** Nothing is assumed to be right about an instruction in flight except what
it did with its surroundings as they are now: `Sound` says that a completed instruction has the
result its present operand gives, faults exactly if it has to, or is a load known to be in
violation, unless something older faults or was mispredicted (`Quiet`). The oldest instruction
has nothing older, and what the register file holds for it is the committed state: so what
commits is right, however wrong the rest is. `Linked` relates the window to consecutive states of
`Isa`, `Connected` each instruction to the address fetched behind it; together they give
`OldestOnPath`. Every way out of `retire()` is one lemma. The refinement adds that the
committed state and the address of the oldest instruction make a step of `Isa` or none.

**CycleProofs.** The tests with `==` are why the properties are not inductive alone: `LoopInv`
says how far the loop can have come when a test is made, so that the limit is met and not
passed; `Ahead` relates the limit of the cycle to the instructions the timer leaves; `StopInv`
says where a cycle that began beyond the end may be.

**ConfigurationProofs.** That `steer()` is fair is not visible in the counts of two lanes alone:
`Turns` orders the lanes of a unit by the distance to their next turn, and says that the one
that has to wait longer had more instructions, by one at most. For `OneLatency` the set of the
latencies that the constructor compares has one element, and the first unit that counts shows
that it is not 0. For `LogRight`, what any number of `--mdp` leaves of the flags is enough for one
direction (`ORACLE_DISAMBIG` never without `ORACLE_MDP`, `ALWAYS_PREDICT_CONFLICT` never without
`STORE_SETS`); the other one needs that a single `--mdp` leaves the flags of its model (`FlagsOK`).

Only model-checked: the liveness properties (`StrideLearned`, `RetirementGoesOn` of `Datapath` and
`Bundles`, `Progress`, `HangReported`), since fairness and ENABLED are outside of what the
prover handles. `vpu_alias` and `configuration_assertion` show violations and have nothing to
be proved. That the interpretation of `Datapath`'s free choice of registers is sound is
`Implements`: no theorem composes the two modules in one state space.

## 7. Abstractions and omissions

* Values are residues; a payload, opcode or memory address is reduced to what the
  properties tell apart. Branches are never eligible for prediction in `Vpu`: the
  decoder, which is not in the repository, gives them no predictable class.
* `m_vpq_valid` and `m_vpq_val_ready` are written and never read; they are left out.
  Likewise the statistics (`stats.cc`, the `vpmeas_` counters), which nothing reads back.
* `m_vpq` entries and the ready bits of unmapped registers are not initialized by
  the code: `Junk`, shown never to be used, and an arbitrary choice, respectively.
* In oracle and perfect mode the debug buffer decides about confidence and value: any
  choice. With perfect branch prediction nothing is squashed selectively.
* What the LSU, the issue queue, the fetch unit and the memory dependence predictor keep is
  not in the repository; their answers are choices. In `Retirement` a load reads the committed
  memory or that of an older store that has executed, and a store finds the younger loads that
  read too early. The queue of the memory dependence predictor and its repair
  (`writeback.cc:170`) are a hazard no property covers.
* Execution is one operation per kind of instruction; the variants of AMO and CSR instructions
  and their arithmetic are not distinguished. That the functional simulator executes correctly
  is what `Isa` is, not something shown. The first read of a counter leaves `retire()` through
  a refetch, is counted and checked, and is executed again (`retire.cc:397-404`): a step of `Isa`.
* An interrupt is taken in `Cycle` as far as the loop and the bits are concerned; what
  it does to the instructions in flight, debug mode and reset are left out, as are
  writes of software to the counter itself.
* `commit_count` of `Cycle` also stands for `num_insn`. The counter has `CounterSize` values
  instead of 2^32. Since the limit is tested before the end (`pipeline.cc:592`), software that
  rewrites compare in every cycle, or a caller whose limit is always 1, can put off the end
  for ever: `OneMoreThanStop` bounds each cycle, not their number.
* Split instructions are switched off by an assertion (`payload.cc:149`).
* Bounds that are not parameters of the machine: `MaxInFlight` in `Vpu` and `Datapath`,
  `BundleSize` in `Renamer` (instructions between Rename and Dispatch). TLC runs `Vpu` with tags
  and a VPQ of 2; untagged tables and larger queues are covered by the theorems, except for
  `StrideLearned`.

## 8. Plan

Done, in this order: `Vpu` first, since it is what the repository adds to the
simulator, with its proofs; then the renamer and its abstract specification; then the data
path, on which the meaning of a prediction depends; then bundles and payload; then
`Isa` and `Retirement`, which compose speculation of all kinds with the ways out of
`retire()`; the cycle around the stages; configuration; and the proofs: first cycle and
renamer, then `Retirement`, the payload of `Bundles`, the instance counters and confident
predictions, `Configuration` and the data path.

Next:

1. An abstract queue as specification of the VPQ (the eligible instructions in flight, their
   values, and a count for each entry), which `Vpu` implements by `IInv`.
2. That `Datapath` takes steps of `RenamerSpec`, as a theorem rather than by construction.
3. Interrupts and debug mode at the speculative fetch PC (`retire.cc`, `pipeline.cc`), which needs
   a fetch unit with a PC of its own.
