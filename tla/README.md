# A TLA+ model of the save/load form guard

The plugin protects one instruction of the game: a virtual call
(`call [rax+1D0]`, `TESForm::GetFormEditorID`) made while a save is loaded, on a
form that may be null, freed or damaged.  It finds the instruction by scanning
the game's code, patches it into a thunk, and there validates the form, calls
the engine's function under an exception handler, or returns a placeholder.
Every such incident is queued without blocking, folded with equal ones and
logged by whoever holds the drain lock.

This directory models that program from its source under `src/src`, checks the
model with TLC on small instances and proves its safety properties with TLAPS for every
value of the constants.  `PROJECT.json` lists components, runs, hazards and
theorems, and maps every definition to the lines it stands for.

## 1. The system

| component | source | state it keeps | operations |
|---|---|---|---|
| incident queue | `Diagnostics/IncidentQueue.h` | ring of cells with sequence numbers, two positions, three counters | `TryPush`, `TryPop` |
| incident coalescer | `Diagnostics/IncidentCoalescer.h`, `SaveLoadIncidentQueue.cpp` | a table of slots, `_active`, `_collapsed`, `_untracked` | `TryAdd`, `TryPop`, `Reset` |
| runtime guard and drain | `Hooks/SaveLoadGuard.cpp` 60-254, 420-484 | totals, `g_draining`, "working" flags, `g_unlogged`, last dropped | `GuardedGetFormEditorID`, `QueueIncident`, `DrainLogs`, `DrainLogsImmediately` |
| installation | `Hooks/SaveLoadGuard.cpp` 256-418 | mode, qualification, five addresses, `g_active`, the patched instruction | `Configure`, `Install` |
| callsite scan | `Runtime/SaveLoadGuardScan.cpp` | counts and first match of two shapes | `ScanForSaveLoadCallsite`, `MatchesEditorIdCallsite` |
| plugin entry | `SaveLoadGuardMain.cpp` | `g_postLoadAttempted`, `g_configuration` | query, load, message handler |
| target validation | `Validation/SaveLoadGuardValidation.cpp` | none; reads the engine's memory | `ValidateEditorIdTarget` |
| memory reader | `Validation/MemoryReader.cpp` | none | `Read`, `IsAccessible` |
| configuration | `Configuration.cpp` | the values read | `LoadConfiguration` |
| periodic drain | `Diagnostics/PeriodicDrain.cpp` | timer, callback, overlap flag | `Start`, `Stop`, `Tick` |
| logging | `Platform/Logging.cpp` | logger, numbered file | `InitializeLogging`, `ReserveNumberedLogPath`, `StartPeriodicLogging` |
| runtime adapter, cleanup contract | `Runtime/*.h` | none | predicates and constants |

How they interact:

    F4SEPlugin_Load -> InitializeLogging -> LoadConfiguration -> listener
                                                                |
    F4SE message ----> MessageHandler --once--> Configure, Install --> scan
                            |                      |
                            | other messages       | patch, verify, publish, g_active
                            v                      v
    timer -> PeriodicDrain -> DrainLogs     engine thread at the callsite
                            |               GuardedGetFormEditorID
                            |                 validate -> call / placeholder
                            |                 totals -> TryPush -> DrainLogsImmediately
                            v                      |
                      g_draining (spin lock) <-----+
                            |
              TryPop* -> coalescer -> log lines -> unlogged, dropped

What is hard here: any number of engine threads in a ring without locks; totals,
queue, unlogged counter and log lines that are updated by different threads and
must nevertheless add up; a spin lock inside a game callback; a hook that is
live before the data it uses is published; a patch that must be undone on every
failing path; block boundaries in a scan whose answer decides what code is
overwritten.

What makes each part correct:

- *queue*: nobody shares a cell; no record is overwritten, lost, duplicated,
  torn or delivered out of claim order; a call never waits for another thread.
- *coalescer*: one slot per signature; the reported counts add up to the records
  added; only a table full of different signatures gives records up, and says so.
- *guard*: every incident is accounted for in the log once its thread left; no
  record depends on the timer alone; every hooked call returns.
- *installation*: an active hook finds everything it reads; a running hook is
  never downgraded; prevention is claimed only where configured; the patch
  survives a failure only if undoing it failed too; another plugin's patch is noticed
  if it comes before the last read of the instruction.
- *scan*: each start is examined once; what cannot be read qualifies nothing;
  the instruction patched is the only one that would pass the comparison.
- *validation*: what is called is game code taken from the read-only data, whatever
  the engine does to its pages meanwhile; in memory that holds still the verdict is
  right to the byte; every call reaches one.
- *plugin entry, configuration, logging*: a numbered log holds one process's lines
  and is never truncated, however many games start at once and die anywhere; the mode
  installed is the one the INI asks for, however reading it ended.
- *periodic drain*: callbacks do not overlap in the drain, call the function they were
  started with, and find the library loaded; no callback disables the ones after it.

## 2. Modules

`IncidentTransport` is the abstract queue: tickets in one total order (`Claim`),
published in any order, taken from the front only once published.  It is *not* a
linearizable FIFO, and says so: a pop reports "empty" while the oldest ticket is
unpublished, and a push can be refused while fewer than N records wait, because
a record being copied out still occupies its place.  These two cases are what
the drain has to live with.

`IncidentQueue` is the ring, one action per access to shared memory.  `pc` is the
place in `TryPush` or `TryPop`, `position` and `incident` are the locals,
`sequence` and `value` the cells.  The load of the position and the entry into
the function are one action (`BeginPush`, `BeginPop`): nothing shared is read
between them.  A failed exchange reloads the position, as
`compare_exchange_weak` does.  `ImplementsTransport` is the refinement: a record
is in the lane from the exchange on (in the writer's hand before `PushWrite`, in
the cell after it), and it is ready when the sequence number is its position plus
one.

`IncidentCoalescer` is the table.  Its signature is the one of
`ShouldCollapse`: runtime, callsite, reason and action.  `TryAdd` is three
disjoint actions (`Merge`, `Open`, `GiveUp`), `FirstOf` the loops that stop at the
first slot that fits.  The remembered exemplar is the first record of a kind.
`CoalescerLedger` adds a ledger of what each call told its caller: how many records of a
kind were accepted, how many the popped aggregates stood for, how many were given up.  How
much the table still holds of a kind (`Held`) is the cardinality of a set of pairs, one for
each record counted in a slot, so that it can be reasoned about without a recursive sum.

`SaveLoadGuard` composes `IncidentTransport` and `IncidentCoalescer` by
conjoining their actions with its own.  An engine thread goes
`Dispatch -> Reject | Accept -> ... -> CountIncident -> QueueIncident ->
Pushed | PushRefused, CountUnlogged -> AcquireDrain -> ... -> ReleaseDrain`; a tick
(timer callback or message) skips the drain when somebody else is in it.  A drain
is `AnnounceWorking`, up to N times `PopStarts, PopTakes, PopFolds`, one
`LogAggregate` per slot, `LogUncountable`, `CompareDropped`.  `accounted` and
`workingLines` count what the lines written stand for; everything else is a
variable of the code.  Validation's verdict is a choice; the engine's call
returns, returns something unreadable, faults (handled only with prevention on)
or escapes, which ends the process (`alive`).

`Install` is the installation, entered through `PostLoad`.  Each step that
changes state or returns is an action; each system call may fail; another plugin
may overwrite the instruction at any moment (`ForeignWrite`).  `readAt` is a history
variable: how many foreign writes there were when the original bytes were read.  `Stores`
is the order in which the addresses are published.  `Reach ... Judge` are engine threads
at the callsite as far as they depend on the installation: the loads of the
addresses come in any order.

`SaveLoadGuardScan` is the scan.  A section is its size, the starts of exact and
relaxed shapes, and one byte that cannot be read (`hole`, equal to `size` when there
is none).  `ScanBlock` handles a block with everything it counts; `Decide` is the
verdict and `Match` the comparison Install makes before it patches.  What the
relaxed comparison sees is what is left of the block, so a shape's verdict
depends on where it stands, and the model keeps that.

`TargetValidation` is the verdict on a form and the memory reader under it.  A call is
a sequence of probes (`Probes`, in the order of the code); `Query` is one
`VirtualQuery` of the walk in `IsAccessible`, a probe that reads then copies
(`CopySucceeds`, `CopyFails`, `CopyEscapes`), and between any two of these steps the
engine may free, map, protect or guard a page of the heap (`Change`).  What a copied
word holds is a choice, since the object may be freed memory.  Addresses are machine words:
every sum is `Plus`, which wraps, and only the checks of the code (`Fits`) keep a wrapped end
out.  `changed` is a history variable: the pages that changed in this call.  `Within` and
`Accessible`, used by the properties only, are the same questions asked without word
sizes and byte by byte.  `SaveLoadGuard` takes the verdict of this module as a choice.

`Configuration` is `LoadConfiguration` as a recursive function (`AfterEach`) of the number
of lines read, a line being its key and the class of its value; "off" is the one text both
parsers understand.
The three ways reading ends are two operators: a file that ends, cannot be opened, or
whose stream stops delivering is `Finished` at that line, an exception is
`Interrupted`, which keeps what was set and does not look at `enabled` any more.
`LastSays` is what a file means, without the loop: the last line understood decides.
`EffectiveMode` is the use `Install` makes of the result.

`PluginLoad` is `F4SEPlugin_Load` in several processes.  `Enter` and `Reject` are its
gates; `Reserve`, `Taken` and `LoggingFails` are turns of the loop over numbers, where
`Reserve` is `CREATE_NEW` and the closing of the handle (nothing of this process
happens between them); `Open` is the sink opening the name again, to append;
`LoadConfiguration` includes the line that reports the result; `Register` adds the
listener.  `End` is the process ending at any point and closing its file, `Delete`
somebody cleaning up, which the system refuses for an open file.  `writers` is a
history variable: whose lines a file holds; `unguarded` marks the numbers deleted
between reservation and opening, where the name alone is the claim.

`PeriodicDrain` is the timer.  One owner runs `StartPeriodicLogging -> Pin -> Create
-> Arm` and `Disarm -> Cancel -> Wait -> Close`; any number of pool threads run
`EnterTick -> TestAndSet | SkipTick -> Call -> ReturnAndClear`; `Expire` is the system
queueing a callback.  `WaitForThreadpoolTimerCallbacks` with cancellation is two steps,
taking back what is queued (`Cancel`) and waiting for what runs (`Wait`).  `_callback`
is plain memory, so the steps that write it and the step that reads it are separate.
The plugin itself never stops a running timer; `Stop` belongs to the class and its
destructor (of a drain whose start failed there is nothing to stop).  The context is
always null and left out.

`MC*` modules give TLC the symmetry sets and, for the coalescer, the bound on the number
of adds.  `*Proofs` modules hold the theorems.  Definitions
commented "Variant" are plausible mistakes in the code; no specification uses
them, they show for each property that it can fail.

## 3. Runs

| run | instance | distinct states | shows |
|---|---|---|---|
| `queue_safety` | 3 threads, 2 cells, 2 records, 5 pushes | 577,997 | `RingInv`, `ExclusiveCell`, `NeverOverfull`, `CountersAtRest`, refinement of `IncidentTransport` |
| `queue_liveness` | 3 threads, 2 cells, 3 pushes | 149,139 | `NeverBlocks`: one thread's calls return though the two others stop anywhere |
| `coalescer` | 4 signatures, 3 slots, limit 2, 6 adds | 30,679 | `OneSlotPerSignature`, `ActiveCountsUsed`, `ReportsAddUp`, `CountsNeverShrink`, `RefusedOnlyWhenFull` |
| `guard_safety` | 3 engine threads, timer, queue of 2, table of 1, 3 calls | 1,329,699 | `AccountedAtRest`, `NeverOverreported`, `NeverStranded`, `WorkingLineOnce` |
| `guard_liveness` | 2 engine threads, timer, 2 calls | 58,302 | `DispatchReturns`, `WorkingReported` |
| `install` | 2 messengers, 2 callers, 2 messages, 1 foreign write | 45,536 | `NeverMisjudged`, `NeverDowngraded`, `PreventsAsConfigured`, `LeftPatchedOnlyIfRestoreFailed`, `ForeignWritesNoticed` |
| `scan` | sections to 15 bytes, blocks of 8, shapes of 5, up to 3 shapes | 353,756 | `EveryStartOnce`, `PartialFailsClosed`, `AcceptedIsUnique` |
| `validation` | 16 addresses, pages of 2, 2 heap pages, strings of up to 3 bytes | 142,380 | `CallableIsGameCode`, `QuietVerdict`, `QuietResult`, `OnlyGuardPagesEscape`, `VerdictReached` |
| `plugin_load` | 2 processes, 2 log numbers, 1 deletion, every INI of up to 2 of 10 lines | 1,257,540 | `OneWriter`, `NeverTruncated`, `ConfigurationMeans`, `ModeAsAsked` |
| `periodic_drain` | 3 pool threads, 2 callbacks queued, 2 functions | 466 | `OneAtATime`, `NeverUnloadedUnderTimer`, `KeepsTicking` |
| `install_partial` | as `install`, one caller | violation | finding 1 |
| `scan_ambiguous` | as `scan` | violation | finding 2 |

Why the bounds are enough:

- *Ring*: two cells and five pushes go round the ring twice, so sequence numbers
  of three laps meet; three threads are the least where one holds a stale
  position while two others pass it.  The proofs remove both bounds.
- *Guard*: with two engine threads no push is ever refused (each drains behind its
  own record), so there are three; a queue of two and a table of one slot make
  refusals, untracked records and the drain's budget happen with three calls.
- *Coalescer*: three slots for four signatures fill up, are emptied around holes
  and fill again; the saturation bound is 2 instead of 2^64 - 1 so that it is met.
- *Install*: two messages are the second `kPostLoad`; one foreign write can fall
  between any two steps; callers can overlap the publication.
- *Scan*: 15 bytes in blocks of 8 that overlap by 4 are up to four blocks; shapes
  stand anywhere, at block ends and across them, and the counter saturates at 2.
  The scaled values keep the inequalities of the real ones: 38 bytes of contract,
  15 fixed bytes before the call, the call at most 47 bytes in.
- *Plugin load*: two processes race for a number, and a restart is one that starts
  after the other ended; a deletion and two numbers make every number taken, freed and
  taken again.  The proofs remove these bounds.  Two lines are enough for the INI
  because settings are independent of each other except `enabled` and `mode`, and a
  setting depends on its last line understood: what two lines can say of one key, or
  one line of each of the two, is every case.  The lines include values one parser
  understands and the other does not.
- *Periodic drain*: the owner starts and stops without bound.  Three pool threads are
  one that drains, one that meets its flag and one that enters late.
- *Validation*: every address of the space is tried as form, vtable, entry and string;
  objects span pages, both sections end inside a page, readable memory follows the
  read-only data, and how often pages change is not bounded.

`CHECK_DEADLOCK FALSE` is set for `install*` (nothing left to deliver and no hook to
reach), `scan*` (the scan ends), `plugin_load` (every process has ended) and
`periodic_drain` (the library is unloaded): there the system really stops.

## 4. Fairness

`SurvivorSpec` keeps one thread running and lets every other stop for ever between
any two accesses: what "never blocks" has to mean for a thread that the scheduler
suspends.  Exchanges fail finitely often because the bound makes traffic finite;
the code is lock-free and not wait-free, and under endless traffic one thread
may lose every exchange.

`FairSpec` assumes that running threads keep running, the timer keeps firing and
the engine's function returns or faults (weak fairness), and that a thread spinning
on `g_draining` gets the flag if it finds it free again and again (strong fairness
on `Acquire`).  The last one is an assumption about the scheduler: the spin has no
queue.  Unlike the ring, the drain lock blocks: an engine thread suspended inside
a drain blocks every other engine thread that has an incident.  Nobody is obliged
to enter the hook.

`PeriodicDrain` assumes that an armed timer goes on expiring and that the pool takes what is
queued and runs it on (the callback returns: `DrainLogs` skips or ends).  Nothing is assumed
of the owner.  These are what the system's thread pool promises; with them the flag is the only thing that could silence the timer.

`TargetValidation` assumes weak fairness of the one thread and nothing of the engine,
which may change pages for ever.

## 5. Proofs

Every invariant and every action property of the passing runs is also a theorem, and so is
the refinement of the abstract queue.  All theorems hold for every value of the constants
under the named assumptions (`QueueAssumption`, `CoalescerAssumption`, `InstallAssumption`,
`ScanAssumption`, `ValidationAssumption`, `GuardAssumption`, `PluginAssumption`,
`DrainAssumption`).  Beyond the types of the constants and that different kinds of threads
and reasons have different names, these say: the ring has two cells or more; a block of the
scan is longer than a contract; both sections end within the word, the pages they touch are
not among those that change (they belong to the loaded image), the first and the last page
of the address space are never mapped, and the form ID lies before the form type.  One theorem about a specification has a hypothesis of its own,
`MaxDispatches <= Limit` in `AccountedHolds`: the coalescer's 64-bit counters stop counting
when they are full, on purpose.

**Ring** (`IncidentQueueProofs`, N >= 2).  `ExclusiveCell` is not inductive: that two
owners differ in their cell needs to know what a sequence number means.  `Inv` adds
it: positions lag behind their end (`PositionsBehind`); a producer's cell carries its
position and a consumer's its position plus one (`ProducersOwn`, `ConsumersOwn`); two
owners of one kind have different positions (`OwnersDiffer`); a claim that is about
to succeed still stands (`ClaimsStand`: the sequence number read before the exchange
is still valid when the exchange finds the position unchanged, which is what makes
the stale read harmless); every cell's number belongs to that cell (`CellNumbers`)
and every position between the ends is written or published (`LaneNumbers`).  Then
equal cells with sequence p and q give p = q, and the arithmetic of `%` makes two
positions of a window of N the same position.  `InvHolds`, `TypeCorrect`,
`NoDataRace`, `CapacityHolds`.  N >= 2 is needed: with one cell a published record's
number is that of a free cell of the next lap.

`RingInv` extends `Inv` by what a ring at rest and a ring seen from outside need:
a sequence number only grows (`SequencesAdvance`), so it tells how far a position has come:
claimed, published, taken or freed; a cell between two numbers has an owner who will write the next one
(`EveryCellOwned`), so with no call in progress everything between the ends is published;
and the totals lag behind the positions by exactly the threads that moved an end and have
not counted yet (`CountsCatchUp`, a cardinality).  `CountersExact` follows.

`RingImplementsTransport` maps every action of the ring to a step of `IncidentTransport` or
to a stutter.  Loads, reloads and failed exchanges stutter; the exchange of a push is `Claim`
and that of a pop the taking of the front, which is published because the number the
consumer read is still in the cell; the release stores are the publication and the freeing.
A push that reads a number below its position is a refusal, and by `SequencesAdvance` and
`EveryCellOwned` the place of the next ticket is then occupied; a pop that reads one finds
the oldest record unpublished or none.  The proof is about safety only; that is all the abstract
specification states.

**Coalescer** (`IncidentCoalescerProofs`).  `TableInv` is the type invariant with
`active` equal to the number of used slots and one slot per signature.
`UniqueSignature`, `ActiveIsExact`; `NothingGivenUp` follows by an injection of slots
into signatures when there are at least as many slots.  `RefusalsAreDue` is its counterpart
for a table of any size: a record is given up only when no slot is free, and then the slots
are in bijection with the signatures in the table.

`LedgerBalances`: records with equal signatures are of one kind, so an add puts one pair
into the set of its kind and into no other, unless the counter is full; a pop takes out all
the pairs of one slot, which are as many as its count.  When a kind has been accepted no
more than `Limit` times, none of its counters can be full before the add, so nothing is
lost.  `CountersOnlyGrow` is the action property.

**Installation** (`InstallProofs`).  The invariant says that at most one messenger is
ever inside Install, and none before the flag is set (`g_postLoadAttempted`); that
the addresses are complete wherever `g_active` is set or about to be; and that a
validating caller has found the hook active.  `ReadersSeeAll`; `ActiveIsFinal` is
the action property: once active, no step changes what the guard reads.

`PreventsOnlyAsConfigured` needs that whoever is inside Install runs with the settings
of the INI (`ConfiguredInside`), that the qualification is set only after a scan that
found an exact match and never before the patch stands (`QualifiedByScan`), and that a
caller judged under prevention found the hook active (`PreventedActive`).
`NoForgottenPatch`: every path from the write to a failing return passes the write-back,
so a callsite that stays patched has seen it fail.  `ConflictsNoticed`: whoever got past the
last read found the original bytes there; from then until the patch only a foreign write
changes them, and each of those is counted.

**Guard** (`SaveLoadGuardProofs`).  `NothingStranded` is an argument about budgets.  A
drain may pop N records, and at most N wait when it begins; so a record behind the
budget (`BeyondBudget`) was claimed during the drain, and whoever claimed it cannot have
drained since, because the lock is taken (`OneDrain`): its own drain is still before it
(`Owes`).  A drain that stops early stops at an unpublished record, which is the one its
thread is writing (`Writers`, `Unpublished`), and that thread will drain too.  So when
nobody scans, the oldest record is always owed (`HeadOwes`).  The timer appears in the
proof only as somebody who may hold the lock.  `WorkingLineHolds`: as long as the line is
unwritten, a trace of an incident in queue, table or counters (`NoTrace`) means an engine
thread that has not announced yet, and it set the pending flag when it came in.

The books (`BooksInv`): an incident is moved and never copied.  It is with the thread that
counted it, in the lane, in a drain's hand, in a slot of the table, in `untracked` or in
`g_unlogged`; `Stands` adds these up, all of them cardinalities, lengths or counters.  `Balance` says that what was
written and what stands never exceed what was counted, and are equal as long as the table
cannot saturate.  `Debts` says that each of these places, and a number of drops not yet
written, has an engine thread inside that will write it or waits for somebody who does, so
when the last one leaves every place is empty.  `NeverOverreportedHolds`, `AccountedHolds`; `GuardTypeOK` takes from the books that
no total exceeds the number of hooked calls.  The table enters through the lemmas of
`IncidentCoalescerProofs`, instantiated.

**Scan** (`SaveLoadGuardScanProofs`).  `GapsAreMet`: the blocks visited so far leave no
byte out, so the unreadable byte is before no offset already passed, and the
scan cannot reach its verdict without having met it.

`StartsCountedOnce`: the starts before the next block's offset have been examined and no
others (`SeenExact`); a block examines the starts in which a contract still fits, and the
next one begins right behind them.  `OneCallsite` needs to know which relaxed shapes a block
cannot miss: those whose call lies within the bytes every start is guaranteed
(`SureRelaxed`).  A site Install's comparison takes is one of them, so a second one would
have been counted.  `ScanTypesHold`.

**Validation** (`TargetValidationProofs`).  `InRangeExact`: for every word size `InRange`
agrees with arithmetic that cannot wrap.  `CallsGameCode`: from the probe of the slot on
the table stays inside the read-only data, because the slot is read through the copy
that was checked and not through the form again; no step that pages can disturb is
involved, so `Change` needs no case of its own beyond leaving the copies alone.

`GuardPagesOnly`: every page the walk has passed allows the access or has changed since
(`WalkAllowed`), so a copy that meets a guard page meets one that changed.  That the bytes
copied are the bytes walked needs that the range does not wrap, which `Fits` ensured.  The arithmetic is that of pages: a region ends at a page boundary,
and an address below that boundary is on a page the query answered for.

`VerdictIsRight` and `ResultIsRight` are about memory that holds still.  `QuietInv` adds to
the facts above what each step has found out for good (`Known`) and, as long as no page
changed, about the bytes behind it (`SoFar`): a probe that was passed leaves its whole range
accessible, one that was refused names a byte that is not, and the reason given is the first
that applies.  That the table's bytes are readable at all follows from the section being
mapped (`RdataMapped`).  `ValidationTypes`.

**Plugin load** (`PluginLoadProofs`).  A process has a claim to a file from its reservation
on: by number while it has not opened it, then by handle, then by the lines it left
(`Claims`).  As long as the number was not deleted under a reservation, a claimed file
exists (`ClaimedExists`), so `CREATE_NEW` cannot succeed for it, and claims stay unique
(`OneClaimant`).  `LogHasOneWriter`; `LinesStay` is the action property.

`SettingsAreMeant` and `ModeIsAsked` say of files of any length what TLC checks for two lines.
That the loop's function has the values its recursion says (`LoopRuns`) and that these are
what the lines mean (`LoopMeans`) is induction over the lines; it is done by a least
counterexample: the set of line numbers at which the claim fails has a least element, which
is not zero, and the line before it leads to a contradiction.  The invariant adds to the two
properties that a process which has not begun has the defaults and has read nothing
(`Untouched`).

**Periodic drain** (`PeriodicDrainProofs`).  Whoever is in `Tick` took an expiration of a
timer that exists; without a timer, and once `Stop` has waited, nothing is queued and
nobody is in `Tick` (`QuietWithoutTimer`), so the fields change only while nobody reads
them; the flag is set exactly while one thread is between setting and clearing it
(`FlagMeansBusy`).  `NoOverlap`, `CallsItsFunction`, `LibraryStays`.

Only model-checked: liveness (`NeverBlocks`, `DispatchReturns`, `WorkingReported`,
`VerdictReached`, `KeepsTicking`), because fairness and ENABLED are outside
the prover's reach, and of course the two violations.  The theorems take the models as they
are: what section 7 abstracts is abstracted in the proofs too.  `SaveLoadGuard` is proved
over the abstract queue; that the ring may stand in its place is the refinement theorem, and
the composition of the two is not a theorem of its own.

## 6. Findings

1. `install_partial`.  When the cache flush fails, Install writes the original bytes
   back, discards the result of that write and returns `HookConflict`.  If the write
   fails as well the callsite keeps the call into the thunk, which then answers every
   form with the placeholder.  The comment at `SaveLoadGuard.cpp:376` says this must
   never happen.  `LeftPatchedOnlyIfRestoreFailed` is what does hold.
2. `scan_ambiguous`.  The relaxed comparison sees what is left of the block, while the
   warning call it looks for may stand up to 47 bytes in and the next block
   begins behind the last 38.  A relaxed shape in such a place is not counted, so a
   section with two of them can give a unique result, against
   `SaveLoadGuardScan.h:51`.  `AcceptedIsUnique` is what does hold: such a shape would
   not have stood Install's second comparison either.

Both need rare circumstances.  Worth knowing, without being findings: an incident's
line may precede the "working" line; a plugin that rewrites the instruction between
Install's read and its write is overwritten; and an engine thread that reaches the
patched instruction before `g_active` gets the placeholder for a valid form too, as
the comment in the thunk accepts.  A page that becomes a guard page between a query
and the copy raises an exception the reader's handler does not take
(`OnlyGuardPagesEscape` shows nothing else gets past it).

About the start of the plugin: an exception while the INI is read leaves the settings read
so far in place although the comment at `Configuration.cpp:142-143` speaks of defaults, and a
plugin the file disables is then still off only because `Install` looks at `enabled` again
(`ModeAsAsked`); the line that reports the configuration may name another mode.  A stream
that fails while reading looks like the end of the file.  Two processes can share a log if
it is deleted between one's reservation and its opening.  The timer is started after the
hook was installed, so the hook can be active without a timer if pinning or the timer
fails; incidents are then logged by the threads that meet them (`NeverStranded`), and the
"working" line may wait for the next message.

## 7. Abstractions

- Memory is sequentially consistent.  The code's acquire and release pairs are on
  x64, the only build; `g_active` is stored last and loaded first with them.
- 64-bit positions and counters are naturals, except where the code saturates.
- `compare_exchange_weak` does not fail spuriously (a locked `cmpxchg`).
- The six bytes of the patch change at once.  What another thread fetches in the
  middle of the store is up to the processor and the external `WriteSafeData`.  A write
  that reports failure is assumed to have changed nothing: the code restores nothing then.
- Incident fields that neither the collapse rule nor a property reads are left out,
  and so is the text of a line; lines are counted.
- Byte patterns are positions of shapes.  `HasCleanupShape` is part of what it means
  to be in `exactAt` or `relaxedAt`.
- Page protections are no access, guard, readable, executable, and both.  Whether a copy
  from a page that became execute-only faults is left open.  A copy sees memory at one
  moment.
- Install's early return for an active hook is left out: the one-shot flag makes it
  unreachable.
- In `SaveLoadGuard` the hook is installed before the model begins and the mode does
  not change, which `NeverDowngraded` justifies.
- A log line records who wrote to which file.  Without a logger it is lost, and so are
  the incidents a drain takes from the queue meanwhile: the drain does not ask.
- INI lines are classes: trimming, case, comments at the end of a value and the
  spellings of a class are not told apart.  Text the parsers do not understand is one
  class, "nonsense".
- The INI does not change while processes run; each of them may see any prefix of it.

## 8. Plan

Done: every component that keeps state.  Queue with its abstract specification,
coalescer, guard composed of both, installation, scan, target validation with the
memory reader, plugin entry with configuration and logging, periodic drain.  Theorems for
each of them.

Next: the verdict of `TargetValidation` in place of the choice `SaveLoadGuard` makes, and
that the guard's steps on the queue are steps of `IncidentTransport`, which would make the
composition with the ring a theorem.

Not modelled, and why: the text of log lines and what spdlog does with it (formatting);
`Query`, the version predicates of `RuntimeAdapter.h` (their outcome is a choice of
`PluginLoad`) and the constants of `CleanupContract.h` (nothing in this plugin reads them):
no state; `BufferMemoryReader` (used by the tests only); build and packaging files.
