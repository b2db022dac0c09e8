# CrewClaw: a verification project

TLA+ models of CrewClaw, the TLC runs that check them on small instances, and
theorems about them checked by TLAPS. The reference is the source; a claim of a
document, a comment or a test appears here only where it is a property a run
checks or where the code disagrees with it (section 7).

1. The system — 2. Modules — 3. How the models correspond to the code —
4. Runs — 5. Fairness — 6. Proofs — 7. Disagreements and observations —
8. What is not modelled — 9. Plan

Sources are named without `src/packages/runtime/` where that is their directory.

## 1. The system

CrewClaw runs "AI employees": an employee is a directory of persona, skills and
eval files; a *task run* is an agent loop on a language model, whose Markdown
deliverable is graded, shown to the user, and accepted or not; accepted runs
teach the employee, and a *Dream* rewrites what it has learnt. Four programs
share files under `.crewclaw/` and nothing else: a Node process per run
(`run.mjs`), a longer lived Node process behind the terminal workbench
(`tui/jsonl-bridge.mjs`) with the Rust client that started it
(`crates/crewclaw-cli`), the Rust command line itself, and a local web service
(`api/lib`).

| component | state it keeps | operations | what is hard | what makes it correct |
|---|---|---|---|---|
| **task settlement** (`run.mjs`, `task-approval-store.mjs`, `acceptance-transaction.mjs`) | per run: TaskRun, pending receipt, decision receipt, ProofPack, artifact metadata; the employee's memory | deliver, persist receipt, accept, replay, revise, reject, fail, recover | eight files written one at a time; a death between any two; several sessions with one receipt; a deliverable edited meanwhile | decided at most once; accepted stays accepted and is backed; memory only from accepted runs; a decided accept is completed |
| **approval reader** (`run.mjs`, `tui/task-jsonl.mjs`) | pending approvals of one session, closed flag and reason | wait, resolve, bare y/n, delete, exit, end of input, time limit of a tool call | lines of one chunk read before whoever was answered goes on; timers; abandoned approvals | every answer acts on the request it was given to; nobody waits at a closed reader |
| **state lock** (`state-lock.mjs`) | one lock file, its inode, mtime and owner record | acquire, reclaim a stale lock, release | every system call interleaves with other processes; death and suspension | mutual exclusion; a dead owner's lock is reclaimed |
| **workbench bridge** (`tui/jsonl-bridge.mjs`) | input queue, the running task and its abort signal, the one held deliverable, its receipt and verdict, the two ledgers | message, queue, ask, cancel, deliver, accept, reject, revise, delete, close, recover | cancel during a drain; a death or a failed write between verdict, ProofPack, KPI, spend, cycle and receipt | "accepted" is backed; one verdict; a held deliverable can be recovered; what was decided is settled |
| **growth cycle** (`growth-cycle.mjs`) | one file per cycle: recommend → approve → run → deliver → evaluate → learn | ten transitions, idempotency keys, recovery | bridge and cycle are saved apart | the cycle says of its task what the ledger says |
| **dream** (`dream-controller.mjs`, `certification*.mjs`) | jobs, candidates, receipts, archive, the active memory, the latest certificate | recommend, generate, approve, reject, activate, roll back, recover; certify | death during activation; a lesson learnt during review; two workbenches; a certification that runs while memory changes | memory is only swapped for what was approved; nothing learnt is lost; a Dream can be rolled back; an interrupted swap is finished |
| **team lifecycle** (`offboarding.mjs`, `api/lib/local-*.ts`, `crates/crewclaw-cli/src/{main,team}.rs`) | roster, trials, KPI and reflections of trials, offboarding directories, memory | trial, verdict, hire, update, fire, export, handoff, purge | three programs in three languages read and write one roster | one active employment; nobody fired without the export; no purge of somebody who works here |
| **agent loop** (`run.mjs`, `tools-*.mjs`, bridge) | batch of calls, plan, counters, active skills, open question, session leases | ask the model, call, confirm, propose a plan, time out, cancel, guarded write | answers after a time limit or a cancel; a lease or a file that changes after it was looked at | an effect begins on the user's word and a current state; every call ends once |
| **tool gateway and leases** (`tool-gateway.mjs`, `employee-tools.mjs`, `permission-leases.mjs`, `context-runtime.mjs`) | - (functions of manifest, call, skills, leases) | merge needs, decide, bound by skills, match a lease | needs of different strength share one tool | the merge weakens no need |
| **terminal client** (`crates/crewclaw-cli/src/workbench/{state,mod,actions}.rs`) | one session per task: request on the screen, busy, closed; viewed and current task; pending message | key, message, escape, switch; reduce one event | keys and events cross in two pipes | the screen catches up; a key settles only what it was pressed for; busy ends |
| state files (`state-lock.mjs`) | JSON files | atomic write, guarded removal | a write reported failed after its rename | old or new contents, never a mixture |
| task state machine (`task-state.mjs`) | TaskRun | `transition`, completion gate, save | - | legal transitions only |
| employee memory (`memory-store.mjs`, `memory-candidates.mjs`) | JSONL store | add, dedup, retrieve | partial batch | a set of lessons, all from accepted runs |
| artifact store and contract | metadata, fingerprints | register, mark accepted, delete | edits under a fingerprint | metadata follows the run |
| budget, spend, KPI (`spend.mjs`, `budget-guard.mjs`, `kpi.mjs`) | ledgers | preflight, settle, record outcome | retry and replay | each task counted once |
| evaluation, certification (`eval-runner.mjs`, `certification-runner.mjs`) | reports, credentials, signing key | drive a task process, judge, score, sign | a subject that changes while it is examined | the credential names what was examined |
| Rust state store (`state_store.rs`) | files under an owner lock | load, save | as the state lock | as the state lock |
| web site (`src/src`) | none of its own | - | - | - |

**Interactions.** The client starts the bridge and the two exchange JSON lines
over two pipes (`WorkbenchClient`). The bridge runs a task by calling the agent
loop of `run.mjs` in its own process (`AgentLoop`), holds the deliverable and
settles it itself (`Workbench`), and drives the growth cycle. A task run started
from the command line or another program is a process of its own: the *approval
reader* turns lines into resolved promises, and the verdict on the deliverable
starts the *settlement*, under the *state lock* of the run. Both end by adding
lessons to *memory*, which the *Dream* swaps under the memory's lock, and which
a certificate is for. The roster decides who may run at all; its three writers
share one owner lock (`TeamLifecycle`). A session that dies leaves files; the
next one reads them and takes over.

Hazards are listed with their lines in `PROJECT.json`; each names the
properties that would catch it, or why none does.

## 2. Modules

| module | models | composed with |
|---|---|---|
| `TaskSettlement` | the acceptance transaction of all runs of one employee and task: sessions, files, lock, deaths, failed writes | the lock as an abstract holder (justified by `StateLock`); the answer of the user as the result of `ApprovalReader` |
| `AcceptanceContract` | what acceptance promises, with no files, locks or restarts | implemented by `TaskSettlement` (`Contract!Spec`) |
| `StateLock` | one lock path, system call by system call | - |
| `ApprovalReader` | one session: reader, agent loop, timers, client | its `outcome` is the `intent` of the settlement |
| `GrowthCycle` | the cycle file: transition table, idempotency keys, order by time stamp (operators) | EXTENDed by `Workbench`, which owns the files |
| `Workbench` | the bridge: tasks, questions, deliverables, verdicts, ledgers, cycles, recovery, deaths | `GrowthCycle` |
| `DreamController` | the life of a Dream next to tasks that learn, a certifier and other workbenches | a lesson is what a settlement adds |
| `TeamLifecycle` | trial, hire, update, fire, purge by website, command line and offboarding service | the owner lock as an abstract holder |
| `ToolPolicy` | the decision on a call as functions of its arguments | EXTENDed by `AgentLoop` |
| `AgentLoop` | turns of a chat session: batches, questions, leases, limits, plans, cancellation, writes | `ToolPolicy` |
| `WorkbenchClient` | the Rust client, the two pipes, and as much of the bridge as the client can see | the bridge of `Workbench` and `AgentLoop` reduced to turn, request, delivery and queue |
| `MC*` | instances: model values, symmetry, budgets | - |
| `*_proofs` | theorems | EXTENDS the module and `TLAPS` |

## 3. How the models correspond to the code

`PROJECT.json` maps every definition to its lines. In all modules a `pc` is a
place in the code between two steps that something else can come between: two
file operations where processes share files, an `await` where only one event
loop is involved. What runs to its end without either is one action.

**TaskSettlement.** Control points are the places of `runTaskMode`,
`recoverTaskModeApproval` and `settleTaskModeAcceptance` between two file
operations, in the code's order: *accept* is
lock → reload the TaskRun → is the receipt still there → does the deliverable
still match → read or write the decision → does the run match the decision →
ProofPack → does the deliverable still match → mark the artifact → save
`accepted` → add candidates → save `committed` → remove the receipt → unlock.
*Refuse* is lock → reload → receipt → is there a decision after all → save the
closed run → remove the ProofPack → remove the receipt → unlock. Every step can
be preceded by a death and most can fail, with the error path the code has.
`persistTaskApprovalDecision`, `persistPendingTaskApproval` and
`persistProofPackDurably` may also fail *after* the file is in place (the
read-back or the directory fsync throws). A run is its status, whether it notes
a pending approval, its `memory_commit` and the decision it references; a
decision is who wrote it and the run it froze; the deliverable is `intact` or
`changed` against the receipt. `Volatile` names the runs whose deliverable may
change on disk. A terminal run (`CliRuns`) is answered before its first save and
has no receipt. All runs of a model belong to one employee and requested task,
the scope `findPendingTaskApproval` searches.

**StateLock.** A lock file is its inode. `Open` is `openSync(path, "wx")`;
`Record` writes the owner record to the inode that was created, wherever the
path points by then; `Stat`, `Probe`, `Verify`, `Reap` are the waiter's
`lstat`, `readLockOwner` with `processIsAlive`, `unlinkLockIfOwned` and its
`unlinkSync`. `Age` is the passing of `staleMs`. Nothing is assumed of timing or
of the file system: a creator may be suspended for any time, an inode that is
neither linked nor open may be given again, and a path may change between a
check and the unlink. The history variable `windows` notes which of these three
gaps a behaviour has used: `Open` when it creates the lock file with an inode by
which alone somebody knows the file he is about to remove (`Watched`), or while
somebody stands between check and unlink (`Unlinking`); `Age` when a creator has
not written its record yet. No action reads it.

**ApprovalReader.** A line is read in one step and resolves the promise of an
approval (`answer`); `Resume` is the later microtask in which the waiter goes
on. `Expire` is the time limit of `runToolWithDeadline`, `GiveUp` the end of
the three seconds of grace, after which the loop goes on while the approval
stays in the reader's map. An approval's id is the millisecond of its request,
which two requests may share. A line carries a ghost field `for`, the request
the user meant, which no action reads except to record it.

**GrowthCycle** is the transition table of `growth-cycle.mjs` as a function of
state and operation, the idempotency key `<<operation, task, outcome>>` under
which a repeated call changes nothing, and the order of the cycle files by time
stamp, from which the newest is taken. **Workbench** owns the files and calls
it. The record `br[b]` is one bridge process: the awaits of a turn
(`Awaiting`), between which the client's lines are handled and a cancel may
arrive, and the durable writes of a settlement (`Settling`), each a step of its
own that can be the last before a death or can throw where the code can. A
bridge starts with `Boot`, then recovers receipts, then restores the newest
cycle. The files are receipt, decision, artifact, ProofPack, KPI, spend and the
cycles. Two places where the code throws on a name that is not yet, or no
longer, in scope (`growthCycleIdForTask`, `jsonl-bridge.mjs:2672` and `:2963`)
are modelled as what then really happens, which is that the rest of that handler
is skipped. `TrustAfter` is the number of accepted deliveries after which one is
accepted without asking, `Cap` the budget in tasks. Ghosts: the cycle a task was
bound to, the cycle whose goal it was given, and what was written to a client.

**DreamController.** Memory is a set of facts and is its own hash; a Dream's id
is what it was made of (base memory and reflections), so generating it again
meets the same files. Each durable write is a step: candidate, diff and
validation reports, approval, activation receipt, archive, stale mark on the
certificate, swap, job. The swap holds the memory's lock; tasks learn and
reflections change at any moment, the lock apart. Certification is two steps
(`CertifyBegins` reads memory, `Certify` makes the credential of what was read
the latest), with anything in between.

**TeamLifecycle.** The three writers differ in what they read (`WebReads`,
`NodeReads`, the command line's `Option`), in the ids they give (by UUID or by
second), and in what they write back. A read-modify-write inside the owner lock
is one step. The purge keeps the lock over its four deletions, which are four
steps; the handlers of the website exclude one another (`Sync`); a hire of the
command line reads the roster before it installs and writes it afterwards.
Offboarding is prepare → memory pack → handoff → fire → activity → purge →
receipt, where each may fail and is retried from its directory.

**ToolPolicy** is the decision on one call: the needs of the manifest merged per
runtime tool, granted or not, bound by active skills, matched against leases.
`Needs` are the needs `validateEmployeeToolNeeds` lets through (`WellFormed`): a
disabled need is disabled in both fields, a non_default one asks for
authorization.
**AgentLoop** asks a model that may answer anything, and runs a batch through
plan, counters, policy, the user's word, a time limit and a guarded write (the
version that was shown is compared with the file's). `log` is a ghost row per
call: when its effect began, what the user said, how many terminal events it
got. Whether a finished call is reported as blocked is read off the *text* of
its result (`run.mjs:3784-3789`), so a tool that returns text from outside
(`Relays`: files, listings, pages, an MCP server's answer) may be reported
either way after its effect; the other tools return the loop's own words
(`Reported`). There is one tool of every kind the loop treats differently, not one per
tool of the catalog. `Signal` (a cancel) may come at every await.

**WorkbenchClient.** The Rust client reduces events from one pipe and writes
lines to the other; each pipe is a queue without loss. The engine is `Workbench`
and `AgentLoop` seen from there: a turn, at most one request, a held delivery, a
queue of messages. A message is a task in plain words: slash commands, bare yes
and no, digits in text, attachments, a budget's refusal and automatic acceptance
are left out, as are exit and teardown. A session of the client has the request
it shows, whether it is busy, and whether it is closed. Ghosts: what was on the
screen when a key was pressed, and what an answer settled.

## 4. Runs

| run | question | bounds, and why they are enough |
|---|---|---|
| `settlement_core` | Is acceptance a transaction, does it implement the contract, is a decided accept completed? | Two sessions (one to overtake the other), one run, two lessons (a partial batch), two deaths (one in the first session and one in its recovery), one failed write, any number of restarts, deliverable unchanged. 107 439 states |
| `settlement_two` | Does memory stay right across runs, and what can undo an accept when the deliverable changes? | Two of three runs, overlapping lessons: duplicates, a lesson learnt by another run, two receipts at once; one failed write, one deliverable that is edited or deleted at any moment. Sessions symmetric. 973 099 |
| `lock` | Is there a way other than the three windows in which the lock fails to exclude, and is an abandoned lock reclaimed? | Two processes, two inodes (one for the file a process holds open or watches, one for the next), one death, two failed writes or removals, all windows open. Both processes reclaim one lock when a failed write leaves it without a record. Each of the three windows breaks the lock already with these (section 7). Any number of processes is what `Exclusion` proves. 767 thousand |
| `reader` | Does each answer act on its own request, and does the run end with its input? | Two calls, one limited (an answer can meet the request after the one it was given to), three lines of any kind. 187 951 |
| `workbench` | Do held deliverable, ledgers and cycle agree, and is a verdict booked after a restart? | One bridge. Kinds of trouble: none, with two tasks and a Dream (queue, revision, cycle); a death with two tasks; a death and a failed write in a growth task; a death, a failed write and an edit. 152 333 |
| `dream` | Is memory swapped only for what was approved, and is a swap finished? | Five kinds of life: a death and a lesson; a death, a certificate and a second pass; a failed write, a certificate and a second pass; a second Dream of the same memory; two workbenches. 161 220 |
| `team` | Can three programs share one roster? | Two users of the website with a death and a failed write; website and command line; two command lines, with ids that share a second or do not. 120 070 |
| `agent_turn` | Does an effect only begin on a word that covers it and a state that is current, and does every call end once? | Two manifests that differ in every field of a need, one of them with a free and a non_default need behind one tool; six bounds on turns, calls, cancels, time limits, edits, revocations and the calls on offer, together all tools and all pairs of troubles that meet in one call. 686 thousand |
| `client` | Does the screen catch up, does a key settle only what it was pressed for, does busy end? | Two tasks, two requests, two messages, one trouble (time limit or ledger failure); the pipe to the engine holds two lines, the other is unbounded. 494 557; three requests (1.39 million states) show nothing else |
| `team_roster`, `agent_lease`, `client_plan` | counterexamples, section 7 | smallest that show them |

The bounds are constants or the record `left`, drawn from the constant
`Budgets`, whose values are named in the MC modules; every bound is a guard of
the action it limits. Where a budget is a *set* of budgets, each behaviour draws
one: troubles are combined where they can meet, instead of all with all.
Deadlock is checked where the system never stops. `reader`, `team`,
`team_roster` and `agent_turn` say `CHECK_DEADLOCK FALSE`: a session that ended,
a roster nobody asks about any more and an agent whose user asks nothing really
stop. `FindBlocked` also ends a session when the run ids of the model are used
up, which only stands for the end of the model.

What the deeper properties mean:

- *Settlement.* `AcceptedIsBacked`: an accepted workbench run has a decision
  receipt that froze it as delivered with uncommitted candidates, references
  exactly that decision, and its artifact is marked. `LearnedOnlyFromAccepted`,
  `CommittedIsLearned`: memory and TaskRuns agree in both directions (a changed
  deliverable may lose `accepted` after its lessons were stored, and the first
  property says so). `VerdictsAgree`: two sessions with one receipt never
  announce opposite verdicts. `UnfinishedAcceptKeepsReceipt`: whatever dies or
  fails, the next session finds the accept it has to complete.
  `OnlyLateSavesUndo`: in the code as it is, an accepted run can lose its status
  (section 7), but only to one of three saves made outside the lock (`LateSave`):
  the creator's two after the receipt is there, and that of a recovery which met
  a changed deliverable before it asked for the lock. Everything done under the
  lock, on whatever stale copy it began, respects an accept. `ImplementsContract`: the protocol refines
  `AcceptanceContract`, the outcome of a run being computed from its status and
  its decision.
- *Lock.* `OnlyWindowsBreakExclusion`: as long as none of the three gaps has been
  used, no two processes are inside together, and who is inside finds its own
  record at the path. `MutualExclusion` by itself does not hold (section 7).
- *Reader.* `RunsWhatWasAllowed`: no answer is taken for another one's. That an
  accept is always an explicit answer to its own request is proved only
  (`AcceptIsExplicit`).
- *Workbench.* `HeldIsRecoverable` and `DecidedIsSettled` are the two halves of
  crash recovery: before the verdict there is a receipt to offer the deliverable
  from, after it the ledgers are brought up to it or the deliverable is offered
  again. `OneVerdict` and `CycleAgreesWithLedger` compare three files that are
  written one after the other and what the client was told. `CancelEnds` is
  about the drain, the ledger failure and the question, at each of which a
  cancel can arrive.
- *Dream.* `ActiveIsApproved` holds against a Dream generated anew under the
  same id after its approval. `RollbackStaysPossible` says what may take the job
  of the Dream in memory out of the states rollback accepts, as long as one
  workbench is at work: the end of a rollback, and the generation of the very
  same Dream (section 7). `NothingLost` says of every write to memory that
  it adds, or replaces exactly the memory a Dream was made of.
- *Team.* `OneActive`: the active records, if there are several, are of one
  employment (section 7 says how there can be several). `FiredIsExported` and `PurgeSparesActive` relate an offboarding to a
  roster that somebody else may have changed since it began.
  `TrialLedgersAgree`: a retried verdict never books a second outcome.
- *Agent.* `EffectIsCurrent`: no effect on a version the user was not shown, or
  under a plan that is not approved (`approved` as the code keeps it: a plan
  extended later is still approved, section 7). `LeaseIsTheUsers`: a lease only
  answers for a call that the user's word for an earlier one covers, not revoked
  when the call is matched, and an effect begins on a lease only after such an
  answer. Between match and effect lies the drain of the paced events; that a
  revocation also counts then is `RevokedAtOnce`, which `agent_lease` refutes.
  `OneEndPerCall`: a call is reported once, before the loop goes on, and is not
  reported blocked after it had an effect, unless its tool relays text from
  outside. `CallsStayWithinLimit` counts by need,
  not by tool.
- *Client.* `RequestIsShown` and `ShownIsWaited` compare screen and engine once
  the pipes have been read. Their exception `Leftover` is what section 7 says of
  requests that stay on the screen; `LateAnswer`, the exception of `BusyIsTrue`
  and `BusyEnds`, is the message lost behind an abandoned question.

Every property of a passing run has a mutant of the mapped code that breaks it
(`PROJECT.json`, "mutants"): a stale copy settled, a shared lock, a stale lock
reclaimed from a live owner, a receipt removed too early, a swap without the base compared, a purge
without the employment checked, a lease that outlives its call, an answer that
names whatever is asked, and so on.

## 5. Fairness

- *Settlement.* `WF(Run(p))`: a process that is not killed executes its next
  step. `WF(Start(p))`: the task is run again, by the user or by the workbench
  opening, so `DecidedIsCompleted` is a promise to a user who comes back.
  Answers are not fair. `SF(Reclaim)`: a waiter meets a stale lock on *every*
  attempt and removes it before it looks at its own ten-second deadline, so
  although each waiter may leave, the lock cannot survive infinitely many;
  `lock` establishes this from weak fairness of the single steps.
- *Lock.* Weak fairness of each live process's steps, of asking again, of time.
- *Reader.* `WF(Runtime)` is the event loop, `WF(Expire)` a timer. The client,
  the end of the input and a failing agent loop are not fair.
- *Workbench, Dream.* `WF(Handler)`, the event loop, and `WF(Boot)`: who was
  down is started again. No client ever has to send anything, no task to learn,
  no certifier to run.
- *Agent.* `WF(WindDown)` only: once cancelled, the model's stream ends, the
  batch is cut, a lease answers, and the grace period passes. No tool has to
  react and no user to speak; `CancelEndsTurn` needs neither.
- *Client.* `WF` of the engine's reading, of taking from its queue, of the
  client's reducer, and of the turn, which ends unless it waits. No key is ever
  fair: `BusyEnds` promises "free, or waiting for an answer".
- *Team.* The properties its run checks are safety. The fairness of `FairSpec`
  (handlers run on; a verdict that was answered with an error is given again)
  adds nothing to them.

## 6. Proofs

Checked by TLAPS for all values of the constants that satisfy the ASSUMEs of the
modules (finite or not; any number of sessions, deaths, faults, tasks).

**TaskSettlement_proofs.** `Typing` proves `Typed`, that is `TypeOK` and
`DecisionHeld`: type correctness is not inductive alone, because `Settle`,
`Pack` and `Accept` read the decision's fields; one needs to know that a session
past *decide* has one. `TypeCorrect` follows.
`Backing` proves `Typed /\ BackedInv`. `AcceptedIsBacked` speaks of the disk,
but a session saves the copy in its memory, so the invariant is stated for both
(`RunsBacked`, `OwnBacked`); `MarkedFirst` says why the accept step may claim
the mark, `FrozenDelivered` that decisions only ever freeze delivered runs, and
`EmptyHanded` that a searching session holds no copy of another run. It rests on
`Accumulates`: decisions and marks are never withdrawn, by any step of any
session. Lemma `BackedStep` reduces a step to what its session wrote,
`QuietStep` disposes of the steps that write neither. It needs no mutual
exclusion: `AcceptedIsBacked` (theorem `AcceptanceBacked`) holds even in the
interleavings in which `AcceptedIsFinal` fails.
`CommitsAreComplete` proves `CommittedIsLearned` through `MemoryInv`: what a
session still has to add, plus what it recorded as done, covers the candidates
(`LearnProgress`), unless a write failed.
What does need the lock is `VerdictInv`, under the assumption `PromptCreator`: a
run has one writer at a time. `Sole` says a creator is alone with its run until
its receipt is noted; `Makes` that what it has in memory is what it saved, if
anything; `Locks` that whoever settles holds the lock and the copy on disk, and
that a refusal met no decision; `Stands` what each control point says of the
copy; `Keeps` and `Tells` relate the files to each other and to what was
announced. One other writer remains, the session that finds the deliverable
changed and fails the run without the lock (`Rogue`): the invariant admits it
for the runs in `Volatile`, and there `Same` allows the disk to say failed.
`OthersKnow` is the non-interference lemma: what a step of one session leaves of
what the others know. `SilentStep` disposes of the steps that write no run,
receipt or decision; `OwnRun` serves the eleven that do. It gives `VerdictsHold`
(`VerdictsAgree`, for the runs whose deliverable stays). `Taught` adds that the
run behind each lesson is still accepted, or failed for a changed deliverable,
and that no session is about to write an older copy of it (`Sound`):
`LessonsAreAccepted` (`LearnedOnlyFromAccepted`).
`ReceiptInv` says what an accepted run keeps beside it, for workbench runs whose
deliverable stays (`Furnished`: the receipt until memory is committed, and the
ProofPack of its own decision) and what a session relies on to keep it so
(`Relies`: a delivered run under settlement has its receipt, past *pack* the
ProofPack is the decision's, and the receipt goes only with committed memory).
Those files are not bound to the run by one write, so the argument is again that
of one writer: `HolderReads` takes from `VerdictInv` that whoever settles holds
the lock and the copy on disk, `OthersRely` that nobody else touches what it
relies on. It gives `AcceptsAreResumable` (`UnfinishedAcceptKeepsReceipt`: the
next session always finds the accept it has to complete) and `PacksAreKept`
(`AcceptedKeepsPack`). With `Volatile = {}`, every
step turns at most one run, and only as the contract allows (`Turns`,
`Turning`, `StepsOfContract`), so `ContractHolds` proves `ImplementsContract`.
These assumptions are a restriction: the code does not keep the contract without
them (section 7).
What it keeps without them is `OnlyLateSaves` (`OnlyLateSavesUndo`), which
assumes nothing of the creator or the deliverable. Its invariant `UndoInv` is
weaker than `VerdictInv` and holds everywhere: a run has one writer until its
receipt exists (`Private`); a lock is held for the run at hand by a session that
asked for it (`Holder`); who writes under the lock knows whether the run was
accepted, and who closes a run holds its lock and knows that it was not, or
holds none and fails it (`Aware`); `Poised` is what the control point says of
the copy. `OthersAware` is the non-interference lemma: a run becomes accepted
only through its creator or the holder of its lock, who is not a second one. In
all settlement theorems the lock is taken to be without its own windows.

**StateLock_proofs.** `Exclusion` proves `OnlyWindowsBreakExclusion`, with no
assumption on timing or file system. The invariant is claimed while no window
was hit: the path holds the file of the one creator, its record names it once it
is inside, an unrecorded file is young, and a file a waiter suspects is, if it
is still the same inode, old and without a live owner. None of the three windows
can be left out of the property, see section 7.

**ApprovalReader_proofs.** `Invariance` proves `Inv`: requests are made once and
in order (`AskedOnce`), whoever waits was announced, and the delivery only in
the last phase with the deliverable present (`PendingIsAsked`), lines in the
pipe name the request they were given to (`LinesAreFaithful`), a positive result
for the delivery is explicit (`VerdictIsExplicit`), a closed reader has nobody
waiting. It gives `ReaderTypes`, `Explicitness` (`AcceptIsExplicit`,
`DeletedIsNotAccepted`, `ClosedLeavesNobody`) and `LateAllow`. `OwnAnswers`
proves `RunsWhatWasAllowed`: with `OwnAnswer` and `OwnRun`, an answer on its way
and the answer a call ran on were given to that call, except through the two
gaps of the protocol, a bare line and two requests with one id. None of these
theorems assumes anything of the client.

**Workbench_proofs.** For one bridge (`Bridges = {b}`: two on one workspace can
flip a verdict, section 7), and any set of tasks and Dreams and any budget of
failed writes, deaths and edits. `BoundsAssumption` says budgets are sets of
natural numbers, `NoneAssumption` that "no cycle" is not a cycle. One invariant
`Inv` carries the theorems. `Typed` has the types, those of whole cycles and of
the events a client was told. `Ledger` relates, for each task, receipt,
decision, outcome, spend, ProofPack and what was told: what was told is booked,
an outcome agrees with the decision, and a receipt that outlives an outcome has
its decision next to it. `Works` says what the bridge knows of the task it runs,
`Holds` of the deliverable it holds, `Settles` of the one it settles, control
point by control point in the order decide, pack, KPI, spend, announce, and
`Agrees` that a cycle with a verdict has that of its task. A death is the least
of it (`DieStep`): everything but `Ledger` and `Agrees` is about the memory of a
live process, and these two are about files. The work is in the error paths
(`JudgeStep`, `HoldRests`, `RecheckStep`) and in the replay of a decision that
was already made (`DecideStep`, `KpiStep`). `AcceptedHasBacking`,
`VerdictsAreOne`, `CyclesAgree` and `HeldHasReceipt` (`AcceptedIsBacked`,
`OneVerdict`, `CycleAgreesWithLedger`, `HeldIsRecoverable`) and `TypesHold` (the
`TypeOK` of the module) follow. `Visible`, that what the client sees as running
is a task, serves the exit alone.

**WorkbenchClient_proofs.** `KeysSettleWhatTheyShow` proves `SettledWasShown`.
The property is not inductive: an answer is written long before it settles
anything. The strengthening is `LinesWerePressed`, that every line in the pipe
to the engine names a request that was on the screen when the key was pressed,
or none. `Pressing` and `Writing` show it of a key, `Reading` and `Reads` of the
engine's end of the pipe, where an answer settles at most what it names; no
other step writes a line or settles. What the client draws and when plays no
part, so the theorem covers the left-over requests of section 7 too.

The three properties of the screen need the opposite direction. They speak of
the moment when the pipes have been read; before it, the screen lags behind the
engine by the events in the pipe, and no invariant relates the two directly.
What can be compared with the engine is the screen the client *will* have when
it has read them all. That is a recursion over the pipe, on which nothing can be
proved here; so the invariant says instead that a path of screens *exists*, one
screen for each event, each made from the one before it by the reducer
(`Path`, `Tells`). It exists at the start (`NothingTold`), grows at its end when
the engine speaks (`Saying`), loses its first screen when the client reads
(`Hearing`) and survives a new request (`Asking`): no induction is needed. Of
its last screen `Fits` says that it agrees with the engine: closed exactly for
the tasks that are not active, not busy once closed, showing a request of its
own task that is open, held or a leftover, and the open or held one unless the
property's exceptions apply. `Unseen` says the delivery of a cancelled task is
on no screen of the path, so that no key can name it, which is why a settled
delivery always ends a task still active (this is where `LinesWerePressed` comes
in again). `Busying` says what will take back the mark of a submission: a
message on its way, a turn, a question, or an event on the path that will be
heeded. `Knows` has what engine and client know by themselves. `Told`, the
conjunction, is proved of every action; when the pipe is empty its last screen
is the client's (`NowIsToCome`), which gives `RequestsAreShown`,
`ShownAreWaited`, `BusyHolds` (`RequestIsShown`, `ShownIsWaited`, `BusyIsTrue`)
and `TypesHold` (the `TypeOK` of the module). TLC checked the invariant on the instance of `client`, with the path
computed by a recursive function.

**DreamController_proofs.** `TypeCorrect` proves `Typed`: the types, that a
session at work works on a Dream (`Named`), and that no two sessions write the
reports of one Dream (`OneReporter`). `Backed` adds what an
activation has behind it at each of its steps: the lock has one holder and only
who is past *lock* has it (`Holder`); a receipt rests on an approval of complete
files and on an archived base (`ReceiptsBacked`); whoever is on the way to a
swap has that receipt, or is on the way back from one (`WorkBacked`); at the
swap itself memory is the memory that was compared under the lock, and the
certificate of it has lapsed (`Swapping`);
and the Dream memory comes from has an activation receipt (`OriginBacked`). It
rests on `Lasting`: approvals, complete files, the archive and receipts are
never withdrawn. It gives `ApprovedOnly` (`ActiveIsApproved`) and `NothingIsLost`
(`NothingLost`) and `CertificateIsCurrent` (`CertificateFollowsMemory`), for any
number of workbenches and deaths.
`RollbackPossible` (`RollbackStaysPossible`) has an invariant of its own,
`Marked`, for the case of one workbench: what the job of the Dream in work says
at each step of the only session awake.

**TeamLifecycle_proofs.** The invariant `TeamInv` has four layers. *Sound*:
types, what each process is at work on (`Targets`), what its deletions add up to
(`Counted`), the website's handlers one at a time (`OneSync`), one process per
offboarding (`SoleOff`). *Books*: the lock is held by whoever is between purge
and receipt (`LockHeld`), an offboarding that got as far as the fire has its
pack and handoff on disk (`Prepared`, `FiredExported`), a receipt says what was
done. *Roster*: at most one employment is active, none while a purge has the
lock (`NobodyHired`), and a fired record has a fired offboarding behind it
(`FiredBacked`). *Ledgers*: the verdict a request is about to book is the one
saved on the trial (`Decided`), and the books agree. It gives `OneEmployment`,
`EmploymentsAreExported`, `ReceiptsAreTrue` and `LedgersAgree` (`OneActive`,
`FiredIsExported`, `ReceiptIsTrue`, `TrialLedgersAgree`) and the action
properties `PurgeSpares` (`PurgeSparesActive`) and `HiresWereAccepted`
(`HiredWasAccepted`). The lemmas about the roster's readers and writers
(`RustKeeps`, `WebKeeps`, `ChangeIs`, `FirstIs`, `RosterStep`) say what each
program makes of a roster, whatever was in it at the start.

**AgentLoop_proofs.** The first part is about the policy as a function, with
`PathAssumption` and `ManifestAssumption` (the needs are well-formed) as only
hypotheses. `Merging`: the merge of the needs behind a tool is disabled, asks or
restricts to reading as soon as the needs say so. `Obeyed`: what the gateway
does not refuse has a granted need that covers it, and is put to the user where
a need or the platform asks for it. `Budgeted`: the limit it draws on is that of
the capability the property counts, and no higher. The second part is the
invariant. `Numbered` and `Made` identify a call with its row of the log and say
when it has been reported, which gives `CallsEndOnce` (`OneEndPerCall`, which
says nothing of "blocked" for the tools in `Relays`).
`Serving` says of the call in hand that it was let through and that its word is
still needed, from which follows what holds when an effect begins (`BeginStep`),
hence `EffectsAreCurrent` (`EffectIsCurrent`) and, with `Decided` and `Obeyed`,
`ManifestsHold` (`ManifestIsObeyed`). `Granted` says of every lease which word
of the user it came from: `LeasesAreTheUsers` (`LeaseIsTheUsers`, at the moment
the lease is matched). `Metered`
compares the counters of the turn with the calls taken: `LimitsHold`
(`CallsStayWithinLimit`). That the needs are well-formed is used: without it a
non_default need with the permission "write" would lose its question in the
merge, and the validation of the manifest is what rules it out.

Each of the inductive invariants was also checked by TLC on the instance of its
run, or one with larger bounds, before it was proved.

**Only model-checked.** Liveness (`DecidedIsCompleted`, `DeadLockIsReclaimed`,
`InputEndFinishes`, `CancelEnds`, `DecidedIsSettled`,
`InterruptedActivationFinishes`, `CancelEndsTurn`, `BusyEnds`), since fairness
and ENABLED are beyond the prover. Every invariant and every action property
that a passing run checks is proved. No module uses RECURSIVE or induction over
data.

## 7. Disagreements and observations

### Counterexamples kept as runs

`agent_lease`: a call goes ahead on a lease the user has revoked. The bridge
matches the lease, waits for the paced events of the call, and then looks only
at `generationActive` (`jsonl-bridge.mjs:1613-1649`); `/permissions clear`
(`:2563`) may have emptied the leases meanwhile. `docs/prd_v0.20.md:459` says
that it revokes all of them at once.

`team_roster`: one hire from the command line after which the roster cannot be
read by offboarding. `hire_source` is an `Option` without
`skip_serializing_if` (`crates/crewclaw-cli/src/team.rs:21`), so an old record
comes back with `null`; the record's schema (`contracts/team.ts:16-17,32`) and
`offboarding.mjs:124-125` take a string or nothing. `local-team.ts:86-87` knows
of the null and tolerates it.

`client_plan`: the review of a plan stays on the screen after it was answered
(`state.rs:3350`; the comment at `:3294` says either kind is accepted). It takes
every key but Ctrl-C, and later requests of the task are ignored.

### Stated in the modules, violated, in no run

Each of these is a definition of its module. To see the counterexample, name it
in the cfg given here, with the constants changed as said.

| property | cfg | what the code does | what is said of it |
|---|---|---|---|
| `RunsTheApprovedGoal` (`Workbench`) | `Workbench.cfg`, `Budgets <- Calm` | the queued cycle is a variable that outlives a cancelled or blocked task, and the next message runs under it (`jsonl-bridge.mjs:2723`) | `jsonl-bridge.mjs:752`, the approved goal enters the task pipeline |
| `BlockedIsNotCompleted` (`Workbench`) | the same | cancel while blocked, then the router returns: `task.completed` after `task.blocked` | the comment at `jsonl-bridge.mjs:2893-2894` forbids it |
| `FailureFailsCycle` (`Workbench`) | the same | the catch of a failed task names `growthCycleIdForTask`, declared in the `try`: it throws, and the cycle stays RUNNING (`:2963`); after a death in RUNNING recovery looks for a TaskRun the bridge never saves (`:843`) | `docs/product-lifecycle-closure.md:43` |
| `SelectionIsFrozen` (`TeamLifecycle`) | `Team.cfg` | a command-line hire that began when nobody was active replaces the selection the website made meanwhile | `main.rs:605-606` |
| `RefusedIsBlocked` (`AgentLoop`) | `AgentTurn.cfg`, `Budgets <- Short` | reads, fetches and `mcp_call` that were refused are reported as succeeded (`run.mjs:3784`, `:2941`) | the comment at `run.mjs:3783`, "a denied/refused/skipped call shows as 'not confirmed'" |
| `AcceptedIsFinal` (`TaskSettlement`) | `SettlementCore.cfg`, `PromptCreator = FALSE` | the creator saves its delivered copy after the receipt is visible and outside the lock (`run.mjs:6433`) | `task-mode-approval.test.mjs:1194` "a stale delivered snapshot cannot overwrite the accepted winner" |
| the same | `SettlementCore.cfg`, `Volatile = {r1}` | recovery fails a run whose deliverable changed on the copy it loaded, outside the lock (`run.mjs:5653`) | `docs/prd_v0.18.md:113`, a settlement lock across processes |
| `ClosedReleasesTask` (`TaskSettlement`) | `SettlementCore.cfg` | a refused run is saved before its receipt is removed; a death in between leaves a receipt that every later session refuses (`run.mjs:5241`) | `docs/prd_v0.18.md:114`, crash recovery is idempotent |
| `MutualExclusion` (`StateLock`) | `Lock.cfg`, with the constraint `windows \subseteq {"record"}` | a lock whose owner record is not there yet counts as dead once its mtime is thirty seconds old (`state-lock.mjs:353`): a creator suspended between `openSync` and its record (`:324-326`) loses the path to a waiter and then enters as well | `state-lock.mjs:297-299`, "the single atomic arbitration point" |
| the same | the constraint `windows \subseteq {"unlink"}` | inode check and unlink are two calls: the slower of two reclaimers removes the new lock (`state-lock.mjs:136`) | the same |
| the same | the constraint `windows \subseteq {"inode"}` | a waiter that read no token (`:355`) takes a new lock file with the old one's inode for the stale one | the same |
| `LeftLockIsRecovered` (`StateLock`) | `Lock.cfg` | a live process whose unlink failed blocks the lock until it dies | `state-lock.mjs:383` "stale cleanup will recover" |
| `BareNoIsHeard` (`ApprovalReader`) | `Reader.cfg` | an approval abandoned by its time limit keeps a bare "no" from reaching the deliverable | `run.mjs:4473-4475` |

`settlement_core` and `settlement_two` exclude the first window by
`PromptCreator` (nobody finds a receipt between its creation and the creator's
next save); `settlement_two` has the second one open. With the first one open as
well, `AcceptedIsBacked` and `OnlyLateSavesUndo` are proved, and TLC confirms
them outside the runs (`SettlementCore.cfg` with `PromptCreator = FALSE`,
`Volatile = {r1}`, one death and these two properties). All settlement runs take
the lock to be without its windows.

Other properties are stated and hold but are in no run. Proved are
`AcceptedKeepsPack` (under the assumptions above), `AcceptIsExplicit`,
`HiredWasAccepted`, `ClosedLeavesNobody`, `DeletedIsNotAccepted`, `LateAllowRunsNothing`, and the
`TypeOK` of the modules but `TaskSettlement`, whose run checks it (of `StateLock`
inside the invariant of `Exclusion`). Only checked by TLC, outside the runs, are `LimitFrees` and `HeldIsNotReplaced`.

### Observed in reading, not the subject of a property

*Settlement.* Two receipts for one task (two sessions that both searched before
either wrote) make recovery ambiguous: every later session stops until one is
removed by hand; the code says so to the user and promises nothing else. The
deliverable is fingerprinted after the Dream review was awaited
(`run.mjs:6358`), so an edit made meanwhile counts as delivered.

*Bridge.* A refusal followed by a death can lose the revision that
`product-lifecycle-closure.md:69-72` announces. After a failed settlement the
queue is not scheduled. A recheck on replay after an edit deletes the ProofPack
of an accepted task. `correctlyBlocked` and a close while a question is open
leave the cycle RUNNING; `/exit` with a held deliverable leaves it waiting. A
failed unlink and a death leave two receipts. KPI written, spend failed, then an
edit: the task is rejected although its KPI says accepted. A blocked preflight
is always also reported rejected (`:2672`). LEARNED is stamped one millisecond
ahead and can hide the revision that follows it (`growth-cycle.mjs:427`). Two
bridges on one workspace can flip a verdict (`:3256`).

*Agent.* A cancel between the calls of a batch leaves calls without results in
the history the next turn sends, and `/clear` during a turn empties it; only
saved sessions are repaired. An approval abandoned at its time limit stays
`pendingConfirm` and takes the next lines; a late "for the session" still adds a
lease. A completed read, listing, page or MCP call whose text begins with one of
the loop's own refusal phrases is reported as blocked (`run.mjs:3784-3789`). A short or
approved plan that is extended to three steps and more is not shown again
(`run.mjs:3011`; `docs/prd_v0.20.md:98-102`). A tool that finishes within the
grace time is reported failed although its effect happened (`run.mjs:1485`).
Refused plans and failed writes are audited as success. `read_file` with two
capabilities counts reads and lists apart, up to twice the limit.

*Client.* A message typed while the engine waits is dropped there but stays
pending and is glued to the next task. With two queued messages the first task's
session gets the second text. A request whose time limit passed stays on screen:
later requests of its task are not shown, and if only a delivery follows,
answering the old one clears the screen and the delivery is never seen. A
`generation.cancel` names no task and can hit the queued task that started
meanwhile. A cancel during the drain leaves a held deliverable that is never
shown, because the task is closed. An unknown outcome in `task.completed` leaves
the modal. A question abandoned past the end of its task takes every message
until a bare yes or no, and the client looks busy meanwhile. When the user then
answers it at its own task, a message dropped behind it can leave
`submission_pending` set for good, because the resolution of a closed session,
or of a plan, is not heeded: the client says "working" although nothing runs
(found with three tasks, requests and messages; `LateAnswer`).

*Team.* The Rust `ActivityEntry` (`main.rs:141-145`) drops `offboarding_id` when
it rewrites the ledger. The check "employment changed" (`docs/prd_v0.20.md:479`)
misses a fire and hire within one second, which share an id. A running task
commits memory after a purge. A death between fire and purge cannot be retried.
The artifact is marked accepted before the run is saved, so a later reject
leaves an accepted artifact on a rejected run. `decideLocalTrial` does not look
at `run.trial`. Two servers could make KPI and reflection disagree. The
website's owner lock never reclaims an empty record. Two hires from the command
line within one second share their id (`team.rs:94-115`); the website's
synchronization (`local-team.ts:213-260`), which looks a record up by id, then
revives the one that was fired, and the roster has two active records of one
employment.

*Dream.* The certifier makes the credential of the memory it read at its start
the latest, whatever memory is by then (`late` in the model). Approving a job
that was rolled back or failed, with its old approval, activates it again. A
death between candidate and reports wedges that Dream's id; a death after the
reject receipt leaves it under review. Memory that changed leaves ACTIVATING and
ROLLING_BACK where they are, and a newer recommendation hides ACTIVATING from
recovery. With two workbenches a late generator turns an ACTIVE job into FAILED,
and rollback is refused. With one, the same can happen in a detour: an active
Dream drops a lesson, a task learns it again word for word (the memory hash does
not see when a lesson was saved, `memory-hash.mjs`), so that memory is what the
Dream was made of again; generating gives the same id, `generateDreamCandidate`
sets the ACTIVE job to DREAMING without looking (`dream-controller.mjs:1115`),
the second candidate is refused because one is there, and the job ends FAILED.
`RollbackStaysPossible` is stated for one workbench and excepts that step. A
rollback that finds memory equal to the base, and a receipt of an earlier
rollback, ends ROLLED_BACK without a swap.

*Evaluation, certification* (read, mostly not modelled). The subject's hash is
taken before the cases run, so an edit undone before the end is certified on
what never ran. An older or failed certification that ends later replaces the
latest. A death between the two key files (`certification.mjs:476-508`) refuses
every later certification after all its cases ran. `runCertification` grants no
capabilities in its smoke test, `runEval` does. A harness time limit after the
terminal event fails the run.

## 8. What is not modelled, and why

- *Data without protocol*: field validation, schemas, path containment, size
  limits, the output contract's grammar, dangerous shell text, private
  addresses, recommendation scores, amounts of money. They are conversions with
  unit tests of their own; where their result matters to control it is an
  attribute (a call is "outside", a deliverable "changed", a budget used up). A
  receipt that does not validate is one whose run or deliverable does not match.
- *Evaluation*: harness, judge, scores and signing are a sequential program over
  a task process; only its credential meets concurrent state, and is modelled.
- *Screens*: the drawing, panels, market and insight pages of the Rust client,
  and the web site (`HireConfirm`, `EmployeeDetail` and the other pages). They
  render state that is modelled where it lives, and keep none that outlives the
  page.
- *Packages*: validator, manifest, signature verification and download, the MCP
  client, database routes: validation and input/output.
- *Effects* of tools and of the language model: the model may answer anything, a
  tool may take any time and fail.
- Time in the settlement (`decisionAt >= createdAt`): refusing an accept on a
  clock set back is one of the refusals explored. pid reuse: a new process with
  a dead owner's pid keeps its lock alive.
- Actions of the reader that touch neither approvals nor the deliverable
  (preview, reveal, export); of the bridge that only forward (search, staffing
  and hire pages, connectors); of the client: slash commands, attachments,
  digits, teardown.
- Two bridges, and two servers, on one workspace, but for the two workbenches of
  `dream`: nothing in the code makes them safe, see section 7.

The map covers about an eighth of the implementation's lines, nearly all of what
keeps state between two steps of different actors. Most of the rest is the list
above.

## 9. Plan

All modules of the plan are written, and every invariant and action property
that a passing run checks is proved. What a next step would add:

1. The hazards that no property covers yet; `PROJECT.json` gives the reason for
   each. The transcript that a cancel leaves between two calls of a batch and the
   growth cycle that stays queued after a cancel come first.
2. The parts that section 8 lists as modelled in part or not at all.
