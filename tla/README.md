# A verification project for nipo-science

nipo-science is a local scientific workbench. A person states a research
intent, plans and approves one analysis, and the workbench runs it and keeps the
result as immutable, content-addressed evidence. What makes it worth trusting is
bookkeeping: that nothing executes without an approval, that an approval works
once, that evidence is never rewritten or lost, that an analysis which died half
way can be told from one that finished, and that whatever is handed out (a
review, an export pack, a streamed answer) is a true account of what was stored.
This directory holds TLA+ modules of that bookkeeping, the TLC runs that check
them, and proofs checked by TLAPS.

All paths below are relative to `src/`; `local/` stands for
`apps/local/nipo_local/`, `protocols/` for
`packages/contracts/python/science_workbench_contracts/protocols/`, and
`policy/` for `tools/platform_policy/`.

## Inventory

| Part | State it keeps | Operations | Correct when |
| --- | --- | --- | --- |
| Approval ledger (`local/store.py`) | tables `projects`, `sessions`, `action_plans`, `plan_approvals`, `runs`, `executions` | register and archive Projects; open, resume, archive Sessions; plan, approve; queue, start, finish a Run | an approval is spent once, by the Run it names, for what was approved; nothing closed is reopened |
| Artifact ledger (same file) | `artifacts`, `artifact_versions`, `execution_inputs`, `run_outputs`, `session_artifacts`, the blob directory | create an Artifact, commit a Version, record an input, append an output, attach to a Session, sweep | chains gapless, lineage well founded, rows never point at missing bytes |
| Turns, Reviews (same file, `reviewrun.py`) | `run_turns`, `reviews`, `review_findings` | record a turn; open, start, submit, fail a Review | one model per Run, one Review per evidence, findings drawn from what was pinned |
| Workbench (`local/workbench.py`) | a mirror file per execution; the rest is in the store | `run_analysis`, `correct_analysis` | a cut chain is never recorded as complete; generations never mix |
| Reviewer rules (`local/reviewer.py`) | none | RV01 to RV05 and the summary | a verdict `pass` is earned; damage never produces one |
| Artifact service (`services/api/artifacts/`) | recovery records, watcher outputs and claims, issued tokens, its blob tree | `create_version` with reconciliation, watcher register/claim/release/finalize, downloads, `put`, `discard` | one Version per reference; a token lives as long as granted; published bytes survive |
| Loopback API (`local/api.py`, `apiserver.py`, `apiquery.py`, `runsurface.py`) | token file, download capability, staging directory, in-flight requests, striped locks | the guard, the wire, the routes, start and close of servers | answered by what happened; nothing reached without a credential; a whole-looking response is whole |
| Model calls, providers (`local/modelcall.py`, `providers.py`) | credentials and settings files, the Keychain | one provider call per turn, four stream decoders; set and clear keys, choose models | what was cut is not called complete; acknowledged keys stay |
| Export (`local/exportrun.py`, `exportpack.py`) | pack directories, download records | assemble, write, list, delete, mint, serve | a pack is one moment of its Run, extracts, is served once per capability |
| Loaders (`local/loaders.py`) | none | probe checks in order | a refusal names a flaw of the file |
| Protocol contracts (`protocols/`) | attempts, effects, approvals, leases, restore and deletion streams | lease, heartbeat, effect, retry; decide, consume; restore, purge | an effect happens once; a consent is worth one execution; holds are honoured |
| Retention (`policy/retention.py`) | records, holds, deletion runs, grants, audit log | the operations of `RetentionStore` | nothing held is deleted; every access follows a live grant |
| CI publication (`policy/ci_runner.py`, `ci_contract.py`) | generations, `latest`, sealed attempts, the remote authority | `run_ci`, publication, loading | a reader loads the evidence of the current run |
| Schemas, science kernels, web UI, static policy tools | none that outlives a call | validation, computation, rendering, inspection | (not modelled) |

How they interact. The API calls the workbench; the workbench drives the store
(one transaction per call) and the artifact service; the service commits to the
same store through its `ArtifactStore` contract and keeps its own recovery
record beside it. Reviews, exports and the reading routes read the store in
several transactions while others write. Several threads of one server, several
processes on one database, and a person with the store's API may all be active:
the only synchronisation is SQLite's write lock, the recovery authority's file
lock, `O_EXCL` on files, and locks inside one process. The contracts and the
policy tools stand apart from the product and from each other.

What is hard here:

* transactions are small and an operation of the product is a dozen of them, so a
  crash, an I/O error, an archival or a rival call fits between any two;
* records have to agree that no write covers together: rows and mirror, store and
  recovery record, blob and row, credentials and master key, `latest` and anchor;
* a commit, a replacement or a remote call may fail after taking effect, and the
  caller has to find out which;
* things are checked long before they are used: approvals, pins, leases, holds,
  evidence, clocks;
* locks belong to a process, files and rows to everybody;
* bytes reach the disk, and the client, later than the code that wrote them.

`PROJECT.json` lists each of these at its line under `hazards`, with the
properties that would catch it going wrong.

## Modules

Each module states one part at the grain its question needs. The local store is
the exception: `ArtifactLedger` extends `RunLedger`, since the guards of one half
read the tables of the other, and `ApiRoutes` extends `RunLedger` too, so the
routes drive the very transactions the ledger defines.

| Module | Models | Suite |
| --- | --- | --- |
| `RunLedger` | approval half of the store | `MCRunLedger` |
| `ArtifactLedger` | artifact half of the store | `MCArtifactLedger` |
| `WorkbenchChain` | one analysis or correction as a process | `MCWorkbenchChain`, `MCProgress` |
| `CommitOnce`, `ArtifactCommit` | abstract promise of `create_version`; `create_version` | `MCService` |
| `SignedDownloads` | issue and redemption of download tokens | `MCService` |
| `UploadStaging` | measurement intake and the loaders' checks | `MCService` |
| `BlobDurability` | both blob trees over a disk that may lose power | `MCService` |
| `ReviewerRules` | RV01 to RV05 and the summary verdict | `MCReviews` |
| `ReviewLifecycle` | the review rows and their driver | `MCReviews`, `MCProgress` |
| `ArtifactReading` | readers that use several statements | `MCReviews` |
| `TurnRoute` | the turn route, its one provider call, the pin | `MCProviders`, `MCProgress` |
| `ModelStream` | line, event and document decoding of an answer | `MCProviders` |
| `ProviderRegistry` | the credentials and settings files | `MCProviders` |
| `ApiRoutes` | the writing routes over `RunLedger` | `MCRunLedger`, `MCProgress` |
| `LocalGuard` | what a request must carry | `MCSurface` |
| `ResponseWire` | one connection and its framing | `MCSurface` |
| `ServerLifecycle` | servers and the one token file | `MCSurface` |
| `PackNamespace` | the paths of a pack | `MCSurface` |
| `PackAssembly` | assembling a pack while its Run goes on | `MCSurface` |
| `PackDelivery` | packs on disk and their capabilities | `MCSurface` |
| `AttemptLease` | leased, fenced, retried attempts | `MCGovernance` |
| `ApprovalTokens` | approvals and executions of the contracts | `MCGovernance` |
| `RestoreGovernance` | restores, tombstones, holds, purges | `MCGovernance` |
| `RetentionStore` | expiry and deletion runs | `MCGovernance` |
| `BreakGlass` | emergency grants and the audit log | `MCGovernance` |
| `CiPublication` | CI invocations, publication and readers | `MCGovernance`, `MCProgress` |
| `LedgerProofs` | theorems about `RunLedger`, `ArtifactLedger`, `ApiRoutes` | |
| `WorkbenchChainProofs` | theorems about `WorkbenchChain` | |
| `ReviewLifecycleProofs` | theorems about `ReviewLifecycle`, `ArtifactReading`, `ReviewerRules` | |
| `ServiceProofs` | theorems about `ArtifactCommit`, `SignedDownloads`, `UploadStaging`, `BlobDurability` | |
| `ProviderProofs` | theorems about `TurnRoute`, `ProviderRegistry`, `ModelStream` | |
| `ProtocolProofs` | theorems about `AttemptLease`, `ApprovalTokens`, `RestoreGovernance` | |
| `RetentionProofs` | theorems about `RetentionStore`, `BreakGlass`, `CiPublication` | |
| `SurfaceProofs` | theorems about `LocalGuard`, `ResponseWire`, `ServerLifecycle`, `PackNamespace`, `PackAssembly`, `PackDelivery` | |

A suite (`MC*`) instantiates several modules, or one module in several sizes, and
explores them in one run: a variable `part`, chosen at the start and never
changed, says which of them a behaviour moves; everything else keeps its initial
state. A property of a suite is the property of the part it names. A
module with theorems is extended by its suite, not instantiated, so the run
checks the very definition the theorem is about; that is why modules that share
a suite have names of their own for their initial states, steps and variables.

Several properties are conjunctions with a name: `ApprovalsAreSpentOnce`,
`LedgerNeverRewrites`, `EvidenceIsSound`, `RecoveryIsSound`, `RecordsAreTruthful`
and so on. Their conjuncts are definitions of the same module, each with its own
comment. Every property has one mutant, an operator beside the definition it
replaces that makes the mistake the property is there for; TLC finds the property
violated with it.

### Conventions

A table is a function from primary keys to rows whose domain is the set of
existing rows. A transaction that commits only on success is an atomic action and
its refusals are disabled actions, unless a caller tells refusals apart. Digests
and signatures are collision-free and unforgeable: a digest is what it is of, a
token is a member of the set of issued ones. There is one tenant per installation,
so `org_id` is left out. Processes have program counters named after the
statement they are at. A step that may fail is a step with two outcomes; a death
is an action that stops the process and leaves the disk.

### The store: `RunLedger`, `ArtifactLedger`

Every operation of `store.py` runs in one `BEGIN IMMEDIATE` transaction
(`_transact`) that commits only on its success outcome, so an operation is an
atomic action. Reads in the code are scoped to tenant and Project (`PlanFound`,
`RunFound`) while "taken" checks are scoped to the tenant, as the primary keys
are (`pl \notin DOMAIN plans`); the model keeps the difference. Timestamps are
what callers submit, so they need not increase.

| Action | Code |
| --- | --- |
| `CreateProject`, `ArchiveProject`, `ArchiveRegisteredProject` | `_create_project_locked`, `archive_project` (the upsert that may leave a bare marker), `_archive_project_locked` |
| `CreateSession`, `ResumeSession`, `ArchiveSession` | the `_..._session_locked` methods |
| `CreatePlan`, `GrantApproval` | `_create_plan_locked`, `_grant_approval_locked` |
| `CreateRun` | `_create_run_locked`; it does not look at consumption, so Runs may queue under a spent approval |
| `StartRun` | `_start_run_locked`, `_resolve_claim`, `_reject_claim`, `_claim_digests_agree`, `_apply_claim`: spend the approval, insert the execution, start the Run, in one commit |
| `FinishRun` | `_finish_run_locked` with `_terminal_sources`; not blocked by archival |
| `CreateArtifact`, `CommitVersion`, `RecordInput`, `AppendOutput`, `AttachSession` | the `_..._locked` methods of the evidence tables |
| `CommitVersionAborted`, `RecordInputAborted` | the same transactions cut after the file was published: an orphan stays |
| `Sweep` | `sweep_orphan_blobs`: any subset of the unreferenced files; which are older than the grace period, and where an `OSError` stops the scan, is left open |

`ArtifactLedger` extends `RunLedger`; its next-state relation interleaves both
halves. A blob is its digest. Row and file of a Version are one step there;
`BlobDurability` looks between them.

### Analyses: `WorkbenchChain`

Each call is a process whose program counter names the statement of `_execute`
it is at: queue, claim, open the mirror, persist inputs, then per output
publish, append the row, refresh the mirror, and at last complete the mirror and
the row. `RaisesTo` is the exception structure of `_execute`: inside the `try` a
failing step goes to `_mark_failed`, which suppresses a store error and goes on to
the mirror. A step may fail without effect (`StepFails`), a replacement or a
commit may take effect and still raise (`MirrorFlushFails`,
`PublishUnreported`), exclusive creation may leave an empty file (`OpenTorn`),
the Project may be archived, and the process may die. Outputs are positions;
`head` and `number` are what the compare-and-swap of `commit_version` compares; a
correction takes its base from the Run it corrects. `CancelRun` is the store
operation, which no part of the product calls today.

### The artifact service: `ArtifactCommit`, `SignedDownloads`, `BlobDurability`

`create_version` holds the service lock and the authority's lock throughout
(`FileRecoveryStorage.locked` ignores its argument: one lock for all references),
so at most one call is in progress and its program counter is one variable. Its
steps are those between which it can be cut: writing the intent, the store
commit, the reads of reconciliation, the final write or discard. The recovery
record of a reference is one file replaced atomically; `WriteUnreported` is a
replacement whose directory flush fails, `CommitFails` and `CommitUnreported` the
two meanings of `ArtifactCommitError`, `OtherCommit` another instance on the same
store. `CommitOnce` is what a caller is promised: a reference is committed at most
once and every answer names that Version.

`SignedDownloads` keeps the clock in microseconds, as `datetime` does, and the
expiry in whole milliseconds, as the token does; the lookup, the issue, the check
and the redemption are steps between which the clock may be set and the Project
archived.

`BlobDurability` keeps two views of the tree, what a process sees (`files`,
`dirs`) and what is on the disk (`diskFiles`, `diskDirs`); `FlushDirectory` and
`SyncDirectory` move entries from one to the other, and `PowerLoss` keeps any
subset of what was not flushed. A behaviour has one `design`, a record that
chooses `_publish_blob` or `publish_blob` with `open_blob_directory`, how deep the
tree is and how much of it was there before, who publishes, and the statements at
which a publication may fail or die. `Sheltered` says for which designs the
flushes suffice; `PublishedSurvive` claims durability for those only and whole
bytes for all.

### Uploads and loaders: `UploadStaging`

A request is its number of bytes and the set of its flaws. `_probe_upload`
stages, loads and wipes in one directory of its own per server; `LoadStagedProbe`
goes through the loaders' checks in their order and answers with the first one
that fails. Writes and wipes fail, the server is killed. `DecodedSize` is the
arithmetic that judges base64 text before it is decoded.

### Reviews and reading: `ReviewerRules`, `ReviewLifecycle`, `ArtifactReading`

`ReviewerRules` states RV01 to RV05 and the summary as operators over one
snapshot. Its actions plant defects in what the analysis chain publishes:
missing or tampered bytes, unreadable documents, outputs and ledgers that
misreport, overclaims, citations that do not resolve. `Verdict` is what
`evaluate` answers for the snapshot.

`ReviewLifecycle` runs several callers of the review route: each captures the
evidence twice (once to open, once to evaluate), each capture reads outputs and
execution in two statements, and open, start, submit and fail are transactions
with all their refusals. The Run goes on publishing, the store may fail, the
server may crash.

`ArtifactReading` models the readers that use several statements (histories of
Artifacts, Run surfaces, pinned evidence) beside writers; contents are counts. A
reader of Runs is a program, the list of the rows it selects in order; the first
statement is one for all Runs (`SelectAll`), the others go Run by Run (`SelectOf`).

### Models and keys: `TurnRoute`, `ModelStream`, `ProviderRegistry`

`TurnRoute` follows `_create_turn_locked` from the stripe of its Run, through
first turn, enabled models and credential, to the one request and the recorded
turn. Stripes belong to a process and several processes may share the store. The
provider refuses, stalls, breaks off or answers; reading is counted in frames,
waiting in socket timeouts.

`ModelStream` reads a body of symbols in chunks of any size: `_iter_lines` with
its two limits, `_iter_sse`, and the four adapters. A symbol is a whole field or a
newline; nothing the properties tell apart happens inside one. What the whole body
says (`AnswerOf`) is defined from the positions where its lines and documents end,
apart from the buffers the decoders keep.

`ProviderRegistry` takes the steps of `_write_private_file` one by one (unlink the
stale temporary, create, write, replace, clean up), with the master key minted in
the Keychain (external) before the first entry is sealed. `together` remembers
how closely requests have met so far: never, in different server processes, or in
one. What a property promises depends on it, because the code takes no lock.

### The loopback API: `ApiRoutes`, `LocalGuard`, `ResponseWire`, `ServerLifecycle`

`ApiRoutes` makes every read and every transaction of a writing route a step of
its own over the actions of `RunLedger`; `Publish` stands for the whole of
`WorkbenchChain` after the claim. `LocalGuard` judges requests that carry any
combination of session token, capability and browser metadata. `ResponseWire`
takes arbitrary events of an application and puts them on the socket as `_Wire`
does, while the client may vanish at any write. `ServerLifecycle` binds, builds,
writes the one token file of the data root, serves and closes, in several
processes, which may be killed; `NoStaleToken` and `StartedServersAreFound` say for
which histories the file leads to a server.

### Export: `PackNamespace`, `PackAssembly`, `PackDelivery`

`PackNamespace` is `_validate_entries` over paths of segments. `PackAssembly`
takes the reads of `produce_pack` one after the other while outputs are
published, Reviews close and bytes decay. `PackDelivery` writes a pack in place,
unit by unit, and mints, presents, streams, lists, prunes and deletes around it. The
ticket table is a function from secrets to records; a secret is the number of its
mint, so the oldest record is the one of the least number (`Newest`). A mint reads
the clock once, prunes, and inserts later. What a secret was ever accepted for
(`accepted`) is remembered beside the table, across evictions and restarts.

### Contracts and policy tools

| Module | Code |
| --- | --- |
| `AttemptLease` | `protocols/recovery.py`: attempts with a revision, a fence token, a lease and an effect boundary; workers hold stale copies and may share a name; reconciliation and anchored retries |
| `ApprovalTokens` | `protocols/approval.py`, `approval_store.py`, `execution_state.py`: pure functions whose results are saved by compare-and-set (external) |
| `RestoreGovernance` | the restore half of `recovery.py`: backup, replay, manifest, activation, access, purge; authorities check again when they act |
| `RetentionStore`, `BreakGlass` | `policy/retention.py`: every public operation under the store's lock, with the clock its caller brings |
| `CiPublication` | `run_ci`, `publish_ci_generation`, sealed failures, `load_published_ci_generation`; remote calls lost before or after their effect |

## Runs

| Run | Instances | What it shows |
| --- | --- | --- |
| `ledger` | `ledger`: an empty database; two Projects, requesters, plans, approvals, Runs, executions, intents, one Session, two instants. `names`, `starts`: three requests of the writing routes | approvals are spent once, only what was approved executes, nothing ended, spent or archived is rewritten; racing requests are answered by what happened |
| `artifacts` | `chain`: 2 Artifacts, 3 Versions, 2 output rows. `scopes`: two Projects that share content. `links`: a Session that did or did not commission the Run | no row without its bytes; Version chains, lineage, output chains and links are sound and append-only |
| `workbench` | `contending`: two analyses share an approval, two an execution; 2 faults, 1 crash. `corrections`: an analysis, two rival corrections, one correction of a correction; 1 fault | no cut chain is recorded as complete, one execution publishes one chain, completed Runs are of one generation |
| `rest` (violated) | `contending` with the real four outputs, 2 faults, no crash | mirror and row can rest disagreeing |
| `service` | `commits`: 2 references, 2 scopes, 3 Versions. `downloads`: 2 tokens, clock readings around two deadlines. `uploads`: two at once, around the cap. `blobs`: the two blob trees, and a fresh local one interrupted anywhere | one tracked Version per reference and the refinement of `CommitOnce`; tokens live exactly as long as granted; an upload is answered for its own bytes; what was reported published survives power loss |
| `reviews` | `rules`: 3 defects of any kinds. `lifecycle`: two requests, 2 outputs, 2 faults. `histories`, `views`: readers beside writers | verdicts are earned and further damage never makes one pass; one Review per evidence; readers see states the Run was in |
| `providers` | `pin`, `across`: two requests of one Run while settings change, the Run with one server or with two. `stream`: bodies of up to 4 symbols, each cut and chunking. `serial`, `concurrent`: three requests of the registry by the workers of two server processes, one after the other or overlapping | one model per Run, one request per turn; chunk boundaries are invisible; acknowledged keys stay |
| `stream_cut` (violated) | bodies without their last documents | the Google adapter completes a cut answer |
| `surface` | `guard`, `wire`. `servers`: three processes, which may be killed. `paths`, `assembly`, `files`, `tickets`, `table`: packs | the guard is asked first, a whole-looking response is whole, the token file leads to a server, a pack is one moment of its Run and is handed out once per capability |
| `governance` | `leases`: 2 workers of one name, 3 executions. `approvals`, `plans`: 2 approvals of one plan or two. `restores`: 3 events. `retention`: 2 records of different periods, 2 runs. `access`: 1 grant, 2 epochs. `ci`: 2 invocations, a reader, 2 contexts | one effect per lineage, one execution per consent, restores, deletions and access decided on everything that happened, CI evidence of the current run |
| `progress` | `chain`, `reviews`, `turns`, `routes`, `ci`, two or three calls each, under fairness | every queued Run is marked, Reviews of whole Runs close, what begins ends |
| `reviews_sit` (violated) | one request, no fault | a Review stays `running` when the Run publishes between its two captures |

### Bounds

Two contenders suffice for every race in the ledger, since each fence compares
one row with one claim; `names` and `starts` have a third that archives under the
other two.
Three Versions make a chain of two and a diamond of inputs, or two chains. Two
outputs are the shortest chain that can be cut in the middle; the violation run
uses the real four. Two faults reach a failure inside the failure path. Two
instants are enough to grant, to consume in time and to consume too late. The
clock readings of `downloads` lie just before, at and just after whole milliseconds
and the two deadlines. Sizes of uploads are the cap and one more, and the
arithmetic behind them is proved for every size. Bodies of four symbols
and a cut one hold a document with its newlines and an end marker or the start of
another document; a frame limit of two and a response limit of four are reached. Three defects show every pair of them
with a third that might repair the verdict. A ticket table of one record
(`MaxOpenTickets`) is full at once and evicted by every second mint; packs of two
units can be cut in the middle. Three operations of the registry are
two that interfere and one that finds what they left. `MaxToken` 4 lets a lease
be taken over twice and retried; `MaxTime` 2 lets it lapse in between. Three
governance events are the tombstone and the hold without which there is nothing to
back up, and one event after the backup. A configuration's constants and the instances in its suite name every bound.

The artifact runs start with the Runs already claimed, as `CreatePlan`,
`GrantApproval`, `CreateRun` and `StartRun` leave them; how Runs get there is the
business of `ledger`. The routes of `starts` begin with a registered Project and
Session. Symmetry is used for interchangeable identities only and never with
liveness. Deadlock is not checked: finite sets of identities run out, calls end,
and a server with nothing to do waits.

Two properties promise less than one would like, because the rest is a
disagreement listed below, and say so in their statement. `PublishedSurvive`
claims that content survives for sheltered designs only, which leaves out the
interruptions at which the blob trees do lose a file. `KeysAreKept` claims that
acknowledged keys stay while no two requests have overlapped, and that documents
stay whole while none have met in one process. Every other restriction is a bound
of size.

### Fairness

Only `progress` and `reviews_sit` assume any. Weak fairness of the next step of
what has begun: a call of the workbench, a caller of the review route, a turn, a
writing route, an invocation of the CI runner. Each is synchronous code in a
thread, and its next step needs the processor and the write lock, which SQLite
hands on within its busy timeout; when it does not, the call raises, which is a
step too. Strong fairness of taking a stripe: a `threading.Lock` is released
after every turn, and a waiter that finds it free again and again gets it in the
end. Nothing is assumed of people, clients, clocks, archival, failures or deaths:
nobody must call. A provider that stalls is ended by the socket timeout; one that
drips its headers for ever is not (see the disagreements), and `progress` has
none (`MaxTicks` 0).

## Disagreements with the documentation

Three have a run that shows them.

* `rest`: "they never come to rest disagreeing" (`local/workbench.py:1229-1231`).
  They do when finishing the row fails and then the mirror of the failure path
  fails too: the mirror rests at `completed`, the row at `failed`.
* `stream_cut`: "a truncated answer must never be presented as a complete one"
  (`local/modelcall.py:1447`). The Google adapter yields a terminal frame at any
  end of a body with a document in it, `finishReason` or not.
* `reviews_sit`: "it never sits `running` forever" (`local/reviewrun.py:33`). A
  finding about evidence that was published between the two captures is refused,
  the refusal is ignored, and nothing closes the Review.

The others were met while the parts were modelled; the properties of the passing
runs say what the code does promise at each of these places.

* "The row is written before the file at every step" (`local/workbench.py:64-65`):
  `_mark_completed` writes the mirror first, as its own docstring says.
* "Integrity-bound commit intent retained until its outcome is known"
  (`services/api/artifacts/recovery.py:19`): an archived Project's store returns
  no Versions, and reconciliation takes that as "not committed". No second Version
  can follow, since archival is permanent.
* "The count of requests actually issued" (`local/modelcall.py:13`): a request
  that timed out before its response is counted as none.
* "Wall-clock cap on a whole turn" (`local/modelcall.py:92`): the deadline is
  looked at only between chunks of a 200 body; headers and error bodies are under
  the socket timeout alone.
* "Write the sealed entries to an owner-only file, atomically"
  (`local/providers.py:751`): the temporary file is named after the process, so
  two threads of one server may rename each other's unfinished file into place.
* "Store one provider's API key" (`local/providers.py:875`): read, change and
  replace without a lock; two overlapping requests keep one of the two keys.
* "Refuse two entries that cannot coexist as files in one directory tree"
  (`local/exportpack.py:586`): prefixes and reserved roots are compared as
  spelled, so `Manifest.json/child` passes beside `manifest.json`.
* "The oldest entry goes first, which costs that caller its own stale URL rather
  than anyone else's live one" (`local/exportrun.py:1206`): the oldest record goes
  whoever minted it and however live it is.
* "Stop the listener and remove the per-run credential file" (`local/api.py:3172`):
  the token file of a server that was started meanwhile is removed instead.
* "Refuse a name that normalizes onto a sibling that already exists"
  (`local/api.py:893`): two overlapping creations compare before either inserts.
* "A refused run-start never queues a Run" (`local/api.py:1930`): of two starts
  that present one approval at once both queue, and the loser's Run is failed.
* "Advance one live same-Project Session's last active timestamp"
  (`local/store.py:1862`): the route reads the clock before the transaction, so
  of two overlapping resumes the older reading may be written last.
* Break-glass must "write every attempt [...] to an immutable access audit"
  (`docs/spec/SPEC-v0.4.md:172`): an attempt with a foreign epoch, tenant or role
  raises before anything is appended.
* "Durably externally anchor one generation before replacing latest"
  (`policy/ci_runner.py:1177`): `latest` is switched first and anchored after.
  Readers are safe, because they resolve the current run first.
* "Flush one directory entry so a published blob survives a crash"
  (`local/store.py:1391`): the entries of new shard directories in their parents
  are never flushed, and a blob found in place is adopted without a flush. In the
  service's tree a directory whose flush failed is not flushed by the retry
  (`services/api/artifacts/blob_filesystem.py:107`).

One more is a limit rather than a disagreement: that a turn contacts only the
pinned provider is claimed of Runs that one server process serves
(`EgressFollowsThePin`); two processes on one store may each send before either
records, and the store then refuses the second answer.

## Proofs

All theorems are for any values of the constants that satisfy the named
assumptions; none relies on a bound of the runs, since every bound is a constant.
An assumption says which constants are numbers, that a null value is no identity
(`Absent` is no person, `Nobody` and `Legacy` no invocation, `Unlocked` no
publisher, `None` no sealed entry, `NotStated` nothing a document can state, and no
identity both a Project's and a Session's) and what the instance is about (an execution's
input is one of the contents). The suites assert the same assumptions, so TLC
evaluates each on the instance it checks. Almost no property is inductive as it
stands; what follows says what each proof adds to it, and TLC found the additions
to hold in the runs' instances before they were proved.

`LedgerProofs`. `RunLedger` implies its type invariant, the safety
invariants and the action properties of `ledger`, for any identities and
timestamps. That a plan executes once, for instance, needs that
executions consumed the approval of their Run, that a plan has one approval, that
a Run's approval is for its plan, and that a Run has one execution. `LedgerInv` is
the conjunction of such bindings between each table and those it refers to.
`StartRun`, the only action that writes three tables at once, is split by
conjunct. `SpentOnce` and `NeverRewritten` state the properties of the run.

Its second half: the whole store implements the approval ledger
(`LedgerImplemented`: no step of the artifact half touches the approval tables),
so `LedgerInv` holds of it and may be used. `BlobsPresent`: every action adds a
row together with its blob or removes only blobs no row names. `SoundEvidence`
strengthens `EvidenceIsSound` by what it rests on: the set of Versions is finite,
so the head of a chain, defined as the number of its rows, is its greatest
number and the next one leaves no gap; the inputs of a row exist when it is
inserted, so lineage cannot close a circle; ledger rows that evidence refers to
stay. Each of the five writing actions is a lemma, all others frame it.
`AppendOnlyEvidence` is the action property.

Its third part is about the writing routes, which read and write in separate steps.
`RoutesInv` adds to `LedgerInv` what each request in flight may rely on: a creation
that compared its name still differs from every row that was there when it arrived,
save Sessions archived since (`CallNames`); a start's Run waits, unclaimed, until
that start claims it, in which case the approval is spent on it, or gives it up
(`CallRun`); and no two requests queued the same Run. Since requests overlap, each
step is shown twice: what it does for its own request, and that it keeps to
`OthersMayRely`, under which whatever the other requests rely on stays true.
`RoutesTakeTransactions`: every step of the routes is a transaction of the ledger or
leaves it alone, so the ledger's invariants hold under them. `RoutesAreSoundAlways`
follows: two executions of one approval would be of one Run, and so of one request.

`WorkbenchChainProofs`. `RecordInv` ties, for every call, the place it is at to
what the store, the mirror and the execution row say: before the claim nothing is
published; a call that published owns the execution row, the mirror and the spent
approval; the filled positions are a prefix of which at most the last lacks its
row; completion is written to the mirror first and to the row after it. From this
follow `RecordsAreTruthful` and `OneChainPerExecution`. `GenerationInv` adds what
corrections rest on: a call that appends to a target found it whole and publishes
one above what the target committed, no two calls of a lineage commit the same
number at a position, and a head is the number some call committed. Whatever the
depth of corrections, `CorrectionsStayUniform` follows. `Lineage`, the analysis a
correction goes back to, is a constant function the assumption ties to
`TargetOf`, so no induction over its depth is needed.

`ServiceProofs`. `CommitInv` adds to the properties of `create_version` what the
call in progress knows: after the intent is written the record is the call's own;
at `complete` the Version is in the store; at `commit`, `recommit` and `discard`
it is not, unless the Project was archived. With any number of retries, faults,
crashes and rival commits it yields `SoundRecovery` and the refinement of
`CommitOnce`: store commits map to `Commit`, completed calls and idempotent
answers to `Return`, everything else stutters. Downloads: every token carries the
expiry computed for it and a redemption under way was verified before it; with
the division to whole milliseconds bounded by `ExpiryWindow`, no token is redeemed
after its lifetime and none is called expired before. Uploads: requests stage in
directories of their own, so what a loader reads is what its request wrote, and
the first failing check names one of its flaws; the size computed from the length
and padding of base64 text is exact for every number of bytes. Blob trees: a name
is given to flushed bytes only, so nothing is torn; in a sheltered tree one
publisher is under way at a time (the write lock, or the one caller), every
directory is on disk but the one being flushed, every name the local store could
adopt is on disk but the one being synced, and from there on no step of a
publication can report what the next power loss takes back.

`ReviewLifecycleProofs`. Each request's captures are read outputs first and
execution afterwards, and the second capture is of no earlier moment than the
first: hence pins are a snapshot, and findings are drawn from them. A Review is
open only in the hands of the request that inserted it, or left by a crash; a
closed one is never changed. Readers of Runs: what a reader has selected so far is
no later than the Run is now, an ended Run no longer changes, and evidence selects
outputs before the execution, which is there before any output (`RunsInv`).
Readers of histories: what was read and what is still to be looked up are together
a gapless prefix of the Versions, unless the Project was archived
(`HistoriesInv`). Both give `ReadsAreConsistent`. Rules: `RulesInv` says, part by
part of the evidence, which kinds of defect are visible there, and that a kind is
planted exactly when it is visible (`ContentFits` to `LedgerFits`); a defect
disturbs one part only (`OneDefectMore`). That every rule passes exactly when no
kind is visible is then a lemma about any such evidence, however many defects
overlap (`PassIsClean`), and gives `VerdictsAreEarned` and `DamageNeverLaunders`.

`ProviderProofs`. Turns: whoever is inside the stripe holds it, a request is with
a server of its Run, and if the Run has only one, the row that pins the model
cannot move under a request that has read it. Registry: two requests of one
process are what breaks a document, so the invariant says that until they meet
each writing request owns the temporary file it made, with exactly the bytes it
means to put in place (`OneInEachProcess`); while requests have come one after
the other, the only one under way knows the file, the master key and the
acknowledged keys as they are, and what it is about to write agrees with them
(`OneAfterTheOther`). Death of a server at any step keeps both. Streams: while a turn
is reading, the lines up to one end `c` are taken, the buffer holds the body from `c`
to what was read, and the frames are the documents that end by `c`, none of which
ends a turn (`Between`, `AbsorbedBy`); the data of an unfinished event are its lines
so far (`DataOf`). Frames are placed by counting the documents up to theirs, so
taking one line adds at most one to the count and the decoders need no induction over
the body. `StreamsAreReadFaithfullyAlways` follows for any body, cut, division into
chunks and size limits.

`ProtocolProofs`. Attempts: a stale copy cannot write (`CompareAndSetPreserves`),
the effect boundary never moves back, reconciled attempts are final, and the proof
behind each retry is used up. Approvals: every record says how far it came, which
status has which revision and who decided it; a consumed one spent its binding
before it lapsed, and an execution rests on such a record. Restores: a permit that
was handed out is right for the event streams it was built over, which only grow;
what is ready is backed; nothing moves an active restore.

`RetentionProofs`. Deletions: the holds of a scope follow one another, so only the
latest may be unreleased, and a record free of the hold in force is free of all.
Emergency access: the log and each grant agree, with a request exactly for what
is granted, one approval by the approver, at most one end, and every use covered
by the entries before it. CI: each place of an invocation says what its directory
is and who may name it, and `latest` and the manifests move only under the lock.

`SurfaceProofs`. The guard's property is about single steps and needs no invariant:
it splits on who asks and what the request carries. Connections: what is on the
socket under each framing (`FramingInv`) and that the head goes out when the
response starts or never will. Servers: a torn file is with its writer or a killed
process, and while all goes well a written token is there or is being replaced by a
server that has unlinked it (`TokenInv`). Paths: an accepted request passed every
check. Assembly: what an export has read so far is of outputs that are still there
and of a Review that was closed for exactly them, and no later step of the Run takes
that back (`ExportInv`). Delivery: an unspent record promises that nobody used its
secret yet, and what a secret was accepted for is kept when the record goes
(`AcceptedInv`); every request that has pruned the table still has its place in it
(`RoomInv`), which bounds the table by the mints under way; a download past the guard
holds an accepted secret and never sent more than it declared; a listing counts what
it found unreadable.

Only model-checked. Every safety property of the passing runs is stated by a theorem;
liveness (`progress`) and ENABLED are out of the prover's reach.

## Not modelled

* Schemas (`packages/contracts` message types), science kernels, web front end and
  static policy tools (release contract, boundary and inventory checks): no state
  outlives a call, or nothing but data is computed.
* Inside modelled parts: rendering of outputs, parsing of cells and pixels, the
  Reviewer's regular expressions, cryptography, path modes and links, wording of
  prompts and disclosures, shapes of request bodies, tenants and roles.
* Of the protocol contracts: replay of events (`state.py`, `sse.py`), the runtime
  and the event guard, and `perform_break_glass_action` of `recovery.py`. Of the
  artifact service: `create_artifact` and `attach_session`, whose store half is in
  `ArtifactLedger`. Of CI: rechaining of authorities. Of retention: changing the
  policy's periods.
* Loaders: only the order of their checks and the refusal each gives.

What would come next: event replay of the contracts; the store's review and turn
tables joined to `ArtifactLedger`.

## Running

`tlc -workers 2 -config MCRunLedger.cfg MCRunLedger`, and likewise for every
suite; the violation runs are `MCWorkbenchChain_rest.cfg` with
`MCWorkbenchChain`, `MCProviders_cut.cfg` with `MCProviders` and
`MCProgress_sits.cfg` with `MCProgress`. A single part is explored by
shortening `Parts` in the configuration. `tlapm LedgerProofs.tla`, and likewise
for the other proof modules, checks the proofs.
