---------------------------- MODULE CiPublication ----------------------------
(* The CI runner's publication (tools/platform_policy/ci_runner.py, run_ci   *)
(* and publish_ci_generation), the sealed failure records it leaves          *)
(* (ci_contract.py, persist_task_attempt_bundle) and the reader of what it   *)
(* published (load_published_ci_generation).  Several invocations and        *)
(* readers share one checkout and one remote authority; an invocation may    *)
(* be killed between any two steps, and a remote call may fail before it     *)
(* takes effect or after.                                                    *)
(*                                                                           *)
(* A run id, an attempt id and a generation name are fresh random tokens of  *)
(* one invocation: all three are the invocation itself.  Digests compare as  *)
(* what they digest: a source identity is the version of the tree.  Catalogs *)
(* are functions of the source.  I/O errors are modelled where evidence is   *)
(* staged and sealed, not while a failed publication cleans up.              *)
EXTENDS Integers, FiniteSets

CONSTANTS Invocations,  \* run_ci processes
          Readers,      \* load_published_ci_generation calls
          Contexts,     \* GITHUB_SHA values; each has one current run
          NJobs,        \* jobs of the catalog, executed in order
          MaxEdits,     \* bound on edits of the checkout
          Nobody,       \* no latest entry, no lock holder, no current run
          Legacy        \* a latest directory from before generations

RunStates == {"active", "success", "failure", "incomplete"}

(* What the bounds may be, and that the null values name no invocation.      *)
CiAssumption ==
  /\ NJobs \in Nat \ {0} /\ MaxEdits \in Nat
  /\ Nobody # Legacy /\ Nobody \notin Invocations /\ Legacy \notin Invocations
  /\ Nobody \notin [run : Invocations, state : RunStates]

VARIABLES tree,      \* the version of the checkout's source
          ctx,       \* the context each invocation and reader was started for
          current,   \* the authority's current run of each context
          manifests, \* generations whose manifest the authority has bound
          attested,  \* <<run, job, invocation>> receipts of the authority
          lock,      \* the holder of .publication-lock
          latest,    \* where .ci/evidence/latest points
          gens,      \* each generation's directory
          pointer,   \* invocations whose temporary .latest-* link exists
          sealed,    \* the failed-attempts record of each invocation
          pc,        \* where each invocation is
          source,    \* the source identity it took first
          under,     \* the run it executes its jobs under
          executed,  \* jobs executed
          outcome,   \* how its failure will be recorded
          rpc, rrun, rsource  \* reader: place, current run seen, source wanted

authorityVars == <<current, manifests, attested>>
diskVars == <<lock, latest, gens, pointer, sealed>>
localVars == <<source, under, executed, outcome>>
readerVars == <<rpc, rrun, rsource>>
ciVars == <<tree, ctx, authorityVars, diskVars, pc, localVars, readerVars>>

CurrentRun(i, s) == [run |-> i, state |-> s]
Terminal == {"done", "failed", "raised", "dead"}

CiInit ==
  /\ tree = 0
  /\ ctx \in [Invocations \cup Readers -> Contexts]
  /\ current = [c \in Contexts |-> Nobody]
  /\ manifests = {} /\ attested = {}
  /\ lock = Nobody /\ latest \in {Nobody, Legacy} /\ pointer = {}
  /\ gens = [i \in Invocations |-> "absent"]
  /\ sealed = [i \in Invocations |-> "none"]
  /\ pc = [i \in Invocations |-> "idle"]
  /\ source = [i \in Invocations |-> 0]
  /\ under = [i \in Invocations |-> i]
  /\ executed = [i \in Invocations |-> 0]
  /\ outcome = [i \in Invocations |-> "incomplete"]
  /\ rpc = [r \in Readers |-> "idle"]
  /\ rrun = [r \in Readers |-> Nobody]
  /\ rsource = [r \in Readers |-> 0]

Goto(i, l) == pc' = [pc EXCEPT ![i] = l]

(* An exception on the way: it will be sealed with this outcome.             *)
Failing(i, l, o) ==
  /\ Goto(i, l)
  /\ outcome' = [outcome EXCEPT ![i] = o]
  /\ UNCHANGED <<tree, ctx, authorityVars, diskVars, source, under, executed,
                 readerVars>>

(* begin supersedes whatever run was current; an exception here leaves the   *)
(* invocation at once, and nothing is sealed.                                *)
Begin(i) ==
  /\ pc[i] = "idle"
  /\ source' = [source EXCEPT ![i] = tree]
  /\ \/ /\ current' = [current EXCEPT ![ctx[i]] = CurrentRun(i, "active")]
        /\ \E l \in {"begun", "raised"} : Goto(i, l)
     \/ Goto(i, "raised") /\ UNCHANGED current
  /\ UNCHANGED <<tree, ctx, manifests, attested, diskVars, under, executed, outcome,
                 readerVars>>

(* The source identity configured outside agrees with the checkout, or the   *)
(* run is sealed incomplete.                                                 *)
RequireConfiguredSourceIdentity(i) ==
  /\ pc[i] = "begun"
  /\ \/ /\ Goto(i, "resolve")
        /\ UNCHANGED <<tree, ctx, authorityVars, diskVars, localVars, readerVars>>
     \/ Failing(i, "seal", "incomplete")

(* The jobs run under whatever run is current NOW, not under the one begun.  *)
ResolveCurrent(i) ==
  /\ pc[i] = "resolve"
  /\ \/ /\ under' = [under EXCEPT ![i] = current[ctx[i]].run]
        /\ Goto(i, "lease")
        /\ UNCHANGED <<tree, ctx, authorityVars, diskVars, source, executed, outcome,
                       readerVars>>
     \/ Failing(i, "seal", "incomplete")

VerifyExecutionBinding(i) ==
  /\ current[ctx[i]] = CurrentRun(under[i], "active")
  /\ source[under[i]] = source[i]
  /\ tree = source[under[i]]

(* Before the child is spawned the lease is checked and consumed.            *)
StartJob(i) ==
  /\ pc[i] = "lease"
  /\ \/ /\ VerifyExecutionBinding(i)
        /\ Goto(i, "running")
        /\ UNCHANGED <<tree, ctx, authorityVars, diskVars, localVars, readerVars>>
     \/ Failing(i, "seal", "incomplete")

(* The child exits, is cut off at its time or output limit, or reports no    *)
(* executed count; a success is attested once the binding still holds.       *)
EndJob(i) ==
  /\ pc[i] = "running"
  /\ \/ /\ VerifyExecutionBinding(i)
        /\ executed' = [executed EXCEPT ![i] = @ + 1]
        /\ attested' = attested \cup {<<under[i], executed[i] + 1, i>>}
        /\ Goto(i, IF executed[i] + 1 = NJobs THEN "ready" ELSE "lease")
        /\ UNCHANGED <<tree, ctx, current, manifests, diskVars, source, under,
                       outcome, readerVars>>
     \/ Failing(i, "seal", "failure")
     \/ Failing(i, "seal", "incomplete")

(* Records bound to another run are refused outside the handler that seals;  *)
(* a changed catalog or source is sealed.                                    *)
RequireFresh(i) ==
  /\ pc[i] = "ready"
  /\ \/ /\ under[i] = i /\ tree = source[i]
        /\ Goto(i, "lock")
        /\ UNCHANGED <<tree, ctx, authorityVars, diskVars, localVars, readerVars>>
     \/ under[i] = i /\ Failing(i, "seal", "incomplete")
     \/ under[i] # i /\ Failing(i, "raised", outcome[i])

AcquireLock(i) ==
  /\ pc[i] = "lock" /\ lock = Nobody
  /\ lock' = i
  /\ Goto(i, "archive")
  /\ UNCHANGED <<tree, ctx, authorityVars, latest, gens, pointer, sealed,
                 localVars, readerVars>>

ArchiveLegacyCiLatest(i) ==
  /\ pc[i] = "archive"
  /\ latest' = IF latest = Legacy THEN Nobody ELSE latest
  /\ Goto(i, "verify")
  /\ UNCHANGED <<tree, ctx, authorityVars, lock, gens, pointer, sealed, localVars,
                 readerVars>>

VerifyPublicationAuthorities(i) ==
  /\ current[ctx[i]] = CurrentRun(i, "active")
  /\ tree = source[i]

(* The three places where the commitments are derived again: before staging, *)
(* over the staged bytes, and once the generation has its name.              *)
Verify(i) ==
  /\ pc[i] \in {"verify", "verify_staged", "verify_published"}
  /\ \/ /\ VerifyPublicationAuthorities(i)
        /\ Goto(i, CASE pc[i] = "verify" -> "stage"
                     [] pc[i] = "verify_staged" -> "rename"
                     [] OTHER -> "pointer")
        /\ UNCHANGED <<tree, ctx, authorityVars, diskVars, localVars, readerVars>>
     \/ Failing(i, "unwind", "incomplete")

StageGeneration(i) ==
  /\ pc[i] = "stage"
  /\ gens' = [gens EXCEPT ![i] = "staging"]
  /\ Goto(i, "write")
  /\ UNCHANGED <<tree, ctx, authorityVars, lock, latest, pointer, sealed, localVars,
                 readerVars>>

WriteAndVerifyStaged(i) ==
  /\ pc[i] = "write"
  /\ \/ /\ gens' = [gens EXCEPT ![i] = "written"]
        /\ Goto(i, "verify_staged")
        /\ UNCHANGED <<tree, ctx, authorityVars, lock, latest, pointer, sealed,
                       localVars, readerVars>>
     \/ Failing(i, "unwind", "incomplete")

RenameGeneration(i) ==
  /\ pc[i] = "rename"
  /\ gens' = [gens EXCEPT ![i] = "published"]
  /\ Goto(i, "verify_published")
  /\ UNCHANGED <<tree, ctx, authorityVars, lock, latest, pointer, sealed, localVars,
                 readerVars>>

CreateLatestPointer(i) ==
  /\ pc[i] = "pointer"
  /\ pointer' = pointer \cup {i}
  /\ Goto(i, "switch")
  /\ UNCHANGED <<tree, ctx, authorityVars, lock, latest, gens, sealed, localVars,
                 readerVars>>

SwitchLatestPointer(i) ==
  /\ pc[i] = "switch"
  /\ latest' = i
  /\ pointer' = pointer \ {i}
  /\ Goto(i, "finalize")
  /\ UNCHANGED <<tree, ctx, authorityVars, lock, gens, sealed, localVars, readerVars>>

(* The remote call is refused unless this run is still the current active    *)
(* one with a receipt for every job; it may also be lost on its way there or *)
(* its answer on the way back.  A failure of any kind is reconciled.         *)
Finalize(i) ==
  /\ pc[i] = "finalize"
  /\ \/ /\ current[ctx[i]] = CurrentRun(i, "active")
        /\ \A j \in 1 .. NJobs : <<i, j, i>> \in attested
        /\ current' = [current EXCEPT ![ctx[i]] = CurrentRun(i, "success")]
        /\ manifests' = manifests \cup {i}
        /\ \E l \in {"confirm", "reconcile"} : Goto(i, l)
        /\ UNCHANGED <<tree, ctx, attested, diskVars, localVars, readerVars>>
     \/ Failing(i, "reconcile", "incomplete")

RequireFinalized(i) ==
  /\ current[ctx[i]] = CurrentRun(i, "success")
  /\ tree = source[i]
  /\ i \in manifests
  /\ latest = i

(* Was the lost call committed?  Anything but the exact run, source, anchor  *)
(* and pointer, or no answer, means it was not.                              *)
ReconcileFinalization(i) ==
  /\ pc[i] = "reconcile"
  /\ \/ /\ RequireFinalized(i)
        /\ Goto(i, "confirm")
        /\ UNCHANGED <<tree, ctx, authorityVars, diskVars, localVars, readerVars>>
     \/ Failing(i, "unwind", "incomplete")

(* The last check; its failure leaves latest as it is.                       *)
Confirm(i) ==
  /\ pc[i] = "confirm"
  /\ \E l \in {"done", "seal"} :
       /\ l = "done" => RequireFinalized(i)
       /\ Goto(i, l)
  /\ lock' = Nobody
  /\ outcome' = [outcome EXCEPT ![i] = "incomplete"]
  /\ UNCHANGED <<tree, ctx, authorityVars, latest, gens, pointer, sealed, source,
                 under, executed, readerVars>>

(* A failed publication removes its staging directory, its unswitched        *)
(* pointer and a latest that still names it, then gives the lock back.  What *)
(* latest named before the switch is not restored.                           *)
Unwind(i) ==
  /\ pc[i] = "unwind"
  /\ gens' = [gens EXCEPT ![i] = IF @ = "published" THEN @ ELSE "absent"]
  /\ pointer' = pointer \ {i}
  /\ latest' = IF latest = i THEN Nobody ELSE latest
  /\ lock' = Nobody
  /\ Goto(i, "seal")
  /\ UNCHANGED <<tree, ctx, authorityVars, sealed, localVars, readerVars>>

(* Mutant of SealAttempt: an attempt that could not be sealed is passed over.*)
SealOrPassOver(i) ==
  /\ pc[i] = "seal"
  /\ sealed' \in {sealed, [sealed EXCEPT ![i] = outcome[i]]}
  /\ Goto(i, "complete")
  /\ UNCHANGED <<tree, ctx, authorityVars, lock, latest, gens, pointer, localVars,
                 readerVars>>

(* The attempt directory is written beside its name, flushed, and renamed to *)
(* it; a failure removes the temporary directory and the exception leaves.   *)
SealAttempt(i) ==
  /\ pc[i] = "seal"
  /\ \/ /\ sealed' = [sealed EXCEPT ![i] = outcome[i]]
        /\ Goto(i, "complete")
     \/ UNCHANGED sealed /\ Goto(i, "raised")
  /\ UNCHANGED <<tree, ctx, authorityVars, lock, latest, gens, pointer, localVars,
                 readerVars>>

(* The authority moves only its active run to a terminal state.              *)
CompleteCurrentRun(i) ==
  /\ pc[i] = "complete"
  /\ \/ /\ current[ctx[i]] = CurrentRun(i, "active")
        /\ current' = [current EXCEPT ![ctx[i]] = CurrentRun(i, outcome[i])]
     \/ UNCHANGED current
  /\ Goto(i, "failed")
  /\ UNCHANGED <<tree, ctx, manifests, attested, diskVars, localVars, readerVars>>

(* The process is killed; the kernel drops its lock, the disk stays.         *)
Crash(i) ==
  /\ pc[i] \notin Terminal \cup {"idle"}
  /\ Goto(i, "dead")
  /\ lock' = IF lock = i THEN Nobody ELSE lock
  /\ UNCHANGED <<tree, ctx, authorityVars, latest, gens, pointer, sealed, localVars,
                 readerVars>>

EditSource ==
  /\ tree < MaxEdits
  /\ tree' = tree + 1
  /\ UNCHANGED <<ctx, authorityVars, diskVars, pc, localVars, readerVars>>

ReaderStep(r, l) ==
  /\ rpc' = [rpc EXCEPT ![r] = l]
  /\ UNCHANGED <<tree, ctx, authorityVars, diskVars, pc, localVars>>

OfWantedSource(r, g) == source[g] = rsource'[r]

(* A successful current run of the wanted source, or the load is refused.    *)
ResolveSuccessfulCurrentRun(r) ==
  /\ rpc[r] = "idle"
  /\ rsource' = [rsource EXCEPT ![r] = tree]
  /\ LET c == current[ctx[r]] IN
     \/ /\ c # Nobody /\ c.state = "success" /\ OfWantedSource(r, c.run)
        /\ rrun' = [rrun EXCEPT ![r] = c.run]
        /\ ReaderStep(r, "latest")
     \/ UNCHANGED rrun /\ ReaderStep(r, "refused")

LatestIsTheCurrentRuns(r) == latest = rrun[r]

ReadLatest(r) ==
  /\ rpc[r] = "latest"
  /\ \/ LatestIsTheCurrentRuns(r) /\ ReaderStep(r, "read")
     \/ ReaderStep(r, "refused")
  /\ UNCHANGED <<rrun, rsource>>

(* Manifest, receipts, anchor and logs, through the directory's descriptor.  *)
ReadGeneration(r) ==
  /\ rpc[r] = "read"
  /\ UNCHANGED <<rrun, rsource>>
  /\ \/ /\ gens[rrun[r]] = "published" /\ rrun[r] \in manifests
        /\ OfWantedSource(r, rrun[r])
        /\ ReaderStep(r, "again")
     \/ ReaderStep(r, "refused")

CurrentRunUnchanged(r) == current[ctx[r]] = CurrentRun(rrun[r], "success")

(* latest and the current run are read again before the bytes are returned.  *)
RecheckLatest(r) ==
  /\ rpc[r] = "again"
  /\ \/ LatestIsTheCurrentRuns(r) /\ ReaderStep(r, "last")
     \/ ReaderStep(r, "refused")
  /\ UNCHANGED <<rrun, rsource>>

ReturnGeneration(r) ==
  /\ rpc[r] = "last"
  /\ \/ CurrentRunUnchanged(r) /\ ReaderStep(r, "returned")
     \/ ReaderStep(r, "refused")
  /\ UNCHANGED <<rrun, rsource>>

InvocationStep(i) ==
  \/ Begin(i) \/ RequireConfiguredSourceIdentity(i) \/ ResolveCurrent(i)
  \/ StartJob(i) \/ EndJob(i) \/ RequireFresh(i) \/ AcquireLock(i)
  \/ ArchiveLegacyCiLatest(i) \/ Verify(i) \/ StageGeneration(i)
  \/ WriteAndVerifyStaged(i) \/ RenameGeneration(i) \/ CreateLatestPointer(i)
  \/ SwitchLatestPointer(i) \/ Finalize(i) \/ ReconcileFinalization(i) \/ Confirm(i)
  \/ Unwind(i) \/ SealAttempt(i) \/ CompleteCurrentRun(i)

LoadPublishedCiGeneration(r) ==
  \/ ResolveSuccessfulCurrentRun(r) \/ ReadLatest(r) \/ ReadGeneration(r)
  \/ RecheckLatest(r) \/ ReturnGeneration(r)

CiNext ==
  \/ \E i \in Invocations : InvocationStep(i) \/ Crash(i)
  \/ \E r \in Readers : LoadPublishedCiGeneration(r)
  \/ EditSource

CiSpec == CiInit /\ [][CiNext]_ciVars

(* Every wait of an invocation ends by itself: children are cut off at a     *)
(* deadline, remote calls time out, and the lock is held across no wait for  *)
(* another invocation.                                                       *)
CiFairSpec == CiSpec /\ \A i \in Invocations : WF_ciVars(InvocationStep(i))

-----------------------------------------------------------------------------
CiTypeOK ==
  /\ tree \in 0 .. MaxEdits
  /\ ctx \in [Invocations \cup Readers -> Contexts]
  /\ \A c \in Contexts :
       current[c] \in {Nobody} \cup [run : Invocations, state : RunStates]
  /\ manifests \subseteq Invocations /\ pointer \subseteq Invocations
  /\ attested \subseteq Invocations \X (1 .. NJobs) \X Invocations
  /\ lock \in Invocations \cup {Nobody}
  /\ latest \in Invocations \cup {Nobody, Legacy}
  /\ gens \in [Invocations -> {"absent", "staging", "written", "published"}]
  /\ sealed \in [Invocations -> {"none", "failure", "incomplete"}]
  /\ source \in [Invocations -> 0 .. MaxEdits] /\ under \in [Invocations -> Invocations]
  /\ executed \in [Invocations -> 0 .. NJobs]

(* Whatever was killed and whoever published meanwhile, latest never names a *)
(* directory that is not there whole, and the authority never calls a        *)
(* generation successful whose bytes are not durable under their name.       *)
NamedGenerationsAreWhole ==
  \A i \in Invocations : latest = i \/ i \in manifests => gens[i] = "published"

(* What a reader returns is a generation the authority anchored, of the      *)
(* source the reader asked for, in the reader's own context, whose jobs were *)
(* all executed under that run by the invocation that published it: latest   *)
(* is shared by all contexts and switched before the authority knows.        *)
LoadedEvidenceIsTheRuns ==
  \A r \in Readers : rpc[r] = "returned" =>
    /\ rrun[r] \in manifests /\ gens[rrun[r]] = "published"
    /\ ctx[rrun[r]] = ctx[r] /\ source[rrun[r]] = rsource[r]
    /\ \A j \in 1 .. NJobs : <<rrun[r], j, rrun[r]>> \in attested

(* An invocation whose publication failed leaves no trace a later reader or  *)
(* publisher could take for a result: no pointer, no staging directory, and  *)
(* latest does not name it unless the authority did anchor it.               *)
FailedPublicationsAreWithdrawn ==
  \A i \in Invocations : pc[i] \in {"failed", "raised"} =>
    /\ i \notin pointer
    /\ gens[i] \in {"absent", "published"}
    /\ latest = i => i \in manifests

(* The authority records a failed or incomplete run only when the sealed     *)
(* attempt that explains it is on disk.                                      *)
RecordedFailuresAreSealed ==
  \A c \in Contexts : current[c] # Nobody =>
    (current[c].state \in {"failure", "incomplete"} =>
       sealed[current[c].run] = current[c].state)

(* A generation becomes anchored only while latest names it, its directory   *)
(* is whole and its publisher still holds the publication lock: no other     *)
(* publisher's switch fits between the switch and the authority's commit.    *)
AnchoredWhileNamed ==
  [][\A i \in Invocations : i \in manifests' \ manifests =>
       gens[i] = "published" /\ latest = i /\ lock = i]_ciVars

(* What the authority and the disk say of a run agrees for every reader.     *)
PublicationsAreSound ==
  /\ [](CiTypeOK /\ NamedGenerationsAreWhole /\ LoadedEvidenceIsTheRuns)
  /\ [](FailedPublicationsAreWithdrawn /\ RecordedFailuresAreSealed)
  /\ AnchoredWhileNamed

(* Every invocation that begins ends: in particular nobody waits for ever    *)
(* for the publication lock, whatever happened to its holders.               *)
EveryInvocationEnds ==
  \A i \in Invocations : pc[i] # "idle" ~> pc[i] \in Terminal

=============================================================================
