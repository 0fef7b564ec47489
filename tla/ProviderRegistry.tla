-------------------------- MODULE ProviderRegistry --------------------------
(***************************************************************************)
(* The provider registry (providers.py): API keys sealed in a credentials   *)
(* file under a master key that the Keychain holds, and the composer's      *)
(* settings in a second file.  Both are read, changed in memory and written *)
(* back whole through a temporary file that is named after the process.     *)
(*                                                                          *)
(* Each request is a worker that takes the steps of one operation; several  *)
(* workers may share a process and with it the temporary names.  A worker   *)
(* writes through its own handle, so its bytes reach its file wherever that *)
(* file has been renamed to.                                                *)
(***************************************************************************)
EXTENDS Naturals

CONSTANTS Workers,              \* requests
          ProcessOfWorker,      \* the server process of each
          Providers,            \* providers that require a key
          Keys,                 \* API keys
          Models,
          EnvKeyed,             \* providers with a key in the environment
          None,
          MaxOps,               \* bound: operations begun
          MaxMaster             \* bound: master keys minted

VARIABLES
    master,     \* the Keychain's master key: 0 when absent
    minted,     \* master keys minted so far
    path,       \* the two files, as readers open them
    temp,       \* the temporary file of each process for each file
    job,        \* what each worker is doing
    ops,        \* operations begun
    saved,      \* ghost: the key of each provider that a request was told is stored
    together    \* ghost: how close two requests have come

registryVars == <<master, minted, path, temp, job, ops, saved, together>>

Files == {"credentials", "settings"}

Processes == {ProcessOfWorker[w] : w \in Workers}

\* A sealed entry opens only under the master key that sealed it.
Sealed == [key : Keys, under : Nat]

\* What the requests and bounds may be; None is no identity and no entry.
RegistryAssumption ==
    /\ EnvKeyed \subseteq Providers
    /\ None \notin Keys \cup Models \cup Workers \cup Sealed
    /\ MaxOps \in Nat /\ MaxMaster \in Nat

Entries == [Providers -> Sealed \cup {None}]

ModelSettings ==
    [configured : SUBSET Providers, enabled : SUBSET Models, default : Models \cup {None}]

NoEntries == [p \in Providers |-> None]

NoSettings == [configured |-> {}, enabled |-> {}, default |-> None]

\* A file: who writes it, what it will hold, and whether all of it is there.
File == [writer : Workers \cup {None}, doc : Entries \cup ModelSettings, whole : BOOLEAN]

Absent(f) == [writer |-> None, doc |-> IF f = "credentials" THEN NoEntries ELSE NoSettings,
              whole |-> TRUE]

NoFile == [writer |-> None, doc |-> NoEntries, whole |-> FALSE]

Operations ==
    [op : {"set_key"}, provider : Providers, key : Keys]
    \cup [op : {"clear_key", "resolve_key"}, provider : Providers]
    \cup [op : {"set_enabled_models"}, models : SUBSET Models]
    \cup [op : {"set_default_model"}, model : Models \cup {None}]

NoOperation == [op |-> "none"]

Idle == [pc |-> "idle", file |-> "credentials", key |-> 0, doc |-> NoEntries,
         settings |-> NoSettings, answer |-> "none", request |-> NoOperation]

RegistryInit ==
    /\ master = 0 /\ minted = 0
    /\ path = [f \in Files |-> Absent(f)]
    /\ temp = [c \in Processes \X Files |-> NoFile]
    /\ job = [w \in Workers |-> Idle]
    /\ ops = 0
    /\ saved = [p \in Providers |-> None]
    /\ together = "never"

(***************************************************************************)
(* Beginning and answering a request.                                       *)
(***************************************************************************)

files == <<path, temp>>

keychain == <<master, minted>>

ContinueAt(w, pc) == job' = [job EXCEPT ![w].pc = pc]

Busy == {w \in Workers : job[w].pc # "idle"}

\* Requests have been in progress together never, in different server processes
\* only, or in one.
Closeness(w) ==
    IF \E v \in Busy : ProcessOfWorker[v] = ProcessOfWorker[w] THEN "in one process"
    ELSE IF Busy # {} /\ together = "never" THEN "across processes"
    ELSE together

\* o may change the key of p.
Concerns(o, p) == o.op \in {"set_key", "clear_key"} /\ o.provider = p

Begin(w, o) ==
    /\ job[w].pc = "idle"
    /\ ops < MaxOps
    /\ ops' = ops + 1
    /\ job' = [job EXCEPT ![w] =
           [pc |-> CASE o.op = "set_key" -> "ensure_master"
                     [] o.op \in {"clear_key", "resolve_key"} -> "entries"
                     [] OTHER -> "load",
            file |-> "credentials", key |-> 0, doc |-> NoEntries,
            settings |-> NoSettings, answer |-> "none", request |-> o]]
    /\ saved' = [p \in Providers |-> IF Concerns(o, p) THEN None ELSE saved[p]]
    /\ together' = Closeness(w)
    /\ UNCHANGED <<keychain, files>>

Answer(w, answer) == job' = [job EXCEPT ![w].pc = "answered", ![w].answer = answer]

\* The caller may rely on a key that was stored while nobody else changed it.
Acknowledged(w) ==
    LET o == job[w].request IN
        IF o.op = "set_key" /\ \A v \in Busy \ {w} : ~Concerns(job[v].request, o.provider)
        THEN [saved EXCEPT ![o.provider] = o.key] ELSE saved

Report(w) ==
    /\ job[w].pc = "answered"
    /\ saved' = IF job[w].answer = "ok" THEN Acknowledged(w) ELSE saved
    /\ job' = [job EXCEPT ![w] = Idle]
    /\ UNCHANGED <<keychain, files, ops, together>>

(***************************************************************************)
(* EncryptedFileBackend: the master key.                                    *)
(***************************************************************************)

\* The Keychain is asked for the master key; it may refuse.
EnsureMaster(w) ==
    /\ job[w].pc = "ensure_master"
    /\ \/ Answer(w, "refused")
       \/ master = 0 /\ ContinueAt(w, "mint")
       \/ master # 0 /\ job' = [job EXCEPT ![w].pc = "entries", ![w].key = master]
    /\ UNCHANGED <<keychain, files, ops, saved, together>>

\* A new master key replaces whatever the Keychain holds, and is read back; both
\* may be refused.
MintMaster(w) ==
    /\ job[w].pc = "mint"
    /\ \/ Answer(w, "refused") /\ UNCHANGED keychain
       \/ /\ minted < MaxMaster
          /\ minted' = minted + 1
          /\ master' = minted'
          /\ \/ job' = [job EXCEPT ![w].pc = "entries", ![w].key = minted']
             \/ Answer(w, "refused")
    /\ UNCHANGED <<files, ops, saved, together>>

(***************************************************************************)
(* EncryptedFileBackend: entries.                                           *)
(***************************************************************************)

\* Mutant of ReadEntries: a key is saved into an empty document.
ReadNothing(w) ==
    LET o == job[w].request IN
        /\ job[w].pc = "entries"
        /\ IF o.op = "set_key"
           THEN job' = [job EXCEPT ![w].pc = "unlink", ![w].doc =
                    [NoEntries EXCEPT ![o.provider] = [key |-> o.key, under |-> job[w].key]]]
           ELSE Answer(w, "corrupt")
        /\ UNCHANGED <<keychain, files, ops, saved, together>>

\* _entries: an absent file is empty, a torn one is corrupt.
ReadEntries(w) ==
    LET o == job[w].request
        entries == path["credentials"].doc
    IN  /\ job[w].pc = "entries"
        /\ IF ~path["credentials"].whole THEN Answer(w, "corrupt")
           ELSE CASE o.op = "set_key" ->
                        job' = [job EXCEPT ![w].pc = "unlink", ![w].doc =
                            [entries EXCEPT ![o.provider] = [key |-> o.key, under |-> job[w].key]]]
                  [] o.op = "clear_key" /\ entries[o.provider] = None -> ContinueAt(w, "load")
                  [] o.op = "clear_key" /\ entries[o.provider] # None ->
                        job' = [job EXCEPT ![w].pc = "unlink",
                                           ![w].doc = [entries EXCEPT ![o.provider] = None]]
                  [] o.op = "resolve_key" ->
                        job' = [job EXCEPT ![w].pc = "unseal", ![w].doc = entries]
        /\ UNCHANGED <<keychain, files, ops, saved, together>>

\* resolve_key: the stored key, else the environment; never the environment in
\* place of a stored key that cannot be opened.
Unseal(w) ==
    LET o == job[w].request IN
        /\ job[w].pc = "unseal"
        /\ IF job[w].doc[o.provider] = None
           THEN Answer(w, IF o.provider \in EnvKeyed THEN "environment" ELSE "no key")
           ELSE \/ Answer(w, "refused")
                \/ Answer(w, IF job[w].doc[o.provider].under = master THEN "stored" ELSE "undecryptable")
        /\ UNCHANGED <<keychain, files, ops, saved, together>>

\* The round trip of write: the entry is read again and opened.
Verify(w) ==
    LET o == job[w].request
        entry == path["credentials"].doc[o.provider]
    IN  /\ job[w].pc = "verify"
        /\ IF ~path["credentials"].whole THEN Answer(w, "corrupt")
           ELSE \/ Answer(w, "refused")
                \/ IF entry = None THEN Answer(w, "verification failed")
                   ELSE IF entry.under # master THEN Answer(w, "undecryptable")
                   ELSE IF entry.key # o.key THEN Answer(w, "verification failed")
                   ELSE ContinueAt(w, "load")
        /\ UNCHANGED <<keychain, files, ops, saved, together>>

(***************************************************************************)
(* ProviderRegistry: settings.                                              *)
(***************************************************************************)

\* _load: a torn settings file reads as the defaults.
Loaded == IF path["settings"].whole THEN path["settings"].doc ELSE NoSettings

\* What each operation makes of the settings it loaded.
Changed(settings, o) ==
    CASE o.op = "set_key" -> [settings EXCEPT !.configured = @ \cup {o.provider}]
      [] o.op = "clear_key" -> [settings EXCEPT !.configured = @ \ {o.provider}]
      [] o.op = "set_enabled_models" ->
             [settings EXCEPT !.enabled = o.models,
                              !.default = IF @ \in o.models THEN @ ELSE None]
      [] o.op = "set_default_model" -> [settings EXCEPT !.default = o.model]

LoadSettings(w) ==
    LET o == job[w].request IN
        /\ job[w].pc = "load"
        /\ IF o.op = "set_default_model" /\ o.model \notin Loaded.enabled \cup {None}
           THEN Answer(w, "not enabled")
           ELSE job' = [job EXCEPT ![w].pc = "store", ![w].file = "settings",
                                   ![w].settings = Changed(Loaded, o)]
        /\ UNCHANGED <<keychain, files, ops, saved, together>>

\* _store reads the document once more for its other sections and moves one
\* that does not parse aside.
StoreSettings(w) ==
    /\ job[w].pc = "store"
    /\ path' = IF path["settings"].whole THEN path
               ELSE [path EXCEPT !["settings"] = Absent("settings")]
    /\ ContinueAt(w, "unlink")
    /\ UNCHANGED <<keychain, temp, ops, saved, together>>

(***************************************************************************)
(* _write_private_file, step by step.                                       *)
(***************************************************************************)

Temporary(w) == <<ProcessOfWorker[w], job[w].file>>

\* No file has the temporary name.
Free(c) == temp[c].writer = None

Payload(w) == IF job[w].file = "credentials" THEN job[w].doc ELSE job[w].settings

UnlinkStale(w) ==
    /\ job[w].pc = "unlink"
    /\ temp' = [temp EXCEPT ![Temporary(w)] = NoFile]
    /\ ContinueAt(w, "create")
    /\ UNCHANGED <<keychain, path, ops, saved, together>>

\* O_EXCL: fails when another worker of the process has just created it.
CreateTemporary(w) ==
    /\ job[w].pc = "create"
    /\ IF ~Free(Temporary(w))
       THEN Answer(w, "file exists") /\ UNCHANGED temp
       ELSE /\ temp' = [temp EXCEPT ![Temporary(w)] =
                            [writer |-> w, doc |-> Payload(w), whole |-> FALSE]]
            /\ ContinueAt(w, "write")
    /\ UNCHANGED <<keychain, path, ops, saved, together>>

\* The bytes go to the worker's own file, wherever it is by now.
WritePayload(w) ==
    /\ job[w].pc = "write"
    /\ temp' = [c \in DOMAIN temp |->
           IF c = Temporary(w) /\ temp[c].writer = w
           THEN [temp[c] EXCEPT !.whole = TRUE] ELSE temp[c]]
    /\ path' = [f \in Files |->
           IF f = job[w].file /\ path[f].writer = w
           THEN [path[f] EXCEPT !.whole = TRUE] ELSE path[f]]
    /\ ContinueAt(w, "replace")
    /\ UNCHANGED <<keychain, ops, saved, together>>

\* Whatever has the temporary name now replaces the file.
ReplaceFile(w) ==
    /\ job[w].pc = "replace"
    /\ IF Free(Temporary(w))
       THEN Answer(w, "file not found") /\ UNCHANGED files
       ELSE /\ path' = [path EXCEPT ![job[w].file] = temp[Temporary(w)]]
            /\ temp' = [temp EXCEPT ![Temporary(w)] = NoFile]
            /\ ContinueAt(w, "cleanup")
    /\ UNCHANGED <<keychain, ops, saved, together>>

Cleanup(w) ==
    /\ job[w].pc = "cleanup"
    /\ temp' = [temp EXCEPT ![Temporary(w)] = NoFile]
    /\ IF job[w].file = "settings" THEN Answer(w, "ok")
       ELSE ContinueAt(w, IF job[w].request.op = "set_key" THEN "verify" ELSE "load")
    /\ UNCHANGED <<keychain, path, ops, saved, together>>

\* A server process dies; its temporary files stay.
ServerDies(p) ==
    /\ \E w \in Busy : ProcessOfWorker[w] = p
    /\ job' = [w \in Workers |-> IF ProcessOfWorker[w] = p THEN Idle ELSE job[w]]
    /\ UNCHANGED <<keychain, files, ops, saved, together>>

Step(w) ==
    \/ EnsureMaster(w)
    \/ MintMaster(w)
    \/ ReadEntries(w)
    \/ Unseal(w)
    \/ Verify(w)
    \/ LoadSettings(w)
    \/ StoreSettings(w)
    \/ UnlinkStale(w)
    \/ CreateTemporary(w)
    \/ WritePayload(w)
    \/ ReplaceFile(w)
    \/ Cleanup(w)
    \/ Report(w)

RegistryNext ==
    \/ \E w \in Workers : (\E o \in Operations : Begin(w, o)) \/ Step(w)
    \/ \E p \in Processes : ServerDies(p)

RegistrySpec == RegistryInit /\ [][RegistryNext]_registryVars

(***************************************************************************)
(* Properties.                                                              *)
(***************************************************************************)

RegistryTypeOK ==
    /\ minted \in 0..MaxMaster /\ master \in 0..minted
    /\ path \in [Files -> File]
    /\ temp \in [Processes \X Files -> File]
    /\ saved \in [Providers -> Keys \cup {None}]
    /\ together \in {"never", "across processes", "in one process"}

\* _write_private_file, _store_entries and _store: "atomically".  Nobody who
\* opens the credentials or the settings file finds a part of one, through any
\* crash, as long as two requests never meet in one server process.
DocumentsAreWhole ==
    together # "in one process" => \A f \in Files : path[f].whole

\* Every sealed entry opens under the master key the Keychain holds.
EntriesOpen ==
    \A p \in Providers : path["credentials"].doc[p] # None =>
        path["credentials"].doc[p].under = master

\* set_key: "Store one provider's API key verbatim, verifying it round-trips".
\* A key whose request was acknowledged is in the credentials file and opens
\* until another request for the same provider begins.
AcknowledgedKeysStay ==
    \A p \in Providers : saved[p] # None =>
        path["credentials"].doc[p] = [key |-> saved[p], under |-> master]

\* "A locked keychain or a denied ACL is NOT no key": the environment never
\* answers for a provider whose stored key was acknowledged.
EnvironmentNeverShadows ==
    \A w \in Workers : job[w].answer = "environment" => saved[job[w].request.provider] = None

\* The composer's default is one of the models it enables, whichever requests
\* overwrite each other.
DefaultIsEnabled == path["settings"].doc.default \in path["settings"].doc.enabled \cup {None}

\* Saving or clearing one provider's key leaves the entries of the others as
\* they are in the file at that moment, as long as requests never overlap.
OtherEntriesUntouched ==
    [][\A w \in Workers :
          together = "never" /\ job[w].file = "credentials"
          /\ job[w].pc = "replace" /\ job'[w].pc = "cleanup" =>
              \A p \in Providers \ {job[w].request.provider} :
                  path'["credentials"].doc[p] = path["credentials"].doc[p]]_registryVars

\* Through any crash documents stay whole while no two requests meet in one server
\* process, and defaults stay enabled whoever meets.  While requests come one after
\* the other, what was acknowledged stays, what is stored opens, nothing else
\* answers in its place, and the keys of other providers are left alone.
KeysAreKept ==
    /\ [](/\ RegistryTypeOK
          /\ DocumentsAreWhole
          /\ DefaultIsEnabled
          /\ together = "never" =>
                EntriesOpen /\ AcknowledgedKeysStay /\ EnvironmentNeverShadows)
    /\ OtherEntriesUntouched
=============================================================================
