---------------------------- MODULE PackDelivery ----------------------------
(***************************************************************************)
(* Produced export packs on disk and their one-use download capabilities    *)
(* (exportrun.py, write_pack of exportpack.py, _PackResponse and the export *)
(* routes of api.py, LocalGuard's capability branch).                       *)
(*                                                                          *)
(* A pack is written in place under its final name, one unit at a time; a   *)
(* pack of Size units is whole.  Routes run on worker threads, the guard on *)
(* the event loop, so that minting, presenting, writing, listing, deleting  *)
(* and streaming interleave.  A secret is the number of the mint.           *)
(***************************************************************************)
EXTENDS Naturals, FiniteSets

CONSTANTS Packs, Listers, Minters, Fetchers, Size,
          MaxOpenTickets,       \* MAX_OPEN_TICKETS
          Ttl,                  \* TICKET_TTL_SECONDS
          MaxSecrets,           \* bound: capabilities minted
          MaxClock,             \* bound: ticks
          MaxCrashes,           \* bound: restarts
          NoPack

\* What packs, tickets and bounds may be.
DeliveryAssumption ==
    /\ Size \in Nat \ {0} /\ MaxOpenTickets \in Nat \ {0} /\ Ttl \in Nat \ {0}
    /\ MaxSecrets \in Nat /\ MaxClock \in Nat /\ MaxCrashes \in Nat
    /\ NoPack \notin Packs /\ IsFiniteSet(Minters)

VARIABLES
    writer,     \* the export that writes each pack
    bytes,      \* units in the file of each pack
    linked,     \* packs whose name is in the export directory
    archived,   \* the Project is archived
    clock,
    records,    \* the ticket table: secret -> record
    issued,     \* secrets minted so far
    mint,       \* what each minting request is doing
    fetch,      \* what each download request is doing
    scan,       \* what each listing request has found
    crashes,
    accepted    \* ghost: for each secret, how often it was accepted, and for which pack

packVars == <<writer, bytes, linked>>
tableVars == <<records, issued>>
deliveryVars == <<writer, bytes, linked, archived, clock, records, issued, mint, fetch,
                  scan, crashes, accepted>>

Secrets == 1..MaxSecrets

\* _Record; the path of a capability is its pack and its secret, and the table keeps
\* the order in which secrets were minted.
Record == [pack : Packs, expires : Nat, spent : BOOLEAN]

NoRecords == [s \in {} |-> NoPack]

MintIdle == [pc |-> "idle", pack |-> NoPack, now |-> 0]

FetchIdle == [pc |-> "idle", secret |-> 0, pack |-> NoPack, length |-> 0, sent |-> 0, whole |-> FALSE]

ScanIdle == [pc |-> "idle", names |-> {}, found |-> {}, undescribed |-> 0]

DeliveryInit ==
    /\ writer = [p \in Packs |-> "none"]
    /\ bytes = [p \in Packs |-> 0]
    /\ linked = {}
    /\ archived = FALSE
    /\ clock = 0
    /\ records = NoRecords /\ issued = 0
    /\ mint = [m \in Minters |-> MintIdle]
    /\ fetch = [f \in Fetchers |-> FetchIdle]
    /\ scan = [l \in Listers |-> ScanIdle]
    /\ crashes = 0
    /\ accepted = [s \in Secrets |-> [times |-> 0, pack |-> NoPack]]

(***************************************************************************)
(* Writing and removing packs.                                              *)
(***************************************************************************)

\* create_export: the Project is live when the export begins.
BeginExport(p) ==
    /\ ~archived
    /\ writer[p] = "none"
    /\ writer' = [writer EXCEPT ![p] = "building"]
    /\ UNCHANGED <<bytes, linked, archived, clock, tableVars, mint, fetch, scan, crashes, accepted>>

\* write_pack: everything is checked before the destination is created, exclusively
\* and once per pack id; a refused pack leaves no file.
CreateFile(p) ==
    /\ writer[p] = "building"
    /\ \/ writer' = [writer EXCEPT ![p] = "refused"] /\ UNCHANGED linked
       \/ writer' = [writer EXCEPT ![p] = "writing"] /\ linked' = linked \cup {p}
    /\ UNCHANGED <<bytes, archived, clock, tableVars, mint, fetch, scan, crashes, accepted>>

\* A member is written through the open descriptor, whether or not the name is
\* still there; the write may fail, and leaves what is written.
WriteMember(p) ==
    /\ writer[p] = "writing" /\ bytes[p] < Size
    /\ \/ bytes' = [bytes EXCEPT ![p] = @ + 1] /\ UNCHANGED writer
       \/ writer' = [writer EXCEPT ![p] = "failed"] /\ UNCHANGED bytes
    /\ UNCHANGED <<linked, archived, clock, tableVars, mint, fetch, scan, crashes, accepted>>

\* _produced: the length is read by name, so a pack deleted meanwhile is a failure.
Produced(p) ==
    /\ writer[p] = "writing" /\ bytes[p] = Size
    /\ writer' = [writer EXCEPT ![p] = IF p \in linked THEN "done" ELSE "failed"]
    /\ UNCHANGED <<bytes, linked, archived, clock, tableVars, mint, fetch, scan, crashes, accepted>>

\* delete_pack: exactly the named pack; an archived Project may delete too.
DeletePack(p) ==
    /\ p \in linked
    /\ linked' = linked \ {p}
    /\ UNCHANGED <<writer, bytes, archived, clock, tableVars, mint, fetch, scan, crashes, accepted>>

ArchiveProject ==
    /\ ~archived
    /\ archived' = TRUE
    /\ UNCHANGED <<packVars, clock, tableVars, mint, fetch, scan, crashes, accepted>>

(***************************************************************************)
(* list_packs: a directory scan, entry by entry.                            *)
(***************************************************************************)

BeginScan(l) ==
    /\ scan[l].pc # "scanning"
    /\ scan' = [scan EXCEPT ![l] = [ScanIdle EXCEPT !.pc = "scanning", !.names = linked]]
    /\ UNCHANGED <<packVars, archived, clock, tableVars, mint, fetch, crashes, accepted>>

\* An entry without a readable manifest is listed and counted as undescribed.
Found(seen, p) ==
    [seen EXCEPT !.names = @ \ {p},
         !.found = @ \cup {[pack |-> p, size |-> bytes[p], readable |-> bytes[p] = Size]},
         !.undescribed = IF bytes[p] = Size THEN @ ELSE @ + 1]

\* An entry that is gone by the time it is looked at fails the whole listing.
ScanEntry(l, p) ==
    /\ scan[l].pc = "scanning" /\ p \in scan[l].names
    /\ scan' = [scan EXCEPT ![l] =
           IF p \in linked THEN Found(scan[l], p) ELSE [ScanIdle EXCEPT !.pc = "unreadable"]]
    /\ UNCHANGED <<packVars, archived, clock, tableVars, mint, fetch, crashes, accepted>>

EndScan(l) ==
    /\ scan[l].pc = "scanning" /\ scan[l].names = {}
    /\ scan' = [scan EXCEPT ![l].pc = "listed"]
    /\ UNCHANGED <<packVars, archived, clock, tableVars, mint, fetch, crashes, accepted>>

(***************************************************************************)
(* DownloadTickets.mint, reached through create_download.                   *)
(***************************************************************************)

\* The Project is live and the pack is there before anything is minted; the clock is
\* read once.
BeginMint(m, p) ==
    /\ mint[m].pc = "idle"
    /\ ~archived /\ p \in linked
    /\ mint' = [mint EXCEPT ![m] = [pc |-> "prune", pack |-> p, now |-> clock]]
    /\ UNCHANGED <<packVars, archived, clock, tableVars, fetch, scan, crashes, accepted>>

Fresh(s, now) == now < records[s].expires

\* The newest of some secrets, fewer than the table has room for.
Newest(secrets) ==
    {s \in secrets : Cardinality({t \in secrets : t >= s}) < MaxOpenTickets}

Keep(secrets) == records' = [s \in secrets |-> records[s]]

\* _prune: everything expired, then the oldest while the table is full.
Prune(m) ==
    /\ mint[m].pc = "prune"
    /\ Keep(Newest({s \in DOMAIN records : Fresh(s, mint[m].now)}))
    /\ mint' = [mint EXCEPT ![m].pc = "insert"]
    /\ UNCHANGED <<packVars, archived, clock, issued, fetch, scan, crashes, accepted>>

Insert(m) ==
    LET new == [pack |-> mint[m].pack, expires |-> mint[m].now + Ttl, spent |-> FALSE] IN
    /\ mint[m].pc = "insert"
    /\ issued < MaxSecrets
    /\ issued' = issued + 1
    /\ records' = [s \in DOMAIN records \cup {issued + 1} |->
                       IF s = issued + 1 THEN new ELSE records[s]]
    /\ mint' = [mint EXCEPT ![m] = MintIdle]
    /\ UNCHANGED <<packVars, archived, clock, fetch, scan, crashes, accepted>>

(***************************************************************************)
(* The guard: holds, then present.                                          *)
(***************************************************************************)

Held(s) == s \in DOMAIN records

Ended(f, how) == fetch' = [fetch EXCEPT ![f].pc = how]

\* A request for the path of pack p with secret s.  A path whose secret is not
\* held is an ordinary path, and needs the session credential.
Holds(f, s, p) ==
    /\ fetch[f].pc = "idle"
    /\ s <= issued
    /\ fetch' = [fetch EXCEPT ![f] = [FetchIdle EXCEPT
           !.pc = IF Held(s) THEN "present" ELSE "refused", !.secret = s, !.pack = p]]
    /\ UNCHANGED <<packVars, archived, clock, tableVars, mint, scan, crashes, accepted>>

\* The download is of the record's pack, which is the one its path names.
Spend(f) ==
    LET s == fetch[f].secret IN
    /\ records' = [records EXCEPT ![s].spent = TRUE]
    /\ accepted' = [accepted EXCEPT ![s] = [times |-> @.times + 1, pack |-> records[s].pack]]
    /\ fetch' = [fetch EXCEPT ![f].pc = "read"]

RefuseTicket(f) == Ended(f, "refused") /\ UNCHANGED accepted

\* Mutant of Present: a capability opens the pack its URL names.
PresentAnywhere(f) ==
    LET s == fetch[f].secret IN
    /\ fetch[f].pc = "present"
    /\ IF Held(s) /\ Fresh(s, clock) /\ ~records[s].spent
       THEN Spend(f)
       ELSE RefuseTicket(f) /\ UNCHANGED records
    /\ UNCHANGED <<packVars, archived, clock, issued, mint, scan, crashes>>

\* present: unknown, presented at another pack, expired (and forgotten), spent, or
\* accepted and spent.
Present(f) ==
    LET s == fetch[f].secret IN
    /\ fetch[f].pc = "present"
    /\ IF ~Held(s) \/ records[s].pack # fetch[f].pack
       THEN RefuseTicket(f) /\ UNCHANGED records
       ELSE IF ~Fresh(s, clock) THEN RefuseTicket(f) /\ Keep(DOMAIN records \ {s})
       ELSE IF records[s].spent THEN RefuseTicket(f) /\ UNCHANGED records
       ELSE Spend(f)
    /\ UNCHANGED <<packVars, archived, clock, issued, mint, scan, crashes>>

(***************************************************************************)
(* The download: read_pack on a worker thread, then _PackResponse.          *)
(***************************************************************************)

\* The length that will be declared is the file's length now.
ReadPack(f) ==
    LET p == fetch[f].pack IN
    /\ fetch[f].pc = "read"
    /\ fetch' = [fetch EXCEPT ![f] =
           IF p \notin linked THEN [@ EXCEPT !.pc = "refused"]
           ELSE [@ EXCEPT !.pc = "open", !.length = bytes[p], !.whole = bytes[p] = Size]]
    /\ UNCHANGED <<packVars, archived, clock, tableVars, mint, scan, crashes, accepted>>

\* The head is on the wire; the file is opened by name when the body starts.  A
\* missing file then leaves the declared length unmet.
OpenFile(f) ==
    /\ fetch[f].pc = "open"
    /\ Ended(f, IF fetch[f].pack \in linked THEN "streaming"
                ELSE IF fetch[f].length = 0 THEN "complete" ELSE "truncated")
    /\ UNCHANGED <<packVars, archived, clock, tableVars, mint, scan, crashes, accepted>>

\* A unit goes out while fewer than declared were sent; bytes beyond the declared
\* length are dropped.  The end of the file ends the response.
SendChunk(f) ==
    LET d == fetch[f] IN
    /\ d.pc = "streaming"
    /\ IF d.sent < d.length /\ d.sent < bytes[d.pack]
       THEN fetch' = [fetch EXCEPT ![f].sent = @ + 1]
       ELSE Ended(f, IF d.sent = d.length THEN "complete" ELSE "truncated")
    /\ UNCHANGED <<packVars, archived, clock, tableVars, mint, scan, crashes, accepted>>

\* The client goes away: drain raises and the generator is closed.
Disconnect(f) ==
    /\ fetch[f].pc = "streaming"
    /\ fetch[f].sent < fetch[f].length
    /\ Ended(f, "truncated")
    /\ UNCHANGED <<packVars, archived, clock, tableVars, mint, scan, crashes, accepted>>

Answered == {"refused", "complete", "truncated"}

ForgetFetch(f) ==
    /\ fetch[f].pc \in Answered
    /\ fetch' = [fetch EXCEPT ![f] = FetchIdle]
    /\ UNCHANGED <<packVars, archived, clock, tableVars, mint, scan, crashes, accepted>>

(***************************************************************************)
(* Time and restarts.                                                       *)
(***************************************************************************)

Tick ==
    /\ clock < MaxClock
    /\ clock' = clock + 1
    /\ UNCHANGED <<packVars, archived, tableVars, mint, fetch, scan, crashes, accepted>>

\* The process ends: the table and every request are gone, files stay.
Crash ==
    /\ crashes < MaxCrashes
    /\ crashes' = crashes + 1
    /\ records' = NoRecords
    /\ mint' = [m \in Minters |-> MintIdle]
    /\ fetch' = [f \in Fetchers |-> FetchIdle]
    /\ scan' = [l \in Listers |-> ScanIdle]
    /\ writer' = [p \in Packs |-> IF writer[p] \in {"building", "writing"} THEN "failed" ELSE writer[p]]
    /\ UNCHANGED <<bytes, linked, archived, clock, issued, accepted>>

FetchStep(f) == Present(f) \/ ReadPack(f) \/ OpenFile(f) \/ SendChunk(f)

DeliveryNext ==
    \/ \E p \in Packs : \/ BeginExport(p) \/ CreateFile(p) \/ WriteMember(p) \/ Produced(p) \/ DeletePack(p)
    \/ \E l \in Listers : BeginScan(l) \/ EndScan(l) \/ \E p \in Packs : ScanEntry(l, p)
    \/ ArchiveProject \/ Tick \/ Crash
    \/ \E m \in Minters : Prune(m) \/ Insert(m) \/ \E p \in Packs : BeginMint(m, p)
    \/ \E f \in Fetchers : \/ FetchStep(f) \/ Disconnect(f) \/ ForgetFetch(f)
                           \/ \E s \in Secrets, p \in Packs : Holds(f, s, p)

DeliverySpec == DeliveryInit /\ [][DeliveryNext]_deliveryVars

(***************************************************************************)
(* Properties.                                                              *)
(***************************************************************************)

\* Every variable keeps its shape.
TypeOK ==
    /\ writer \in [Packs -> {"none", "building", "refused", "writing", "done", "failed"}]
    /\ bytes \in [Packs -> 0..Size]
    /\ linked \subseteq Packs
    /\ archived \in BOOLEAN
    /\ clock \in Nat /\ issued \in 0..MaxSecrets /\ crashes \in Nat
    /\ DOMAIN records \subseteq 1..issued /\ \A s \in DOMAIN records : records[s] \in Record
    /\ mint \in [Minters -> [pc : {"idle", "prune", "insert"}, pack : Packs \cup {NoPack}, now : Nat]]
    /\ fetch \in [Fetchers ->
           [pc : {"idle", "present", "read", "open", "streaming"} \cup Answered,
            secret : 0..MaxSecrets, pack : Packs \cup {NoPack},
            length : 0..Size, sent : 0..Size, whole : BOOLEAN]]
    /\ scan \in [Listers -> [pc : {"idle", "scanning", "listed", "unreadable"}, names : SUBSET Packs,
                 found : SUBSET [pack : Packs, size : 0..Size, readable : BOOLEAN],
                 undescribed : Nat]]
    /\ accepted \in [Secrets -> [times : Nat, pack : Packs \cup {NoPack}]]

\* A capability is accepted at most once, by however many requests race for it,
\* across evictions and restarts.
OneUse == \A s \in Secrets : accepted[s].times <= 1

\* A request past the guard serves the pack its capability was minted for.
ServesItsPack ==
    \A f \in Fetchers : fetch[f].pc \in {"read", "open", "streaming", "complete", "truncated"} =>
        /\ accepted[fetch[f].secret].times > 0
        /\ fetch[f].pack = accepted[fetch[f].secret].pack

\* A download that the client takes for complete of a pack that was whole when its
\* length was read carries the whole pack, even when the pack is deleted meanwhile;
\* a download never carries more than it declared.
CompleteIsWhole ==
    \A f \in Fetchers :
        /\ fetch[f].sent <= fetch[f].length
        /\ fetch[f].pc = "complete" => fetch[f].sent = fetch[f].length
        /\ fetch[f].pc = "complete" /\ fetch[f].whole => fetch[f].sent = Size

\* A finished listing describes as readable only whole packs, and counts every
\* other pack it lists as undescribed: a pack cut short by a crash, a full disk or
\* an export still writing is never shown as described.
ListingIsHonest ==
    \A l \in Listers :
        /\ \A e \in scan[l].found : e.readable => e.size = Size
        /\ scan[l].undescribed = Cardinality({e \in scan[l].found : ~e.readable})

\* The ticket table never exceeds its bound by more than the requests minting at once.
TableBounded == Cardinality(DOMAIN records) < MaxOpenTickets + Cardinality(Minters)

\* An acknowledged pack is whole until it is deleted.
ProducedPacksAreWhole == \A p \in Packs : writer[p] = "done" => bytes[p] = Size

\* Each capability opens its pack once, and what is listed or downloaded as whole
\* is whole, while packs are written, deleted and cut short.
DeliveryIsHonest ==
    /\ TypeOK
    /\ OneUse /\ ServesItsPack /\ TableBounded
    /\ CompleteIsWhole /\ ListingIsHonest /\ ProducedPacksAreWhole

=============================================================================
