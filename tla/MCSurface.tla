------------------------------ MODULE MCSurface ------------------------------
(***************************************************************************)
(* Instances for TLC of what a browser or a client meets: the guard before  *)
(* the routes, the connection they answer on, the start of servers, and     *)
(* export packs from their paths to their download.  part, chosen at the    *)
(* start, says which of them a behaviour explores; the others stay in their *)
(* initial state.                                                           *)
(***************************************************************************)
EXTENDS LocalGuard, ResponseWire, ServerLifecycle, PackNamespace, PackAssembly, PackDelivery,
        TLC

CONSTANTS w1, w2, p2, m2, Parts

VARIABLES part

\* Any request against one capability; up to four bytes in events of up to two,
\* lengths of up to three; three processes that start and close over one data root; a
\* Run of two outputs, selections of up to two Versions, one possible finding.
ASSUME WireAssumption /\ LifecycleAssumption /\ AssemblyAssumption /\ DeliveryAssumption

\* Two spellings of an ordinary name and of a document of the pack, and a bad one.
MCFolded == "Data" :> "data" @@ "Manifest" :> "manifest" @@ [s \in Segments |-> s]

ASSUME NamespaceAssumption

OnePack == writer'[p2] = "none" /\ \A f \in Fetchers : fetch'[f].pack # p2
NoListing == \A l \in Listers : scan'[l] = ScanIdle

\* One pack, two downloads, a listing, a deletion, a failing writer and a crash.
Files == OnePack /\ issued' <= 2 /\ mint'[m2] = MintIdle /\ clock' = 0

\* Two packs that were written when one request mints for them, and two downloads.
Tickets ==
    /\ issued' <= 2 /\ mint'[m2] = MintIdle /\ crashes' = 0 /\ NoListing
    /\ ~archived' /\ \A p \in Packs : writer'[p] \notin {"refused", "failed"}
    /\ mint' # mint => \A p \in Packs : writer[p] = "done"

\* Two requests mint at once for one pack, and time.
Table == OnePack /\ fetch'[w2] = FetchIdle /\ crashes' = 0 /\ NoListing

\* No connection, no request for a pack, and no export, before any of them begins.
NoConnection == WireInit /\ method = "GET"
NoPaths == entries = <<>> /\ verdict = "pending"
NoExport == AssemblyInit /\ published = 0 /\ supplies = {}

Init ==
    /\ part \in Parts
    /\ GuardInit /\ ServerInit /\ DeliveryInit
    /\ IF part = "wire" THEN WireInit ELSE NoConnection
    /\ IF part = "paths" THEN NamespaceInit ELSE NoPaths
    /\ IF part = "assembly" THEN AssemblyInit ELSE NoExport

OnDelivery == UNCHANGED <<guardVars, wireVars, lifecycleVars, namespaceVars, assemblyVars>>

Next ==
    /\ \/ /\ part = "guard" /\ GuardNext
          /\ UNCHANGED <<wireVars, lifecycleVars, namespaceVars, assemblyVars, deliveryVars>>
       \/ /\ part = "wire" /\ WireNext
          /\ UNCHANGED <<guardVars, lifecycleVars, namespaceVars, assemblyVars, deliveryVars>>
       \/ /\ part = "servers" /\ ServerNext
          /\ UNCHANGED <<guardVars, wireVars, namespaceVars, assemblyVars, deliveryVars>>
       \/ /\ part = "paths" /\ NamespaceNext
          /\ UNCHANGED <<guardVars, wireVars, lifecycleVars, assemblyVars, deliveryVars>>
       \/ /\ part = "assembly" /\ AssemblyNext
          /\ UNCHANGED <<guardVars, wireVars, lifecycleVars, namespaceVars, deliveryVars>>
       \/ part = "files" /\ DeliveryNext /\ Files /\ OnDelivery
       \/ part = "tickets" /\ DeliveryNext /\ Tickets /\ OnDelivery
       \/ part = "table" /\ DeliveryNext /\ Table /\ OnDelivery
    /\ UNCHANGED part

Spec ==
    /\ Init
    /\ [][Next]_<<part, guardVars, wireVars, lifecycleVars, namespaceVars, assemblyVars,
                  deliveryVars>>

Symmetry == Permutations({w1, w2})
=============================================================================
