--------------------------- MODULE SurfaceProofs ---------------------------
(***************************************************************************)
(* Proofs about what a browser or a client of the loopback server meets,    *)
(* for every value of the constants: the guard (LocalGuard), connections    *)
(* (ResponseWire), the token file (ServerLifecycle), and export packs from  *)
(* their paths (PackNamespace) and their contents (PackAssembly) to their   *)
(* download (PackDelivery).                                                 *)
(***************************************************************************)
EXTENDS LocalGuard, ResponseWire, ServerLifecycle, PackNamespace, PackAssembly, PackDelivery,
        FiniteSetTheorems, SequenceTheorems, WellFoundedInduction, TLAPS

(***************************************************************************)
(* LocalGuard.                                                              *)
(***************************************************************************)

\* In whatever order requests come and the capability is spent or forgotten: past
\* the guard there is a credential, and a page of another site changes nothing.
THEOREM GuardIsAskedAlways == GuardSpec => GuardIsAsked
<1>1. ASSUME NEW r \in Request, Arrive(r)
      PROVE  EntryNeedsACredential /\ CrossSiteChangesNothing
  <2> request' = r /\ outcome' = Judged(r)
    BY <1>1 DEF Arrive, Ends
  <2>1. outcome' = "download" => ticket = "live" /\ ticket' = "spent"
    BY <1>1 DEF Arrive, Ends, Judged, Credential, RefuseOrigin, RefuseNavigation, RefuseToken,
                Request
  <2>2. outcome' = "route" => r.token = "right"
    BY DEF Judged, Credential, RefuseOrigin, RefuseNavigation, RefuseToken, Request
  <2>3. Foreign(r) => outcome' \notin Entries
    BY DEF Foreign, Entries, Judged, Credential, RefuseOrigin, RefuseNavigation, RefuseToken,
           Request, CrossSite
  <2>4. outcome' # "download" => ticket' = ticket
    BY <1>1 DEF Arrive, Ends
  <2> QED
    BY <2>1, <2>2, <2>3, <2>4 DEF EntryNeedsACredential, CrossSiteChangesNothing, Entries
<1>2. [GuardNext]_guardVars
        => [Arrival => EntryNeedsACredential /\ CrossSiteChangesNothing]_guardVars
  BY <1>1 DEF GuardNext, Forget, Arrival
<1> QED
  BY <1>2, PTL DEF GuardSpec, GuardIsAsked

(***************************************************************************)
(* ResponseWire.                                                            *)
(***************************************************************************)

WireRecord ==
    [started : BOOLEAN, ended : BOOLEAN, silent : BOOLEAN, chunked : BOOLEAN,
     remaining : Nat, promised : Nat \cup {Undeclared}]

\* The head is written when the response starts, or when it never will.
HeadInv ==
    /\ stage \in {"reading", "running", "closed"}
    /\ stage # "closed" => heads = (IF wire.started THEN 1 ELSE 0) /\ failure = "none"
    /\ stage = "closed" => heads = 1 \/ (heads = 0 /\ failure = "client")
    /\ stage = "reading" => ~wire.started

\* What is on the wire under each framing.
FramingInv ==
    /\ wire \in WireRecord
    /\ sent \in Nat /\ emitted \in Nat /\ terminated \in BOOLEAN
    /\ ~wire.started => wire = NewWire /\ sent = 0 /\ emitted = 0 /\ ~terminated
    /\ wire.silent => ~wire.chunked /\ sent = 0
    /\ wire.chunked => sent = emitted
    /\ wire.started /\ ~wire.silent /\ ~wire.chunked =>
         /\ wire.promised \in Nat
         /\ sent = Least(emitted, wire.promised)
         /\ wire.remaining = wire.promised - sent
    /\ terminated => wire.chunked /\ wire.ended

WireInv == HeadInv /\ FramingInv

LEMMA WireStep ==
    ASSUME WireAssumption, WireInv, [WireNext]_wireVars
    PROVE  WireInv'
<1> USE DEF WireInv, HeadInv, FramingInv, WireRecord, NewWire
<1>1. CASE RefuseRequest
  BY <1>1 DEF RefuseRequest, Body
<1>2. CASE AbandonRequest
  BY <1>2 DEF AbandonRequest, Body
<1>3. CASE Invoke
  BY <1>3 DEF Invoke, Body
<1>4. CASE Raise
  BY <1>4 DEF Raise, Body
<1>5. CASE Vanish
  BY <1>5 DEF Vanish, Body
<1>6. CASE Return
  <2>1. HeadInv'
    BY <1>6 DEF Return
  <2>2. CASE wire.started
    <3>1. /\ wire' = [wire EXCEPT !.ended = TRUE] /\ sent' = sent /\ emitted' = emitted
          /\ terminated' = (terminated \/ (wire.chunked /\ ~wire.ended))
      BY <1>6, <2>2 DEF Return, Ending
    <3> QED
      BY <2>1, <2>2, <3>1
  <2>3. CASE ~wire.started
    BY <1>6, <2>1, <2>3 DEF Return
  <2> QED
    BY <2>2, <2>3
<1>7. ASSUME NEW status \in Statuses, NEW declared \in 0..MaxDeclared \cup {Undeclared},
             Begin(status, declared)
      PROVE  WireInv'
  <2> declared \in Nat \cup {Undeclared} /\ Undeclared \notin Nat
    BY DEF WireAssumption
  <2> DEFINE quiet == Silent(status)
             length == IF quiet \/ declared = Undeclared THEN 0 ELSE declared
  <2>1. /\ quiet \in BOOLEAN /\ length \in Nat
        /\ Reported(status, declared) \in Nat \cup {Undeclared}
        /\ ~quiet => Reported(status, declared) = declared
    BY DEF Silent, Reported, Statuses
  <2>2. /\ wire' = [wire EXCEPT !.started = TRUE, !.silent = quiet,
                        !.chunked = ~quiet /\ declared = Undeclared,
                        !.remaining = length, !.promised = Reported(status, declared)]
        /\ stage = "running" /\ ~wire.started /\ heads' = heads + 1
        /\ UNCHANGED <<stage, sent, terminated, emitted, failure>>
    BY <1>7 DEF Begin, Body
  <2> HIDE DEF quiet
  <2>3. HeadInv'
    BY <2>2
  <2>4. /\ wire' \in WireRecord /\ wire'.started
        /\ wire'.silent = quiet /\ wire'.chunked = (~quiet /\ declared = Undeclared)
        /\ wire'.remaining = length /\ wire'.promised = Reported(status, declared)
    BY <2>1, <2>2
  <2>5. sent' = 0 /\ emitted' = 0 /\ terminated' = FALSE
    BY <2>2
  <2>6. CASE quiet
    <3>1. wire'.silent /\ ~wire'.chunked
      BY <2>4, <2>6
    <3> QED
      BY <2>3, <2>4, <2>5, <3>1
  <2>7. CASE ~quiet /\ declared = Undeclared
    <3>1. ~wire'.silent /\ wire'.chunked
      BY <2>4, <2>7
    <3> QED
      BY <2>3, <2>4, <2>5, <3>1
  <2>8. CASE ~quiet /\ declared # Undeclared
    <3>1. ~wire'.silent /\ ~wire'.chunked
      BY <2>4, <2>8
    <3>2. wire'.promised = declared /\ wire'.remaining = declared /\ declared \in Nat
      BY <2>1, <2>4, <2>8
    <3>3. sent' = Least(emitted', wire'.promised) /\ wire'.remaining = wire'.promised - sent'
      BY <2>5, <3>2 DEF Least
    <3>4. wire' \in WireRecord /\ wire'.started
      BY <2>4
    <3>5. FramingInv'
      <4>1. sent' \in Nat /\ emitted' \in Nat /\ terminated' \in BOOLEAN /\ ~terminated'
        BY <2>5
      <4>2. wire'.promised \in Nat
        BY <3>2
      <4> QED
        BY <3>1, <3>3, <3>4, <4>1, <4>2
    <3> QED
      BY <2>3, <3>5
  <2> QED
    BY <2>1, <2>6, <2>7, <2>8
<1>8. ASSUME NEW n \in 0..MaxChunk, NEW more \in BOOLEAN, Continue(n, more)
      PROVE  WireInv'
  <2> n \in Nat
    BY DEF WireAssumption
  <2> DEFINE left == IF wire.chunked THEN wire.remaining
                     ELSE wire.remaining - Least(wire.remaining, n)
  <2>1. /\ wire' = [wire EXCEPT !.remaining = left, !.ended = ~more]
        /\ stage = "running" /\ wire.started /\ ~wire.ended
        /\ emitted' = emitted + n /\ sent' = sent + Fits(n)
        /\ terminated' = (terminated \/ (~more /\ wire.chunked /\ ~wire.ended))
        /\ UNCHANGED <<stage, heads, failure>>
    BY <1>8 DEF Continue, Ending
  <2>2. left \in Nat /\ Fits(n) \in Nat
    BY DEF Least, Fits
  <2>3. HeadInv'
    BY <2>1, <2>2
  <2>4. wire' \in WireRecord
    BY <2>1, <2>2
  <2>5. CASE wire.silent
    BY <2>1, <2>2, <2>3, <2>4, <2>5 DEF Fits
  <2>6. CASE wire.chunked
    BY <2>1, <2>2, <2>3, <2>4, <2>6 DEF Fits
  <2>7. CASE ~wire.silent /\ ~wire.chunked
    <3>1. /\ wire.promised \in Nat /\ sent = Least(emitted, wire.promised)
          /\ wire.remaining = wire.promised - sent
      BY <2>1, <2>7
    <3>2. /\ sent' = sent + Least(n, wire.remaining)
          /\ left = wire.remaining - Least(wire.remaining, n)
      BY <2>1, <2>7 DEF Fits
    <3>3. /\ sent' = Least(emitted', wire.promised)
          /\ left = wire.promised - sent'
      BY <2>1, <3>1, <3>2 DEF Least
    <3>4. /\ wire'.promised = wire.promised /\ wire'.remaining = left
          /\ wire'.started /\ ~wire'.silent /\ ~wire'.chunked
      BY <2>1, <2>7
    <3>5. ~terminated'
      BY <2>1, <2>7
    <3>6. FramingInv'
      BY <2>1, <2>2, <2>4, <3>1, <3>3, <3>4, <3>5
    <3> QED
      BY <2>3, <3>6
  <2> QED
    BY <2>5, <2>6, <2>7
<1>9. CASE UNCHANGED wireVars
  BY <1>9 DEF wireVars, Body
<1> QED
  BY <1>1, <1>2, <1>3, <1>4, <1>5, <1>6, <1>7, <1>8, <1>9 DEF WireNext

\* Whatever the application sends and wherever it or the client stops: a response
\* that looks complete is, and a connection carries one status line.
THEOREM ResponsesAreFaithfulAlways ==
    ASSUME WireAssumption
    PROVE  WireSpec => []ResponsesAreFaithful
<1>1. WireInit => WireInv
  <2> SUFFICES ASSUME WireInit
               PROVE  WireInv
    OBVIOUS
  <2>1. wire = NewWire /\ wire \in WireRecord
    BY DEF WireInit, NewWire, WireRecord
  <2>2. ~wire.started /\ ~wire.silent /\ ~wire.chunked
    BY <2>1 DEF NewWire
  <2>3. HeadInv
    BY <2>2 DEF WireInit, HeadInv
  <2>4. FramingInv
    BY <2>1, <2>2 DEF WireInit, FramingInv
  <2> QED
    BY <2>3, <2>4 DEF WireInv
<1>2. WireInv => ResponsesAreFaithful
  BY WireAssumption DEF WireInv, HeadInv, FramingInv, WireRecord, ResponsesAreFaithful,
       CompleteIsFaithful, TruncationShows, OneResponse, Complete, Least, WireAssumption
<1> QED
  BY <1>1, <1>2, WireStep, PTL DEF WireSpec

(***************************************************************************)
(* ServerLifecycle.                                                         *)
(***************************************************************************)

Places == {"idle", "bound", "built", "unlinked", "created", "published", "running", "stopped",
           "ended", "failed", "killed"}

\* Whose token the file may hold, and whether it is whole.
FileInv ==
    /\ place \in [Processes -> Places]
    /\ serving = {p \in Processes : place[p] = "running"}
    /\ file \in Processes \cup {NoProcess} /\ whole \in BOOLEAN
    /\ file # NoProcess =>
         /\ place[file] \in {"created", "published", "running", "stopped", "killed"}
         /\ ~whole => place[file] \in {"created", "killed"}

\* Nobody failed, closed or was killed.
AllWell == \A p \in Processes : place[p] \notin {"failed", "stopped", "ended", "killed"}

\* As long as all goes well, a token that was written is there, or is being replaced.
TokenInv ==
    AllWell /\ (\E p \in Processes : place[p] \in {"created", "published", "running"}) =>
        file # NoProcess \/ \E p \in Processes : place[p] = "unlinked"

ServerInv == FileInv /\ TokenInv

LEMMA ServerStep ==
    ASSUME LifecycleAssumption, ServerInv, [ServerNext]_lifecycleVars
    PROVE  ServerInv'
<1> USE DEF LifecycleAssumption, ServerInv, FileInv, TokenInv, AllWell, Places, Goto
<1>1. ASSUME NEW p \in Processes, Bind(p)
      PROVE  ServerInv'
  BY <1>1 DEF Bind
<1>2. ASSUME NEW p \in Processes, Build(p)
      PROVE  ServerInv'
  BY <1>2 DEF Build
<1>3. ASSUME NEW p \in Processes, UnlinkToken(p)
      PROVE  ServerInv'
  BY <1>3 DEF UnlinkToken
<1>4. ASSUME NEW p \in Processes, CreateToken(p)
      PROVE  ServerInv'
  BY <1>4 DEF CreateToken
<1>5. ASSUME NEW p \in Processes, WriteToken(p)
      PROVE  ServerInv'
  BY <1>5 DEF WriteToken
<1>6. ASSUME NEW p \in Processes, StartServing(p)
      PROVE  ServerInv'
  BY <1>6 DEF StartServing
<1>7. ASSUME NEW p \in Processes, Stop(p)
      PROVE  ServerInv'
  BY <1>7 DEF Stop
<1>8. ASSUME NEW p \in Processes, RemoveToken(p)
      PROVE  ServerInv'
  BY <1>8 DEF RemoveToken
<1>9. ASSUME NEW p \in Processes, Exit(p)
      PROVE  ServerInv'
  BY <1>9 DEF Exit
<1>10. CASE UNCHANGED lifecycleVars
  BY <1>10 DEF lifecycleVars
<1> QED
  BY <1>1, <1>2, <1>3, <1>4, <1>5, <1>6, <1>7, <1>8, <1>9, <1>10 DEF ServerNext, Step

\* However many processes start, fail, close and are killed over one data root: the
\* token file leads to a server unless one was killed, and a torn one has a writer.
THEOREM ServersAreFoundAlways ==
    ASSUME LifecycleAssumption
    PROVE  ServerSpec => []ServersAreFound
<1>1. ServerInit => ServerInv
  BY LifecycleAssumption DEF ServerInit, ServerInv, FileInv, TokenInv, Places
<1>2. ServerInv => ServersAreFound
  <2> SUFFICES ASSUME ServerInv
               PROVE  ServersAreFound
    OBVIOUS
  <2> USE DEF ServerInv, FileInv
  <2>1. TornTokensHaveAWriter
    BY DEF TornTokensHaveAWriter
  <2>2. NoStaleToken
    BY DEF NoStaleToken
  <2>3. StartedServersAreFound
    BY LifecycleAssumption DEF StartedServersAreFound, TokenInv, AllWell, LifecycleAssumption
  <2> QED
    BY <2>1, <2>2, <2>3 DEF ServersAreFound
<1> QED
  BY <1>1, <1>2, ServerStep, PTL DEF ServerSpec

(***************************************************************************)
(* PackNamespace.                                                           *)
(***************************************************************************)

\* What is accepted passed every check.
JudgedInv ==
    /\ entries \in UNION {[1..n -> Paths] : n \in 1..MaxEntries}
    /\ verdict = "accepted" => ~UnderReserved /\ ~Collides /\ ~NeedsDirectory

LEMMA JudgedStep ==
    ASSUME JudgedInv, [NamespaceNext]_namespaceVars
    PROVE  JudgedInv'
<1>1. CASE Judge
  BY <1>1 DEF Judge, JudgedInv, UnderReserved, Collides, NeedsDirectory, Stored, Namespace
<1>2. CASE UNCHANGED namespaceVars
  BY <1>2 DEF namespaceVars, JudgedInv, UnderReserved, Collides, NeedsDirectory, Stored, Namespace
<1> QED
  BY <1>1, <1>2 DEF NamespaceNext

\* For any segments and any folding: the members of an accepted pack extract side by
\* side, and no two become one file where names are folded.
THEOREM PacksExtractAlways ==
    ASSUME NamespaceAssumption
    PROVE  NamespaceSpec => []PacksExtract
<1>1. NamespaceInit => JudgedInv
  BY DEF NamespaceInit, JudgedInv
<1>2. ASSUME JudgedInv
      PROVE  PacksExtract
  <2> SUFFICES ASSUME verdict = "accepted"
               PROVE  PacksExtract
    BY DEF PacksExtract, AcceptedEntriesCoexist, AcceptedFilesStayApart
  <2>1. ~UnderReserved /\ ~Collides /\ ~NeedsDirectory
    BY <1>2 DEF JudgedInv
  <2>2. \A i \in DOMAIN entries : entries[i] \in Paths /\ entries[i] \in Namespace
    BY <1>2 DEF JudgedInv, Namespace, Stored
  <2>3. AcceptedFilesStayApart
    BY <2>1 DEF AcceptedFilesStayApart, Collides
  <2>4. \A i, j \in DOMAIN entries : i # j => entries[i] # entries[j]
    BY <2>1 DEF Collides, Normal
  <2>5. \A i, j \in DOMAIN entries :
          \A n \in 1..(Len(entries[j]) - 1) : SubSeq(entries[j], 1, n) # entries[i]
    BY <2>1, <2>2 DEF NeedsDirectory
  <2>6. ASSUME NEW i \in DOMAIN entries
        PROVE  SubSeq(entries[i], 1, 1) \notin ReservedPaths
    <3>1. PICK n \in 1..MaxDepth : entries[i] \in [1..n -> Segments]
      BY <2>2 DEF Paths
    <3>2. entries[i] \in Seq(Segments) /\ Len(entries[i]) = n /\ n \in Nat /\ n >= 1
      BY <3>1, NamespaceAssumption DEF NamespaceAssumption
    <3>3. SubSeq(entries[i], 1, 1) = <<entries[i][1]>>
      <4>1. entries[i][1] \in Segments
        BY <3>1, <3>2
      <4> DEFINE one == SubSeq(entries[i], 1, 1)
                 first == <<entries[i][1]>>
      <4>2. one \in Seq(Segments) /\ Len(one) = 1 /\ one[1] = entries[i][1]
        BY <3>2, <4>1, SubSeqProperties
      <4>3. first \in Seq(Segments) /\ Len(first) = 1 /\ first[1] = entries[i][1]
        BY <4>1
      <4> HIDE DEF one, first
      <4>4. one = first
        BY <4>2, <4>3, SeqEqual
      <4> QED
        BY <4>4 DEF one, first
    <3>4. entries[i][1] \notin Reserved
      BY <2>1 DEF UnderReserved, Stored
    <3> QED
      BY <3>3, <3>4 DEF ReservedPaths
  <2> QED
    BY <2>3, <2>4, <2>5, <2>6 DEF PacksExtract, AcceptedEntriesCoexist, Coexist
<1> QED
  BY <1>1, <1>2, JudgedStep, PTL DEF NamespaceSpec

(***************************************************************************)
(* PackAssembly.                                                            *)
(***************************************************************************)

Members == ({"artifact"} \X Versions)
           \cup ({"document"} \X ({"manifest", "action_plan", "provenance", "review", "run_record"}
                                  \cup Attestable))

ExportRecord ==
    [pc : {"idle", "select", "attest", "evidence", "review", "findings", "resolve", "assemble",
           "produced", "refused"},
     asked : Selections, chosen : SUBSET Versions, attested : SUBSET Attestable,
     outputs : 0..Outputs, review : ReviewStatuses, found : SUBSET Findings,
     resolved : SUBSET Versions, mirror : BOOLEAN,
     members : SUBSET Members, entries : SUBSET Members, sums : SUBSET Members]

\* The Run and its reviews.
RunInv ==
    /\ published \in 0..Outputs /\ damaged \subseteq 1..published
    /\ review \in [Versions -> ReviewStatuses] /\ found \in [Versions -> SUBSET Findings]
    /\ projectClosed \in BOOLEAN /\ supplies \subseteq Attestable

Asked == {job.asked[i] : i \in DOMAIN job.asked}

\* What an export has read is of the outputs it will report.
ExportInv ==
    /\ job \in ExportRecord
    /\ job.outputs <= published
    /\ job.pc \notin {"idle", "refused"} => job.outputs > 0
    /\ job.pc \in {"select", "attest", "evidence", "review"} => job.review = "none"
    /\ job.pc \in {"attest", "evidence", "review", "findings", "resolve", "assemble", "produced"} =>
         job.chosen = Asked /\ Asked \subseteq 1..job.outputs
    /\ job.pc \notin {"idle", "refused"} /\ job.review = "completed" => review[job.outputs] = "completed"
    /\ job.pc \in {"resolve", "assemble", "produced"} /\ job.review = "completed" =>
         job.found = found[job.outputs]
    /\ job.pc \in {"assemble", "produced"} => job.resolved = job.chosen
    /\ job.pc # "produced" => job.members = {} /\ job.entries = {}
    /\ job.pc = "produced" =>
         /\ job.entries = Written \cup Supplied
         /\ job.members = job.entries \cup {Manifest}
         /\ job.sums = job.members

AssemblyInv == RunInv /\ ExportInv

\* The manifest is not among what it lists.
LEMMA ManifestApart ==
    ASSUME RunInv, job \in ExportRecord
    PROVE  /\ Manifest \notin Written \cup Supplied
           /\ Written \cup Supplied \cup {Manifest} \subseteq Members
           /\ \A v \in Versions : Artifact(v) \in Written \cup Supplied \cup {Manifest}
                                     <=> v \in job.resolved
  BY DEF Manifest, Written, Supplied, Document, Artifact, ExportRecord, Attestable, Members

\* A step of the Run, its reviews, the stored bytes or the Project.
LEMMA WorldStep ==
    ASSUME AssemblyAssumption, AssemblyInv,
           \/ PublishOutput \/ OpenReview \/ CloseProject
           \/ \E n \in Versions : FailReview(n) \/ \E fs \in SUBSET Findings : CloseReview(n, fs)
           \/ \E v \in Versions : Decay(v)
    PROVE  AssemblyInv'
<1> DEFINE Kept ==
      /\ RunInv' /\ job' = job /\ published <= published'
      /\ \A n \in Versions : review[n] = "completed" =>
            review'[n] = "completed" /\ found'[n] = found[n]
<1> USE DEF AssemblyInv, RunInv, Versions
<1>1. Outputs \in Nat /\ published \in Nat
  BY DEF AssemblyAssumption
<1>2. ASSUME PublishOutput
      PROVE  Kept
  BY <1>1, <1>2 DEF PublishOutput
<1>3. ASSUME OpenReview
      PROVE  Kept
  BY <1>1, <1>3 DEF OpenReview, ReviewStatuses
<1>4. ASSUME CloseProject
      PROVE  Kept
  BY <1>1, <1>4 DEF CloseProject
<1>5. ASSUME NEW n \in Versions, FailReview(n)
      PROVE  Kept
  BY <1>1, <1>5 DEF FailReview, ReviewStatuses
<1>6. ASSUME NEW n \in Versions, NEW fs \in SUBSET Findings, CloseReview(n, fs)
      PROVE  Kept
  BY <1>1, <1>6 DEF CloseReview, ReviewStatuses
<1>7. ASSUME NEW v \in Versions, Decay(v)
      PROVE  Kept
  BY <1>1, <1>7 DEF Decay
<1>8. Kept
  BY <1>2, <1>3, <1>4, <1>5, <1>6, <1>7
<1>9. /\ RunInv' /\ job' = job /\ published <= published'
      /\ \A n \in Versions : review[n] = "completed" => review'[n] = "completed" /\ found'[n] = found[n]
  BY <1>8
<1> HIDE DEF Kept
<1>10. job.outputs > 0 => job.outputs \in Versions
  BY DEF ExportInv, ExportRecord, Versions
<1>11. published \in Nat /\ published' \in Nat /\ job.outputs \in Nat
  BY <1>9, AssemblyAssumption DEF ExportInv, ExportRecord, AssemblyAssumption
<1>12. Written' = Written /\ Supplied' = Supplied /\ Asked' = Asked
  BY <1>9 DEF Written, Supplied, Asked
<1>13. ExportInv'
  BY <1>9, <1>10, <1>11, <1>12 DEF ExportInv
<1> QED
  BY <1>9, <1>13

LEMMA NoJobFits ==
    ASSUME AssemblyAssumption
    PROVE  NoJob \in ExportRecord
<1>1. <<>> \in [1..0 -> Versions] /\ 0 \in 0..MaxSelection /\ 0 \in 0..Outputs
  BY DEF AssemblyAssumption
<1>2. <<>> \in Selections
  BY <1>1 DEF Selections
<1> QED
  BY <1>1, <1>2 DEF NoJob, ExportRecord, ReviewStatuses

\* A step of the export.
LEMMA ExportStepKeeps ==
    ASSUME AssemblyAssumption, AssemblyInv,
           ExportStep \/ \E selection \in Selections : RequestPack(selection)
    PROVE  AssemblyInv'
<1> USE DEF AssemblyInv, ExportInv
<1>1. UNCHANGED world
  BY DEF ExportStep, Select, Attest, ReadEvidence, ReadReview, ReadFindings, ReadMirror,
         Assemble, Answer, ResolveEntry, RequestPack
<1>2. RunInv' /\ Outputs \in Nat /\ published \in 0..Outputs
  BY <1>1 DEF RunInv, world, AssemblyAssumption
<1>3. /\ published' = published /\ review' = review /\ found' = found
      /\ job.outputs > 0 => job.outputs \in Versions
  BY <1>1, <1>2 DEF world, ExportRecord, Versions
<1>4. NoJob \in ExportRecord
  BY NoJobFits
<1>5. Refuse /\ job.pc # "produced" => AssemblyInv'
  BY <1>2, <1>3 DEF Refuse, ExportRecord
<1>6. ASSUME NEW selection \in Selections, RequestPack(selection)
      PROVE  AssemblyInv'
  <2> DEFINE step == IF published = 0 THEN "refused" ELSE "select"
  <2>0. job' = [NoJob EXCEPT !.pc = step, !.asked = selection, !.outputs = published]
    BY <1>6 DEF RequestPack
  <2>3. step \in {"refused", "select"} /\ (step = "select" => published > 0)
    BY <1>2
  <2> HIDE DEF step
  <2>1. /\ job'.pc = step /\ job'.outputs = published
        /\ job'.review = "none" /\ job'.members = {} /\ job'.entries = {}
    BY <2>0 DEF NoJob
  <2>2. job' \in ExportRecord
    BY <1>2, <1>4, <2>0, <2>3 DEF ExportRecord
  <2> QED
    BY <1>2, <1>3, <2>1, <2>2, <2>3
<1>7. CASE Select
  <2>1. CASE Refuse
    BY <1>5, <1>7, <2>1 DEF Select
  <2>2. CASE job' = [job EXCEPT !.pc = "attest", !.chosen = Asked] /\ Asked \subseteq 1..job.outputs
    <3>1. Asked \subseteq Versions
      BY <1>2, <2>2 DEF ExportRecord, Versions
    <3>2. Asked' = Asked
      BY <2>2 DEF Asked, ExportRecord
    <3> QED
      BY <1>2, <1>3, <1>7, <2>2, <3>1, <3>2 DEF Select, ExportRecord
  <2> QED
    BY <1>7, <2>1, <2>2 DEF Select, Asked
<1>8. CASE Attest
  <2>1. job' \in ExportRecord /\ Asked' = Asked
    BY <1>2, <1>3, <1>8 DEF Attest, ExportRecord, Asked, RunInv
  <2>2. /\ job.pc = "attest" /\ job'.pc = "evidence"
        /\ job'.outputs = job.outputs /\ job'.review = job.review
        /\ job'.chosen = job.chosen /\ job'.members = job.members /\ job'.entries = job.entries
    BY <1>8 DEF Attest, ExportRecord
  <2> QED
    BY <1>2, <1>3, <2>1, <2>2
<1>9. CASE ReadEvidence
  <2>1. job' \in ExportRecord /\ Asked' = Asked
    BY <1>2, <1>3, <1>9 DEF ReadEvidence, ExportRecord, Asked
  <2>2. /\ job.pc = "evidence" /\ job'.pc = "review"
        /\ job'.outputs = published /\ job'.review = job.review
        /\ job'.chosen = job.chosen /\ job'.members = job.members /\ job'.entries = job.entries
    BY <1>9 DEF ReadEvidence, ExportRecord
  <2>3. job.outputs \in Nat /\ published \in Nat /\ job.outputs <= published /\ job.outputs > 0
    BY <1>2, <2>2 DEF ExportRecord
  <2>4. /\ job.review = "none" /\ job.chosen = Asked /\ Asked \subseteq 1..job.outputs
        /\ job.members = {} /\ job.entries = {}
    BY <2>2
  <2> QED
    BY <1>2, <1>3, <2>1, <2>2, <2>3, <2>4
<1>10. CASE ReadReview
  <2>0. review[job.outputs] \in ReviewStatuses
    BY <1>2, <1>3, <1>10 DEF ReadReview, RunInv
  <2>1. job' \in ExportRecord /\ Asked' = Asked
    BY <1>10, <2>0 DEF ReadReview, ExportRecord, Asked
  <2>2. /\ job.pc = "review" /\ job'.pc = (IF review[job.outputs] = "none" THEN "resolve" ELSE "findings")
        /\ job'.outputs = job.outputs /\ job'.review = review[job.outputs]
        /\ job'.chosen = job.chosen /\ job'.members = job.members /\ job'.entries = job.entries
    BY <1>10 DEF ReadReview, ExportRecord
  <2> QED
    BY <1>2, <1>3, <2>1, <2>2
<1>11. CASE ReadFindings
  <2>1. job' \in ExportRecord /\ Asked' = Asked
    BY <1>2, <1>3, <1>11 DEF ReadFindings, ExportRecord, Asked, RunInv
  <2>2. /\ job.pc = "findings" /\ job'.pc = "resolve"
        /\ job'.outputs = job.outputs /\ job'.review = job.review
        /\ job'.chosen = job.chosen /\ job'.members = job.members /\ job'.entries = job.entries
    BY <1>11 DEF ReadFindings, ExportRecord
  <2>3. job'.found = found[job.outputs]
    BY <1>11 DEF ReadFindings, ExportRecord
  <2> QED
    BY <1>2, <1>3, <2>1, <2>2, <2>3
<1>12. ASSUME NEW v \in Versions, ResolveEntry(v)
       PROVE  AssemblyInv'
  BY <1>2, <1>3, <1>5, <1>12 DEF ResolveEntry, ExportRecord, Asked
<1>13. CASE ReadMirror
  <2>1. CASE Refuse
    BY <1>5, <1>13, <2>1 DEF ReadMirror
  <2>2. ASSUME NEW present \in BOOLEAN, job' = [job EXCEPT !.pc = "assemble", !.mirror = present]
        PROVE  AssemblyInv'
    <3>1. job' \in ExportRecord /\ Asked' = Asked
      BY <2>2 DEF ExportRecord, Asked
    <3>2. job'.pc = "assemble" /\ job.pc = "resolve" /\ job'.resolved = job'.chosen
      BY <1>13, <2>2 DEF ReadMirror, ExportRecord
    <3>3. /\ job'.outputs = job.outputs /\ job'.review = job.review /\ job'.found = job.found
          /\ job'.chosen = job.chosen /\ job'.members = job.members /\ job'.entries = job.entries
      BY <2>2 DEF ExportRecord
    <3> QED
      BY <1>2, <1>3, <3>1, <3>2, <3>3
  <2> QED
    BY <1>13, <2>1, <2>2 DEF ReadMirror
<1>14. CASE Assemble
  <2>1. CASE Refuse
    BY <1>5, <1>14, <2>1 DEF Assemble
  <2>2. CASE job' = [job EXCEPT !.pc = "produced", !.members = Written \cup Supplied \cup {Manifest},
                        !.entries = Written \cup Supplied,
                        !.sums = Written \cup Supplied \cup {Manifest}]
    <3>1. Written \cup Supplied \cup {Manifest} \subseteq Members
      BY ManifestApart
    <3>2. Written' = Written /\ Supplied' = Supplied /\ Asked' = Asked
      BY <2>2 DEF Written, Supplied, Asked, ExportRecord
    <3> QED
      BY <1>2, <1>3, <1>14, <2>2, <3>1, <3>2 DEF Assemble, ExportRecord
  <2> QED
    BY <1>14, <2>1, <2>2 DEF Assemble
<1>15. CASE Answer
  BY <1>2, <1>3, <1>4, <1>15 DEF Answer, NoJob
<1> QED
  BY <1>6, <1>7, <1>8, <1>9, <1>10, <1>11, <1>12, <1>13, <1>14, <1>15 DEF ExportStep

\* For any Run, selection and findings, and whatever happens to them meanwhile: a
\* pack tells the truth about one moment, and holds no bytes that had decayed.
THEOREM PacksAreTruthfulAlways ==
    ASSUME AssemblyAssumption
    PROVE  AssemblySpec => PacksAreTruthful
<1>1. AssemblyInit => AssemblyInv
  <2> SUFFICES ASSUME AssemblyInit
               PROVE  AssemblyInv
    OBVIOUS
  <2>1. RunInv
    BY AssemblyAssumption DEF AssemblyInit, RunInv, ReviewStatuses, Versions, AssemblyAssumption
  <2>2. job = NoJob /\ NoJob \in ExportRecord /\ published \in Nat
    BY NoJobFits, <2>1, AssemblyAssumption DEF AssemblyInit, RunInv, AssemblyAssumption
  <2>3. /\ job.pc = "idle" /\ job.outputs = 0 /\ job.review = "none"
        /\ job.members = {} /\ job.entries = {}
    BY <2>2 DEF NoJob
  <2> QED
    BY <2>1, <2>2, <2>3 DEF AssemblyInv, ExportInv
<1>2. AssemblyInv /\ [AssemblyNext]_assemblyVars => AssemblyInv'
  <2>1. CASE UNCHANGED assemblyVars
    BY <2>1 DEF assemblyVars, AssemblyInv, RunInv, ExportInv, Written, Supplied, Asked
  <2> QED
    BY <2>1, WorldStep, ExportStepKeeps DEF AssemblyNext
<1>3. ASSUME AssemblyInv
      PROVE  ExportTypeOK /\ SelectionIsExact /\ ReviewMatchesPins /\ EverythingIsSummed
  <2> USE DEF AssemblyInv, ExportInv
  <2>1. ExportTypeOK
    BY <1>3 DEF ExportTypeOK, RunInv, ExportRecord
  <2>2. SelectionIsExact
    BY <1>3, ManifestApart DEF SelectionIsExact, ExportRecord, Asked
  <2>3. ReviewMatchesPins
    BY <1>3 DEF ReviewMatchesPins
  <2>4. EverythingIsSummed
    BY <1>3, ManifestApart DEF EverythingIsSummed
  <2> QED
    BY <2>1, <2>2, <2>3, <2>4
<1>4. AssemblyInv /\ [AssemblyNext]_assemblyVars
        => [\A v \in damaged : v \notin job'.resolved \ job.resolved]_assemblyVars
  <2> SUFFICES ASSUME AssemblyInv, AssemblyNext, NEW v \in damaged, v \in job'.resolved,
                      v \notin job.resolved
               PROVE  FALSE
    OBVIOUS
  <2>1. job \in ExportRecord
    BY DEF AssemblyInv, ExportInv
  <2>2. job'.resolved \notin {job.resolved, {}}
    OBVIOUS
  <2>3. ~Refuse /\ job' # job
    BY <2>1, <2>2 DEF Refuse, ExportRecord
  <2>4. ~ \E selection \in Selections : RequestPack(selection)
    BY <2>2 DEF RequestPack, NoJob
  <2>5. ~Select /\ ~Attest /\ ~ReadEvidence /\ ~ReadReview /\ ~ReadFindings
    BY <2>1, <2>2, <2>3 DEF Select, Attest, ReadEvidence, ReadReview, ReadFindings, ExportRecord
  <2>6. ~ReadMirror /\ ~Answer
    <3>1. ASSUME NEW present \in BOOLEAN, job' = [job EXCEPT !.pc = "assemble", !.mirror = present]
          PROVE  FALSE
      BY <2>1, <2>2, <3>1 DEF ExportRecord
    <3>2. job' # NoJob
      BY <2>2 DEF NoJob
    <3> QED
      BY <2>3, <3>1, <3>2 DEF ReadMirror, Answer
  <2> DEFINE members == Written \cup Supplied
  <2>7. ASSUME job' = [job EXCEPT !.pc = "produced", !.members = members \cup {Manifest},
                          !.entries = members, !.sums = members \cup {Manifest}]
        PROVE  FALSE
    <3> HIDE DEF members
    <3> QED
      BY <2>1, <2>2, <2>7 DEF ExportRecord
  <2>8. ~Assemble
    BY <2>3, <2>7 DEF Assemble
  <2>9. PICK n \in Versions : ResolveEntry(n)
    BY <2>3, <2>4, <2>5, <2>6, <2>8 DEF AssemblyNext, ExportStep, PublishOutput, OpenReview,
         CloseProject, FailReview, CloseReview, Decay
  <2> QED
    BY <2>1, <2>3, <2>9 DEF ResolveEntry, ExportRecord
<1> QED
  BY <1>1, <1>2, <1>3, <1>4, PTL DEF AssemblySpec, PacksAreTruthful, NoDecayedBytes

(***************************************************************************)
(* PackDelivery: files and what is on them.                                 *)
(***************************************************************************)

FileState == <<writer, bytes, linked, archived>>

FilesInv ==
    /\ writer \in [Packs -> {"none", "building", "refused", "writing", "done", "failed"}]
    /\ bytes \in [Packs -> 0..Size]
    /\ linked \subseteq Packs
    /\ archived \in BOOLEAN
    /\ ProducedPacksAreWhole

LEMMA FileStep ==
    ASSUME DeliveryAssumption, FilesInv, NEW p \in Packs,
           \/ BeginExport(p) \/ CreateFile(p) \/ WriteMember(p) \/ Produced(p) \/ DeletePack(p)
           \/ ArchiveProject
    PROVE  /\ FilesInv'
           /\ UNCHANGED <<clock, records, issued, mint, fetch, scan, crashes, accepted>>
<1> USE DEF FilesInv, ProducedPacksAreWhole, packVars, tableVars
<1> Size \in Nat
  BY DEF DeliveryAssumption
<1>1. CASE BeginExport(p)
  BY <1>1 DEF BeginExport
<1>2. CASE CreateFile(p)
  BY <1>2 DEF CreateFile
<1>3. CASE WriteMember(p)
  BY <1>3 DEF WriteMember
<1>4. CASE Produced(p)
  BY <1>4 DEF Produced
<1>5. CASE DeletePack(p)
  BY <1>5 DEF DeletePack
<1>6. CASE ArchiveProject
  BY <1>6 DEF ArchiveProject
<1> QED
  BY <1>1, <1>2, <1>3, <1>4, <1>5, <1>6

(***************************************************************************)
(* Listings.                                                                *)
(***************************************************************************)

ScanRecord ==
    [pc : {"idle", "scanning", "listed", "unreadable"}, names : SUBSET Packs,
     found : SUBSET [pack : Packs, size : 0..Size, readable : BOOLEAN], undescribed : Nat]

Undescribed(seen) == {e \in seen.found : ~e.readable}

\* A pack is found once, and counted unless it was whole.
ScanFits(seen) ==
    /\ seen \in ScanRecord
    /\ IsFiniteSet(Undescribed(seen))
    /\ \A e \in seen.found : e.pack \notin seen.names /\ (e.readable => e.size = Size)
    /\ seen.undescribed = Cardinality(Undescribed(seen))

ScansInv == scan \in [Listers -> ScanRecord] /\ \A l \in Listers : ScanFits(scan[l])

LEMMA FreshScan ==
    ASSUME NEW seen \in ScanRecord, seen.found = {}, seen.undescribed = 0
    PROVE  ScanFits(seen)
<1>1. Undescribed(seen) = {}
  BY DEF Undescribed
<1> QED
  BY <1>1, FS_EmptySet DEF ScanFits

\* One more pack is found.
LEMMA FoundOne ==
    ASSUME DeliveryAssumption, NEW seen, ScanFits(seen), NEW p \in seen.names, NEW size \in 0..Size
    PROVE  ScanFits([seen EXCEPT !.names = @ \ {p},
               !.found = @ \cup {[pack |-> p, size |-> size, readable |-> size = Size]},
               !.undescribed = IF size = Size THEN @ ELSE @ + 1])
<1> DEFINE entry == [pack |-> p, size |-> size, readable |-> size = Size]
           more == IF size = Size THEN seen.undescribed ELSE seen.undescribed + 1
           new == [seen EXCEPT !.names = @ \ {p}, !.found = @ \cup {entry}, !.undescribed = more]
<1>1. seen \in ScanRecord /\ p \in Packs /\ Size \in Nat
  BY DEF ScanFits, ScanRecord, DeliveryAssumption
<1>2. entry \in [pack : Packs, size : 0..Size, readable : BOOLEAN]
  BY <1>1
<1>3. entry.pack = p /\ entry.size = size /\ (entry.readable <=> size = Size)
  OBVIOUS
<1>4. more \in Nat
  BY <1>1 DEF ScanRecord
<1> HIDE DEF entry, more
<1>5. /\ new \in ScanRecord /\ new.found = seen.found \cup {entry}
      /\ new.names = seen.names \ {p} /\ new.undescribed = more
  BY <1>1, <1>2, <1>4 DEF ScanRecord
<1> HIDE DEF new
<1>6. entry \notin seen.found
  BY <1>3 DEF ScanFits
<1>7. \A e \in new.found : e.pack \notin new.names /\ (e.readable => e.size = Size)
  BY <1>3, <1>5 DEF ScanFits
<1>8. CASE size = Size
  <2>1. Undescribed(new) = Undescribed(seen) /\ more = seen.undescribed
    BY <1>3, <1>5, <1>8 DEF Undescribed, more
  <2> QED
    BY <1>5, <1>7, <2>1 DEF ScanFits, new, entry, more
<1>9. CASE size # Size
  <2>1. Undescribed(new) = Undescribed(seen) \cup {entry} /\ more = seen.undescribed + 1
    BY <1>3, <1>5, <1>9 DEF Undescribed, more
  <2>2. entry \notin Undescribed(seen) /\ IsFiniteSet(Undescribed(seen))
    BY <1>6 DEF Undescribed, ScanFits
  <2>3. /\ IsFiniteSet(Undescribed(new))
        /\ Cardinality(Undescribed(new)) = Cardinality(Undescribed(seen)) + 1
    BY <2>1, <2>2, FS_AddElement
  <2>4. ScanFits(new)
    BY <1>5, <1>7, <2>1, <2>3 DEF ScanFits
  <2> QED
    BY <2>4 DEF new, entry, more
<1> QED
  BY <1>8, <1>9

LEMMA OneScanMoves ==
    ASSUME ScansInv, NEW l \in Listers, NEW seen, ScanFits(seen), scan' = [scan EXCEPT ![l] = seen]
    PROVE  ScansInv'
<1>1. seen \in ScanRecord
  BY DEF ScanFits
<1> QED
  BY <1>1 DEF ScansInv

LEMMA ScanStep ==
    ASSUME DeliveryAssumption, FilesInv, ScansInv, NEW l \in Listers,
           BeginScan(l) \/ EndScan(l) \/ \E p \in Packs : ScanEntry(l, p)
    PROVE  /\ ScansInv'
           /\ UNCHANGED <<writer, bytes, linked, archived, clock, records, issued, mint, fetch,
                          crashes, accepted>>
<1> USE DEF packVars, tableVars
<1>1. ASSUME BeginScan(l) PROVE ScansInv'
  <2>1. scan' = [scan EXCEPT ![l] = [ScanIdle EXCEPT !.pc = "scanning", !.names = linked]]
    BY <1>1 DEF BeginScan
  <2>2. ScanFits([ScanIdle EXCEPT !.pc = "scanning", !.names = linked])
    BY FreshScan DEF FilesInv, ScanIdle, ScanRecord
  <2> QED
    BY <2>1, <2>2, OneScanMoves
<1>2. ASSUME EndScan(l) PROVE ScansInv'
  <2>1. ScanFits([scan[l] EXCEPT !.pc = "listed"])
    BY DEF ScansInv, ScanFits, ScanRecord, Undescribed
  <2>2. scan' = [scan EXCEPT ![l] = [scan[l] EXCEPT !.pc = "listed"]]
    BY <1>2 DEF EndScan, ScansInv
  <2> QED
    BY <2>1, <2>2, OneScanMoves
<1>3. ASSUME NEW p \in Packs, ScanEntry(l, p)
      PROVE  ScansInv'
  <2>1. p \in scan[l].names /\ ScanFits(scan[l]) /\ bytes[p] \in 0..Size
    BY <1>3 DEF ScanEntry, ScansInv, FilesInv
  <2>2. CASE p \notin linked
    <3>1. scan' = [scan EXCEPT ![l] = [ScanIdle EXCEPT !.pc = "unreadable"]]
      BY <1>3, <2>2 DEF ScanEntry
    <3>2. ScanFits([ScanIdle EXCEPT !.pc = "unreadable"])
      BY FreshScan DEF ScanIdle, ScanRecord
    <3> QED
      BY <3>1, <3>2, OneScanMoves
  <2>3. CASE p \in linked
    <3>1. ScanFits(Found(scan[l], p))
      BY <2>1, FoundOne DEF Found
    <3>2. scan' = [scan EXCEPT ![l] = Found(scan[l], p)]
      BY <1>3, <2>3 DEF ScanEntry
    <3> QED
      BY <3>1, <3>2, OneScanMoves
  <2> QED
    BY <2>2, <2>3
<1>4. UNCHANGED <<writer, bytes, linked, archived, clock, records, issued, mint, fetch,
                  crashes, accepted>>
  BY DEF BeginScan, EndScan, ScanEntry
<1> QED
  BY <1>1, <1>2, <1>3, <1>4

(***************************************************************************)
(* The ticket table: what is minted, what is spent, and how much is held.   *)
(***************************************************************************)

\* A set of numbers has a least one.
LEMMA LeastOf ==
    ASSUME NEW S \in SUBSET Nat, S # {}
    PROVE  \E m \in S : \A j \in S : m <= j
<1>1. PICK m \in S : \A j \in S : ~ (<<j, m>> \in OpToRel(<, Nat))
  BY WFMin, NatLessThanWellFounded, Zenon
<1>2. ASSUME NEW j \in S PROVE m <= j
  BY <1>1, ~ (j < m) DEF OpToRel
<1> QED
  BY <1>2

\* Pruning leaves room for one record.
LEMMA NewestLeavesRoom ==
    ASSUME DeliveryAssumption, NEW S \in SUBSET Nat, IsFiniteSet(S)
    PROVE  /\ Newest(S) \subseteq S
           /\ IsFiniteSet(Newest(S)) /\ Cardinality(Newest(S)) < MaxOpenTickets
<1> DEFINE From(s) == {t \in S : t >= s}
<1>1. Newest(S) = {s \in S : Cardinality(From(s)) < MaxOpenTickets}
  BY DEF Newest
<1>2. Newest(S) \subseteq S /\ IsFiniteSet(Newest(S)) /\ MaxOpenTickets \in Nat \ {0}
  BY <1>1, FS_Subset DEF DeliveryAssumption
<1>3. CASE Newest(S) = {}
  BY <1>2, <1>3, FS_EmptySet
<1>4. CASE Newest(S) # {}
  <2>1. PICK s \in Newest(S) : \A t \in Newest(S) : s <= t
    BY <1>2, <1>4, LeastOf
  <2>2. Newest(S) \subseteq From(s) /\ From(s) \subseteq S
    BY <1>2, <2>1
  <2>3. IsFiniteSet(From(s)) /\ Cardinality(Newest(S)) <= Cardinality(From(s))
    BY <2>2, FS_Subset
  <2>4. Cardinality(From(s)) < MaxOpenTickets
    BY <1>1, <2>1
  <2>5. Cardinality(Newest(S)) \in Nat /\ Cardinality(From(s)) \in Nat
    BY <1>2, <2>3, FS_CardinalityType
  <2> QED
    BY <1>2, <2>3, <2>4, <2>5
<1> QED
  BY <1>3, <1>4

MintRecord == [pc : {"idle", "prune", "insert"}, pack : Packs \cup {NoPack}, now : Nat]

MintFits(minting) == minting \in MintRecord /\ (minting.pc # "idle" => minting.pack \in Packs)

MintInv == mint \in [Minters -> MintRecord] /\ \A m \in Minters : MintFits(mint[m])

\* What a secret was accepted for is remembered longer than its record: only an
\* unspent record promises that nobody used it yet.
TableInv ==
    /\ issued \in 0..MaxSecrets
    /\ DOMAIN records \subseteq 1..issued
    /\ \A s \in DOMAIN records : records[s] \in Record

AcceptedInv ==
    /\ accepted \in [Secrets -> [times : Nat, pack : Packs \cup {NoPack}]]
    /\ OneUse
    /\ \A s \in Secrets : s > issued => accepted[s].times = 0
    /\ \A s \in DOMAIN records : ~records[s].spent => accepted[s].times = 0

Inserting == {m \in Minters : mint[m].pc = "insert"}

\* Each request that has pruned still has its place.
RoomInv ==
    Cardinality(DOMAIN records) + Cardinality(Inserting) < MaxOpenTickets + Cardinality(Minters)

LEMMA TableFinite ==
    ASSUME DeliveryAssumption, TableInv
    PROVE  /\ MaxSecrets \in Nat /\ issued \in Nat /\ DOMAIN records \in SUBSET Nat
           /\ IsFiniteSet(DOMAIN records) /\ Cardinality(DOMAIN records) \in Nat
           /\ DOMAIN records \subseteq Secrets
<1>1. MaxSecrets \in Nat /\ issued \in Nat /\ issued <= MaxSecrets
  BY DEF DeliveryAssumption, TableInv
<1>2. DOMAIN records \subseteq 1..issued
  BY DEF TableInv
<1>3. IsFiniteSet(1..issued)
  BY <1>1, FS_Interval
<1>4. IsFiniteSet(DOMAIN records)
  BY <1>2, <1>3, FS_Subset
<1>5. Cardinality(DOMAIN records) \in Nat
  BY <1>4, FS_CardinalityType
<1>6. DOMAIN records \in SUBSET Nat /\ DOMAIN records \subseteq Secrets
  BY <1>1, <1>2 DEF Secrets
<1> QED
  BY <1>1, <1>4, <1>5, <1>6

LEMMA InsertingFinite ==
    ASSUME DeliveryAssumption
    PROVE  /\ IsFiniteSet(Inserting) /\ Cardinality(Inserting) \in Nat
           /\ Cardinality(Minters) \in Nat /\ Cardinality(Inserting) <= Cardinality(Minters)
           /\ MaxOpenTickets \in Nat \ {0}
<1>1. IsFiniteSet(Minters) /\ Inserting \subseteq Minters /\ MaxOpenTickets \in Nat \ {0}
  BY DEF DeliveryAssumption, Inserting
<1>2. IsFiniteSet(Inserting) /\ Cardinality(Inserting) <= Cardinality(Minters)
  BY <1>1, FS_Subset
<1> QED
  BY <1>1, <1>2, FS_CardinalityType

\* A table with some of its records is a table.
LEMMA FewerRecords ==
    ASSUME DeliveryAssumption, TableInv, AcceptedInv, NEW secrets \in SUBSET DOMAIN records,
           Keep(secrets), UNCHANGED <<issued, accepted>>
    PROVE  /\ TableInv' /\ AcceptedInv' /\ DOMAIN records' = secrets
           /\ Cardinality(DOMAIN records)' <= Cardinality(DOMAIN records)
<1>1. DOMAIN records' = secrets /\ \A s \in secrets : records'[s] = records[s]
  BY DEF Keep
<1>2. Cardinality(secrets) <= Cardinality(DOMAIN records)
  BY TableFinite, FS_Subset
<1> QED
  BY <1>1, <1>2 DEF TableInv, AcceptedInv, OneUse

LEMMA OneMintMoves ==
    ASSUME MintInv, NEW m \in Minters, NEW minting, MintFits(minting),
           mint' = [mint EXCEPT ![m] = minting]
    PROVE  MintInv'
<1>1. minting \in MintRecord
  BY DEF MintFits
<1> QED
  BY <1>1 DEF MintInv

LEMMA MintStep ==
    ASSUME DeliveryAssumption, FilesInv, clock \in Nat, TableInv, AcceptedInv, MintInv, RoomInv,
           NEW m \in Minters, Prune(m) \/ Insert(m) \/ \E p \in Packs : BeginMint(m, p)
    PROVE  /\ TableInv' /\ AcceptedInv' /\ MintInv' /\ RoomInv'
           /\ UNCHANGED <<writer, bytes, linked, archived, clock, fetch, scan, crashes, accepted>>
<1> USE DEF packVars, tableVars
<1>0. UNCHANGED <<writer, bytes, linked, archived, clock, fetch, scan, crashes, accepted>>
  BY DEF Prune, Insert, BeginMint
<1>1. ASSUME NEW p \in Packs, BeginMint(m, p)
      PROVE  TableInv' /\ AcceptedInv' /\ MintInv' /\ RoomInv'
  <2>1. MintFits([pc |-> "prune", pack |-> p, now |-> clock])
    BY DEF MintFits, MintRecord
  <2>2. /\ mint' = [mint EXCEPT ![m] = [pc |-> "prune", pack |-> p, now |-> clock]]
        /\ mint[m].pc = "idle" /\ UNCHANGED <<records, issued>>
    BY <1>1 DEF BeginMint
  <2>3. MintInv'
    BY <2>1, <2>2, OneMintMoves
  <2>4. Inserting' = Inserting
    BY <2>2 DEF Inserting, MintInv
  <2> QED
    BY <1>0, <2>2, <2>3, <2>4 DEF RoomInv, TableInv, AcceptedInv, OneUse
<1>2. CASE Prune(m)
  <2> DEFINE fresh == {s \in DOMAIN records : Fresh(s, mint[m].now)}
  <2>1. /\ mint[m].pc = "prune" /\ Keep(Newest(fresh)) /\ UNCHANGED issued
        /\ mint' = [mint EXCEPT ![m] = [mint[m] EXCEPT !.pc = "insert"]]
    BY <1>2 DEF Prune, MintInv
  <2>2. fresh \in SUBSET Nat /\ IsFiniteSet(fresh) /\ fresh \subseteq DOMAIN records
    BY TableFinite, FS_Subset
  <2> HIDE DEF fresh
  <2>3. /\ Newest(fresh) \subseteq DOMAIN records /\ IsFiniteSet(Newest(fresh))
        /\ Cardinality(Newest(fresh)) < MaxOpenTickets
    BY <2>2, NewestLeavesRoom
  <2>4. TableInv' /\ AcceptedInv' /\ DOMAIN records' = Newest(fresh)
    BY <1>0, <2>1, <2>3, FewerRecords
  <2>5. MintFits([mint[m] EXCEPT !.pc = "insert"])
    BY <2>1 DEF MintInv, MintFits, MintRecord
  <2>6. MintInv'
    BY <2>1, <2>5, OneMintMoves
  <2>7. /\ Cardinality(Inserting)' <= Cardinality(Minters) /\ Cardinality(Inserting)' \in Nat
        /\ Cardinality(Minters) \in Nat /\ MaxOpenTickets \in Nat
    <3>1. Inserting' \subseteq Minters /\ IsFiniteSet(Minters)
      BY DEF Inserting, DeliveryAssumption
    <3>2. IsFiniteSet(Inserting') /\ Cardinality(Inserting') <= Cardinality(Minters)
      BY <3>1, FS_Subset
    <3>3. Cardinality(Inserting') \in Nat
      BY <3>2, FS_CardinalityType
    <3> QED
      BY <3>2, <3>3, InsertingFinite
  <2>8. Cardinality(Newest(fresh)) \in Nat
    BY <2>3, FS_CardinalityType
  <2>9. RoomInv'
    <3>1. Cardinality(DOMAIN records)' = Cardinality(Newest(fresh))
      BY <2>4
    <3> QED
      BY <2>3, <2>7, <2>8, <3>1 DEF RoomInv
  <2> QED
    BY <1>0, <2>4, <2>6, <2>9
<1>3. CASE Insert(m)
  <2> DEFINE new == [pack |-> mint[m].pack, expires |-> mint[m].now + Ttl, spent |-> FALSE]
  <2>1. /\ mint[m].pc = "insert" /\ issued < MaxSecrets /\ issued' = issued + 1
        /\ records' = [s \in DOMAIN records \cup {issued + 1} |->
                           IF s = issued + 1 THEN new ELSE records[s]]
        /\ mint' = [mint EXCEPT ![m] = MintIdle]
    BY <1>3 DEF Insert
  <2>2. new \in Record /\ new.spent = FALSE
    BY <2>1 DEF MintInv, MintFits, MintRecord, Record, DeliveryAssumption
  <2> HIDE DEF new
  <2>3. /\ MaxSecrets \in Nat /\ issued \in Nat /\ DOMAIN records \subseteq 1..issued
        /\ IsFiniteSet(DOMAIN records) /\ Cardinality(DOMAIN records) \in Nat
    BY TableFinite DEF TableInv
  <2>4. /\ DOMAIN records' = DOMAIN records \cup {issued + 1} /\ issued + 1 \notin DOMAIN records
        /\ records'[issued + 1] = new
        /\ \A s \in DOMAIN records : records'[s] = records[s]
    BY <2>1, <2>3
  <2>5. TableInv'
    BY <2>1, <2>2, <2>3, <2>4 DEF TableInv
  <2>6. AcceptedInv'
    <3>1. issued + 1 \in Secrets /\ accepted[issued + 1].times = 0
      BY <2>1, <2>3 DEF AcceptedInv, Secrets
    <3>2. \A s \in DOMAIN records' : ~records'[s].spent => accepted[s].times = 0
      BY <2>4, <3>1 DEF AcceptedInv
    <3>3. \A s \in Secrets : s > issued' => accepted[s].times = 0
      BY <2>1, <2>3 DEF AcceptedInv, Secrets
    <3> QED
      BY <1>0, <3>2, <3>3 DEF AcceptedInv, OneUse
  <2>7. MintFits(MintIdle)
    BY DEF MintFits, MintIdle, MintRecord
  <2>8. MintInv'
    BY <2>1, <2>7, OneMintMoves
  <2>9. Inserting' = Inserting \ {m} /\ m \in Inserting
    BY <2>1 DEF Inserting, MintInv, MintIdle
  <2>10. /\ Cardinality(DOMAIN records)' = Cardinality(DOMAIN records) + 1
         /\ Cardinality(Inserting)' = Cardinality(Inserting) - 1
    <3>1. Cardinality(DOMAIN records \cup {issued + 1}) = Cardinality(DOMAIN records) + 1
      BY <2>3, <2>4, FS_AddElement
    <3>2. Cardinality(Inserting \ {m}) = Cardinality(Inserting) - 1
      BY <2>9, InsertingFinite, FS_RemoveElement
    <3> QED
      BY <2>4, <2>9, <3>1, <3>2
  <2>11. RoomInv'
    BY <2>3, <2>10, InsertingFinite DEF RoomInv
  <2> QED
    BY <1>0, <2>5, <2>6, <2>8, <2>11
<1> QED
  BY <1>0, <1>1, <1>2, <1>3

(***************************************************************************)
(* Downloads.                                                               *)
(***************************************************************************)

FetchRecord ==
    [pc : {"idle", "present", "read", "open", "streaming"} \cup Answered,
     secret : 0..MaxSecrets, pack : Packs \cup {NoPack},
     length : 0..Size, sent : 0..Size, whole : BOOLEAN]

\* A request knows its secret and pack, and never sends more than it declared.
FetchFits(d) ==
    /\ d \in FetchRecord
    /\ d.pc # "idle" => d.secret \in Secrets /\ d.pack \in Packs
    /\ d.sent <= d.length
    /\ d.whole => d.length = Size
    /\ d.pc \in {"present", "read", "open"} => d.sent = 0
    /\ d.pc = "complete" => d.sent = d.length

Serving == {"read", "open", "streaming", "complete", "truncated"}

Served(d) ==
    d.pc \in Serving => accepted[d.secret].times > 0 /\ d.pack = accepted[d.secret].pack

FetchInv == fetch \in [Fetchers -> FetchRecord] /\ \A f \in Fetchers : FetchFits(fetch[f]) /\ Served(fetch[f])

\* One request moves and nobody is accepted.
LEMMA OneFetchMoves ==
    ASSUME FetchInv, NEW f \in Fetchers, NEW d, FetchFits(d), Served(d),
           fetch' = [fetch EXCEPT ![f] = d], UNCHANGED accepted
    PROVE  FetchInv'
<1>1. /\ fetch' \in [Fetchers -> FetchRecord] /\ fetch'[f] = d
      /\ \A g \in Fetchers \ {f} : fetch'[g] = fetch[g]
  BY DEF FetchInv, FetchFits
<1> QED
  BY <1>1 DEF FetchInv, Served

\* A request that ends, or goes on, as it is.
LEMMA OnlyThePlaceMoves ==
    ASSUME DeliveryAssumption, NEW d, FetchFits(d), Served(d), d.pc # "idle",
           NEW how \in {"streaming", "refused", "complete", "truncated"},
           how \in {"streaming", "complete", "truncated"} => d.pc \in Serving,
           how = "complete" => d.sent = d.length
    PROVE  FetchFits([d EXCEPT !.pc = how]) /\ Served([d EXCEPT !.pc = how])
<1> DEFINE next == [d EXCEPT !.pc = how]
<1>1. /\ next \in FetchRecord /\ next.pc = how /\ next.secret = d.secret /\ next.pack = d.pack
      /\ next.length = d.length /\ next.sent = d.sent /\ next.whole = d.whole
  BY DEF FetchFits, FetchRecord, Answered
<1> HIDE DEF next
<1>2. FetchFits(next)
  BY <1>1 DEF FetchFits
<1>3. Served(next)
  BY <1>1 DEF Served, Serving
<1> QED
  BY <1>2, <1>3 DEF next

LEMMA FetchIdleFits == DeliveryAssumption => FetchFits(FetchIdle) /\ Served(FetchIdle)
<1> QED
  BY DEF FetchFits, FetchIdle, FetchRecord, Served, Serving, DeliveryAssumption

\* A capability is taken once: nobody was served with a secret whose record is unspent.
LEMMA PresentStep ==
    ASSUME DeliveryAssumption, TableInv, AcceptedInv, FetchInv, RoomInv, NEW f \in Fetchers,
           Present(f)
    PROVE  /\ TableInv' /\ AcceptedInv' /\ FetchInv' /\ RoomInv'
           /\ UNCHANGED <<writer, bytes, linked, archived, clock, mint, scan, crashes>>
<1> USE DEF packVars
<1> DEFINE s == fetch[f].secret
           d == fetch[f]
<1>0. UNCHANGED <<writer, bytes, linked, archived, clock, issued, mint, scan, crashes>>
  BY DEF Present
<1>1. FetchFits(d) /\ Served(d) /\ d.pc = "present" /\ s \in Secrets /\ d.pack \in Packs
  BY DEF FetchInv, FetchFits, Present
<1>2. Inserting' = Inserting
  BY <1>0 DEF Inserting
<1>3. ASSUME RefuseTicket(f)
      PROVE  FetchInv' /\ UNCHANGED accepted
  <2>1. fetch' = [fetch EXCEPT ![f] = [d EXCEPT !.pc = "refused"]] /\ UNCHANGED accepted
    BY <1>3 DEF RefuseTicket, Ended, FetchInv
  <2>2. FetchFits([d EXCEPT !.pc = "refused"]) /\ Served([d EXCEPT !.pc = "refused"])
    <3> HIDE DEF d
    <3> QED
      BY <1>1, OnlyThePlaceMoves
  <2> HIDE DEF d
  <2> QED
    BY <2>1, <2>2, OneFetchMoves
<1>4. CASE RefuseTicket(f) /\ UNCHANGED records
  BY <1>0, <1>2, <1>3, <1>4 DEF TableInv, AcceptedInv, OneUse, RoomInv
<1>5. CASE RefuseTicket(f) /\ Keep(DOMAIN records \ {s})
  <2>1. /\ TableInv' /\ AcceptedInv' /\ DOMAIN records' = DOMAIN records \ {s}
        /\ Cardinality(DOMAIN records)' <= Cardinality(DOMAIN records)
    BY <1>0, <1>3, <1>5, FewerRecords
  <2>2. IsFiniteSet(DOMAIN records') /\ Cardinality(DOMAIN records') \in Nat
    BY <2>1, TableFinite, FS_Subset, FS_CardinalityType
  <2>3. RoomInv'
    BY <1>2, <2>1, <2>2, TableFinite, InsertingFinite DEF RoomInv
  <2> QED
    BY <1>0, <1>3, <1>5, <2>1, <2>3
<1>6. CASE Spend(f) /\ Held(s) /\ ~records[s].spent /\ records[s].pack = fetch[f].pack
  <2>1. /\ records' = [records EXCEPT ![s].spent = TRUE]
        /\ accepted' = [accepted EXCEPT ![s] = [times |-> accepted[s].times + 1, pack |-> records[s].pack]]
        /\ fetch' = [fetch EXCEPT ![f] = [d EXCEPT !.pc = "read"]]
    BY <1>1, <1>6 DEF Spend, FetchInv, AcceptedInv
  <2>2. /\ s \in DOMAIN records /\ ~records[s].spent /\ accepted[s].times = 0
        /\ records[s] \in Record /\ records[s].pack = d.pack
    BY <1>6 DEF Held, AcceptedInv, TableInv
  <2> HIDE DEF s, d
  <2>3. /\ DOMAIN records' = DOMAIN records
        /\ records'[s] = [records[s] EXCEPT !.spent = TRUE]
        /\ \A t \in DOMAIN records \ {s} : records'[t] = records[t]
    BY <2>1, <2>2
  <2>4. records'[s] \in Record /\ records'[s].spent = TRUE
    BY <2>2, <2>3 DEF Record
  <2>5. TableInv'
    BY <1>0, <2>2, <2>3, <2>4 DEF TableInv
  <2>6. /\ accepted'[s] = [times |-> 1, pack |-> d.pack]
        /\ \A t \in Secrets \ {s} : accepted'[t] = accepted[t]
        /\ accepted' \in [Secrets -> [times : Nat, pack : Packs \cup {NoPack}]]
    <3>1. accepted \in [Secrets -> [times : Nat, pack : Packs \cup {NoPack}]]
      BY DEF AcceptedInv
    <3> QED
      BY <1>1, <2>1, <2>2, <3>1
  <2>7. AcceptedInv'
    <3>1. OneUse'
      BY <1>1, <2>6 DEF OneUse, AcceptedInv
    <3>2. \A t \in Secrets : t > issued' => accepted'[t].times = 0
      <4>1. s <= issued
        BY <2>2 DEF TableInv
      <4>2. s \in Nat /\ issued \in Nat
        BY <2>2, TableFinite
      <4> QED
        BY <1>0, <2>6, <4>1, <4>2 DEF AcceptedInv, Secrets
    <3>3. \A t \in DOMAIN records' : ~records'[t].spent => accepted'[t].times = 0
      BY <2>3, <2>4, <2>6, TableFinite DEF AcceptedInv
    <3> QED
      BY <2>6, <3>1, <3>2, <3>3 DEF AcceptedInv
  <2>8. FetchInv'
    <3> DEFINE next == [d EXCEPT !.pc = "read"]
    <3>1. /\ next \in FetchRecord /\ next.pc = "read" /\ next.secret = s /\ next.pack = d.pack
          /\ next.length = d.length /\ next.sent = d.sent /\ next.whole = d.whole
      BY <1>1 DEF FetchFits, FetchRecord, s, d
    <3> HIDE DEF next
    <3>2. /\ fetch' \in [Fetchers -> FetchRecord] /\ fetch'[f] = next
          /\ \A g \in Fetchers \ {f} : fetch'[g] = fetch[g]
      BY <2>1, <3>1 DEF FetchInv, next
    <3>3. FetchFits(next)
      BY <1>1, <3>1 DEF FetchFits
    <3>4. next.pc \in Serving => accepted'[next.secret].times > 0
                                 /\ next.pack = accepted'[next.secret].pack
      BY <2>6, <3>1
    <3>5. ASSUME NEW g \in Fetchers \ {f}, fetch[g].pc \in Serving
          PROVE  accepted'[fetch[g].secret] = accepted[fetch[g].secret]
      <4>1. fetch[g].secret \in Secrets /\ accepted[fetch[g].secret].times > 0
        BY <3>5 DEF FetchInv, FetchFits, Served, Serving
      <4> QED
        BY <2>2, <2>6, <4>1
    <3> QED
      BY <3>2, <3>3, <3>4, <3>5 DEF FetchInv, Served
  <2>9. RoomInv'
    BY <1>2, <2>3 DEF RoomInv
  <2> QED
    BY <1>0, <2>5, <2>7, <2>8, <2>9
<1> QED
  BY <1>4, <1>5, <1>6 DEF Present

LEMMA FetchStepKeeps ==
    ASSUME DeliveryAssumption, FilesInv, TableInv, AcceptedInv, FetchInv, NEW f \in Fetchers,
           \/ ReadPack(f) \/ OpenFile(f) \/ SendChunk(f) \/ Disconnect(f) \/ ForgetFetch(f)
           \/ \E s \in Secrets, p \in Packs : Holds(f, s, p)
    PROVE  /\ FetchInv'
           /\ UNCHANGED <<writer, bytes, linked, archived, clock, records, issued, mint, scan,
                          crashes, accepted>>
<1> USE DEF packVars, tableVars
<1> DEFINE d == fetch[f]
<1>0. UNCHANGED <<writer, bytes, linked, archived, clock, records, issued, mint, scan,
                  crashes, accepted>>
  BY DEF ReadPack, OpenFile, SendChunk, Disconnect, ForgetFetch, Holds
<1>1. FetchFits(d) /\ Served(d) /\ d \in FetchRecord /\ DOMAIN fetch = Fetchers
      /\ Size \in Nat \ {0} /\ MaxSecrets \in Nat
  BY DEF FetchInv, FetchFits, DeliveryAssumption
<1>2. ASSUME NEW how \in {"streaming", "refused", "complete", "truncated"},
             d.pc # "idle", how # "refused" => d.pc \in Serving,
             how = "complete" => d.sent = d.length,
             fetch' = [fetch EXCEPT ![f] = [d EXCEPT !.pc = how]]
      PROVE  FetchInv'
  <2> HIDE DEF d
  <2>1. FetchFits([d EXCEPT !.pc = how]) /\ Served([d EXCEPT !.pc = how])
    BY <1>1, <1>2, OnlyThePlaceMoves
  <2> QED
    BY <1>0, <1>2, <2>1, OneFetchMoves
<1>3. ASSUME NEW s \in Secrets, NEW p \in Packs, Holds(f, s, p)
      PROVE  FetchInv'
  <2> DEFINE answer == IF Held(s) THEN "present" ELSE "refused"
             next == [FetchIdle EXCEPT !.pc = answer, !.secret = s, !.pack = p]
  <2>1. fetch' = [fetch EXCEPT ![f] = next]
    BY <1>3 DEF Holds
  <2>2. answer \in {"present", "refused"}
    OBVIOUS
  <2> HIDE DEF answer
  <2>3. /\ next \in FetchRecord /\ next.pc = answer /\ next.secret = s /\ next.pack = p
        /\ next.length = 0 /\ next.sent = 0 /\ ~next.whole
    <3>1. /\ FetchIdle \in FetchRecord /\ FetchIdle.length = 0 /\ FetchIdle.sent = 0
          /\ ~FetchIdle.whole
      BY FetchIdleFits DEF FetchFits, FetchIdle
    <3>2. answer \in {"idle", "present", "read", "open", "streaming"} \cup Answered
      BY <2>2 DEF Answered
    <3>3. s \in 0..MaxSecrets /\ p \in Packs \cup {NoPack}
      BY <1>1 DEF Secrets
    <3> QED
      BY <3>1, <3>2, <3>3 DEF FetchRecord
  <2> HIDE DEF next
  <2>4. FetchFits(next) /\ Served(next)
    BY <2>2, <2>3 DEF FetchFits, Served, Serving
  <2> QED
    BY <1>0, <2>1, <2>4, OneFetchMoves
<1>4. CASE ReadPack(f)
  <2>1. d.pc = "read"
    BY <1>4 DEF ReadPack
  <2>2. CASE d.pack \notin linked
    <3>1. fetch' = [fetch EXCEPT ![f] = [d EXCEPT !.pc = "refused"]]
      BY <1>4, <2>2 DEF ReadPack
    <3> QED
      BY <1>0, <1>2, <2>1, <3>1
  <2>3. CASE d.pack \in linked
    <3> DEFINE size == bytes[d.pack]
               full == size = Size
               next == [d EXCEPT !.pc = "open", !.length = size, !.whole = full]
    <3>1. fetch' = [fetch EXCEPT ![f] = next]
      BY <1>4, <2>3 DEF ReadPack
    <3>2. size \in 0..Size /\ full \in BOOLEAN /\ (full => size = Size)
      BY <2>3 DEF FilesInv
    <3> HIDE DEF size, full, d
    <3>3. /\ next \in FetchRecord /\ next.pc = "open" /\ next.secret = d.secret
          /\ next.pack = d.pack /\ next.length = size /\ next.sent = d.sent /\ next.whole = full
      BY <1>1, <3>2 DEF FetchRecord
    <3> HIDE DEF next
    <3>4. FetchFits(next)
      BY <1>1, <2>1, <3>2, <3>3 DEF FetchFits
    <3>5. Served(next)
      BY <1>1, <2>1, <3>3 DEF Served, Serving
    <3> QED
      BY <1>0, <3>1, <3>4, <3>5, OneFetchMoves
  <2> QED
    BY <2>2, <2>3
<1>5. CASE OpenFile(f)
  <2> DEFINE how == IF d.pack \in linked THEN "streaming"
                    ELSE IF d.length = 0 THEN "complete" ELSE "truncated"
  <2>1. d.pc = "open" /\ fetch' = [fetch EXCEPT ![f] = [d EXCEPT !.pc = how]]
    BY <1>5 DEF OpenFile, Ended
  <2>2. how \in {"streaming", "complete", "truncated"} /\ (how = "complete" => d.sent = d.length)
    BY <1>1, <2>1 DEF FetchFits
  <2> HIDE DEF how
  <2> QED
    BY <1>0, <1>2, <2>1, <2>2 DEF Serving
<1>6. CASE SendChunk(f)
  <2>1. d.pc = "streaming"
    BY <1>6 DEF SendChunk
  <2>2. CASE d.sent < d.length /\ d.sent < bytes[d.pack]
    <3> DEFINE next == [d EXCEPT !.sent = d.sent + 1]
    <3>1. fetch' = [fetch EXCEPT ![f] = next]
      BY <1>6, <2>2 DEF SendChunk
    <3> HIDE DEF d
    <3>2. /\ next \in FetchRecord /\ next.pc = d.pc /\ next.secret = d.secret
          /\ next.pack = d.pack /\ next.length = d.length /\ next.sent = d.sent + 1
          /\ next.whole = d.whole
      BY <1>1, <2>2 DEF FetchRecord
    <3> HIDE DEF next
    <3>3. d.sent \in Nat /\ d.length \in Nat /\ d.sent + 1 <= d.length
      BY <1>1, <2>2 DEF FetchRecord
    <3>4. FetchFits(next)
      BY <1>1, <2>1, <3>2, <3>3 DEF FetchFits
    <3>5. Served(next)
      BY <1>1, <3>2 DEF Served
    <3> QED
      BY <1>0, <3>1, <3>4, <3>5, OneFetchMoves
  <2>3. CASE ~(d.sent < d.length /\ d.sent < bytes[d.pack])
    <3> DEFINE how == IF d.sent = d.length THEN "complete" ELSE "truncated"
    <3>1. fetch' = [fetch EXCEPT ![f] = [d EXCEPT !.pc = how]]
      BY <1>6, <2>3 DEF SendChunk, Ended
    <3>2. how \in {"complete", "truncated"} /\ (how = "complete" => d.sent = d.length)
      OBVIOUS
    <3> HIDE DEF how
    <3> QED
      BY <1>0, <1>2, <2>1, <3>1, <3>2 DEF Serving
  <2> QED
    BY <2>2, <2>3
<1>7. CASE Disconnect(f)
  <2>1. d.pc = "streaming" /\ fetch' = [fetch EXCEPT ![f] = [d EXCEPT !.pc = "truncated"]]
    BY <1>7 DEF Disconnect, Ended
  <2> QED
    BY <1>0, <1>2, <2>1 DEF Serving
<1>8. CASE ForgetFetch(f)
  BY <1>0, <1>8, FetchIdleFits, OneFetchMoves DEF ForgetFetch
<1> QED
  BY <1>0, <1>3, <1>4, <1>5, <1>6, <1>7, <1>8

(***************************************************************************)
(* Everything together.                                                     *)
(***************************************************************************)

DeliveryInv ==
    /\ FilesInv /\ ScansInv /\ TableInv /\ AcceptedInv /\ MintInv /\ RoomInv /\ FetchInv
    /\ clock \in Nat /\ crashes \in Nat

LEMMA DeliveryInvInit == DeliveryAssumption /\ DeliveryInit => DeliveryInv
<1> SUFFICES ASSUME DeliveryAssumption, DeliveryInit
             PROVE  DeliveryInv
  OBVIOUS
<1> USE DEF DeliveryInit
<1>1. FilesInv
  <2>1. \A p \in Packs : writer[p] = "none"
    OBVIOUS
  <2>2. bytes \in [Packs -> 0..Size]
    BY DEF DeliveryAssumption
  <2>3. archived \in BOOLEAN
    OBVIOUS
  <2> QED
    BY <2>1, <2>2, <2>3 DEF FilesInv, ProducedPacksAreWhole
<1>2. ScansInv
  BY FreshScan DEF ScansInv, ScanIdle, ScanRecord
<1>3. TableInv /\ DOMAIN records = {}
  BY DEF TableInv, NoRecords, DeliveryAssumption
<1>4. AcceptedInv
  BY <1>3 DEF AcceptedInv, OneUse
<1>5. MintInv
  BY DEF MintInv, MintFits, MintRecord, MintIdle
<1>6. RoomInv
  <2>1. Inserting = {}
    BY DEF Inserting, MintIdle
  <2> QED
    BY <1>3, <2>1, FS_EmptySet, InsertingFinite DEF RoomInv
<1>7. FetchInv
  BY FetchIdleFits DEF FetchInv, FetchFits
<1> QED
  BY <1>1, <1>2, <1>3, <1>4, <1>5, <1>6, <1>7 DEF DeliveryInv

\* A restart forgets the table and the requests, and keeps files and what was accepted.
LEMMA CrashStep ==
    ASSUME DeliveryAssumption, DeliveryInv, Crash
    PROVE  DeliveryInv'
<1> USE DEF Crash
<1>1. FilesInv'
  BY DEF DeliveryInv, FilesInv, ProducedPacksAreWhole
<1>2. ScansInv'
  BY FreshScan DEF ScansInv, ScanIdle, ScanRecord
<1>3. TableInv' /\ DOMAIN records' = {}
  BY DEF DeliveryInv, TableInv, NoRecords
<1>4. AcceptedInv'
  BY <1>3 DEF DeliveryInv, AcceptedInv, OneUse
<1>5. MintInv'
  BY DEF MintInv, MintFits, MintRecord, MintIdle
<1>6. RoomInv'
  <2>1. Inserting' = {}
    BY DEF Inserting, MintIdle
  <2> QED
    BY <1>3, <2>1, FS_EmptySet, InsertingFinite DEF RoomInv
<1>7. FetchInv'
  BY FetchIdleFits DEF FetchInv, FetchFits, Served, FetchIdle, Serving
<1>8. clock' \in Nat /\ crashes' \in Nat
  BY DEF DeliveryInv
<1> QED
  BY <1>1, <1>2, <1>3, <1>4, <1>5, <1>6, <1>7, <1>8 DEF DeliveryInv

LEMMA DeliveryInvStep ==
    ASSUME DeliveryAssumption, DeliveryInv, [DeliveryNext]_deliveryVars
    PROVE  DeliveryInv'
<1> USE DEF DeliveryInv
<1> DEFINE Others == ScansInv /\ TableInv /\ AcceptedInv /\ MintInv /\ RoomInv /\ FetchInv
<1>0. ASSUME UNCHANGED <<clock, records, issued, mint, fetch, scan, crashes, accepted>>
      PROVE  Others'
  BY <1>0 DEF ScansInv, TableInv, AcceptedInv, OneUse, MintInv, RoomInv, Inserting, FetchInv, Served
<1>1. ASSUME NEW p \in Packs,
             \/ BeginExport(p) \/ CreateFile(p) \/ WriteMember(p) \/ Produced(p) \/ DeletePack(p)
             \/ ArchiveProject
      PROVE  DeliveryInv'
  BY <1>0, <1>1, FileStep
<1>2. CASE ArchiveProject
  BY <1>0, <1>2 DEF ArchiveProject, packVars, tableVars, FilesInv, ProducedPacksAreWhole
<1>3. ASSUME NEW l \in Listers, BeginScan(l) \/ EndScan(l) \/ \E p \in Packs : ScanEntry(l, p)
      PROVE  DeliveryInv'
  <2>1. /\ ScansInv'
        /\ UNCHANGED <<writer, bytes, linked, archived, clock, records, issued, mint, fetch,
                       crashes, accepted>>
    BY <1>3, ScanStep
  <2> QED
    BY <2>1 DEF FilesInv, ProducedPacksAreWhole, TableInv, AcceptedInv, OneUse, MintInv,
                RoomInv, Inserting, FetchInv, Served
<1>4. ASSUME NEW m \in Minters, Prune(m) \/ Insert(m) \/ \E p \in Packs : BeginMint(m, p)
      PROVE  DeliveryInv'
  <2>1. /\ TableInv' /\ AcceptedInv' /\ MintInv' /\ RoomInv'
        /\ UNCHANGED <<writer, bytes, linked, archived, clock, fetch, scan, crashes, accepted>>
    BY <1>4, MintStep
  <2> QED
    BY <2>1 DEF FilesInv, ProducedPacksAreWhole, ScansInv, FetchInv, Served
<1>5. ASSUME NEW f \in Fetchers, Present(f)
      PROVE  DeliveryInv'
  <2>1. /\ TableInv' /\ AcceptedInv' /\ FetchInv' /\ RoomInv'
        /\ UNCHANGED <<writer, bytes, linked, archived, clock, mint, scan, crashes>>
    BY <1>5, PresentStep
  <2> QED
    BY <2>1 DEF FilesInv, ProducedPacksAreWhole, ScansInv, MintInv
<1>6. ASSUME NEW f \in Fetchers,
             \/ ReadPack(f) \/ OpenFile(f) \/ SendChunk(f) \/ Disconnect(f) \/ ForgetFetch(f)
             \/ \E s \in Secrets, p \in Packs : Holds(f, s, p)
      PROVE  DeliveryInv'
  <2>1. /\ FetchInv'
        /\ UNCHANGED <<writer, bytes, linked, archived, clock, records, issued, mint, scan,
                       crashes, accepted>>
    BY <1>6, FetchStepKeeps
  <2> QED
    BY <2>1 DEF FilesInv, ProducedPacksAreWhole, ScansInv, TableInv, AcceptedInv, OneUse,
                MintInv, RoomInv, Inserting
<1>7. CASE Tick
  <2>1. UNCHANGED <<writer, bytes, linked, archived, records, issued, mint, fetch, scan,
                    crashes, accepted>> /\ clock' \in Nat
    BY <1>7 DEF Tick, packVars, tableVars
  <2> QED
    BY <2>1 DEF FilesInv, ProducedPacksAreWhole, ScansInv, TableInv, AcceptedInv, OneUse,
                MintInv, RoomInv, Inserting, FetchInv, Served
<1>8. CASE Crash
  BY <1>8, CrashStep
<1>9. CASE UNCHANGED deliveryVars
  BY <1>0, <1>9 DEF deliveryVars, FilesInv, ProducedPacksAreWhole
<1> QED
  BY <1>1, <1>2, <1>3, <1>4, <1>5, <1>6, <1>7, <1>8, <1>9 DEF DeliveryNext, FetchStep

LEMMA DeliveryInvMeans ==
    ASSUME DeliveryAssumption, DeliveryInv
    PROVE  DeliveryIsHonest
<1> USE DEF DeliveryInv
<1>1. TypeOK
  <2>1. mint \in [Minters -> MintRecord] /\ fetch \in [Fetchers -> FetchRecord]
        /\ scan \in [Listers -> ScanRecord]
    BY DEF MintInv, MintFits, FetchInv, FetchFits, ScansInv, ScanFits
  <2> QED
    BY <2>1 DEF TypeOK, FilesInv, TableInv, AcceptedInv, MintRecord, FetchRecord, ScanRecord
<1>2. ServesItsPack
  BY DEF ServesItsPack, FetchInv, Served, Serving
<1>3. CompleteIsWhole
  BY DEF CompleteIsWhole, FetchInv, FetchFits
<1>4. ListingIsHonest
  BY DEF ListingIsHonest, ScansInv, ScanFits, Undescribed
<1>5. TableBounded
  BY TableFinite, InsertingFinite DEF TableBounded, RoomInv
<1> QED
  BY <1>1, <1>2, <1>3, <1>4, <1>5 DEF DeliveryIsHonest, AcceptedInv, FilesInv

\* A capability opens its pack once, whatever is minted, evicted, expired or presented at
\* the same time, over any number of packs, requests and restarts; downloads and listings
\* tell how much of a pack there is (exportrun.py, api.py).
THEOREM DeliveryIsHonestAlways ==
    ASSUME DeliveryAssumption
    PROVE  DeliverySpec => []DeliveryIsHonest
<1>1. DeliveryInit => DeliveryInv
  BY DeliveryInvInit
<1>2. DeliveryInv /\ [DeliveryNext]_deliveryVars => DeliveryInv'
  BY DeliveryInvStep
<1>3. DeliveryInv => DeliveryIsHonest
  BY DeliveryInvMeans
<1> QED
  BY <1>1, <1>2, <1>3, PTL DEF DeliverySpec

=============================================================================
