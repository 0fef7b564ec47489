---------------------------- MODULE UploadStaging ----------------------------
(* The measurement intake of the loopback API (apps/local/nipo_local/api.py, *)
(* _probe_upload) and the loaders behind it (loaders.py).  Requests run in   *)
(* threads of one server over one staging directory; the server may be       *)
(* killed, a write or a wipe may fail.                                       *)
(*                                                                           *)
(* A request is its number of bytes and the set of things wrong with it; all *)
(* requests use the same file name.  Nothing in the code ever looks at the   *)
(* staging directory of an earlier server.                                   *)
EXTENDS Integers, FiniteSets, Sequences

CONSTANTS Requests,
          Sizes,      \* decoded sizes that requests try
          Cap,        \* PRODUCT_UPLOAD_DATA_BYTES
          Empty       \* no directory, no file, no answer

(* What the bounds may be, and that a directory is not Empty.                *)
UploadAssumption ==
  /\ Sizes \subseteq Nat /\ Cap \in Nat
  /\ Empty \notin [data : Requests \cup {Empty}, manifest : Requests \cup {Empty}]

VARIABLES pc, flaws, size,
          stage,    \* staging directories: who wrote the data and the manifest
          leaf,     \* the directory name a request drew
          loaded,   \* whose files its loader read
          answer    \* what it was, or will be, answered

uploadVars == <<pc, flaws, size, stage, leaf, loaded, answer>>

(* The checks in the order the code makes them.                              *)
EarlyChecks == <<"project", "unsafe_filename", "data_too_large", "invalid_base64">>
ManifestChecks == <<"manifest_syntax", "manifest_schema", "manifest_kind">>
DataChecks == <<"image_section", "malformed_data">>
MetadataChecks == <<"build_metadata", "metadata_rejected">>
LoaderChecks == ManifestChecks \o DataChecks \o MetadataChecks
CapChecks == <<"product_cap", "probe_json_cap">>
Elements(s) == {s[i] : i \in 1 .. Len(s)}
Flaws == Elements(EarlyChecks) \cup Elements(LoaderChecks) \cup Elements(CapChecks)

(* Up to two things are wrong with a request, and its size.                  *)
FlawSets == {{}} \cup {{f, g} : f, g \in Flaws \ {"data_too_large"}}

First(checks, fs) ==
  checks[CHOOSE i \in 1 .. Len(checks) :
           checks[i] \in fs /\ \A j \in 1 .. i - 1 : checks[j] \notin fs]

(* base64 writes three bytes as four characters and pads the last group.     *)
EncodedLength(n) == 4 * ((n + 2) \div 3)
Pad(n) == (3 - (n % 3)) % 3

DecodedSize(length, pad) == (length * 3) \div 4 - pad

UploadInit ==
  /\ pc = [q \in Requests |-> "idle"]
  /\ flaws = [q \in Requests |-> {}]
  /\ size = [q \in Requests |-> 0]
  /\ stage = [q \in Requests |-> Empty]
  /\ leaf = [q \in Requests |-> q]
  /\ loaded = [q \in Requests |-> Empty]
  /\ answer = [q \in Requests |-> Empty]

Goto(q, l) == pc' = [pc EXCEPT ![q] = l]
Reply(q, a) == answer' = [answer EXCEPT ![q] = a]

(* Live Project, file name, size before decoding, base64, size after it.     *)
Submit(q, fs, n) ==
  /\ pc[q] = "idle"
  /\ size' = [size EXCEPT ![q] = n]
  /\ flaws' = [flaws EXCEPT ![q] = fs \cup (IF n > Cap THEN {"data_too_large"} ELSE {})]
  /\ LET seen == fs \cup (IF DecodedSize(EncodedLength(n), Pad(n)) > Cap
                          THEN {"data_too_large"} ELSE {}) IN
     IF seen \cap Elements(EarlyChecks) # {}
     THEN Reply(q, First(EarlyChecks, seen)) /\ Goto(q, "answered")
     ELSE Goto(q, "dir") /\ UNCHANGED answer
  /\ UNCHANGED <<stage, leaf, loaded>>

SharedLeaf(q) == CHOOSE r \in Requests : TRUE

(* A fresh identifier for every request.                                     *)
StageLeaf(q) == q

(* mkdir tolerates a directory that is there.                                *)
PrepareStageDir(q) ==
  /\ pc[q] = "dir"
  /\ leaf' = [leaf EXCEPT ![q] = StageLeaf(q)]
  /\ stage' = [stage EXCEPT ![StageLeaf(q)] =
                 IF @ = Empty THEN [data |-> Empty, manifest |-> Empty] ELSE @]
  /\ Goto(q, "data")
  /\ UNCHANGED <<flaws, size, loaded, answer>>

(* O_EXCL: a file that is there, or a directory that is gone, is an error;   *)
(* so is a failing disk, whose half-written file is removed again.           *)
WriteStagingFile(q) ==
  /\ pc[q] \in {"data", "manifest"}
  /\ UNCHANGED <<flaws, size, leaf, loaded>>
  /\ LET there == stage[leaf[q]] IN
     \/ /\ there # Empty
        /\ there[pc[q]] = Empty
        /\ stage' = [stage EXCEPT ![leaf[q]][pc[q]] = q]
        /\ Goto(q, IF pc[q] = "data" THEN "manifest" ELSE "load")
        /\ UNCHANGED answer
     \/ /\ Reply(q, IF there # Empty /\ there[pc[q]] = Empty THEN "io" ELSE "exists")
        /\ Goto(q, "refuse") /\ UNCHANGED stage

(* Each loader error has a token of its own; a missing image section and     *)
(* metadata that cannot be built are schema errors too.                      *)
LoaderToken(f) ==
  IF f \in {"image_section", "build_metadata"} THEN "manifest_schema" ELSE f

(* The probe document has the token of oversized data.                       *)
CapToken(f) == IF f = "probe_json_cap" THEN "data_too_large" ELSE f

(* The loader reads what lies at the path now: data file, sidecar manifest,  *)
(* its syntax, schema and kind, the data, the metadata; then product caps.   *)
LoadStagedProbe(q) ==
  /\ pc[q] = "load"
  /\ UNCHANGED <<flaws, size, stage, leaf>>
  /\ LET there == stage[leaf[q]] IN
     IF there = Empty
     THEN Reply(q, "data_file_not_found") /\ Goto(q, "refuse") /\ UNCHANGED loaded
     ELSE LET found == flaws[there.data] \cup flaws[there.manifest] IN
          /\ loaded' = [loaded EXCEPT ![q] = there]
          /\ IF found \cap Elements(LoaderChecks) # {}
             THEN Reply(q, LoaderToken(First(LoaderChecks, found))) /\ Goto(q, "refuse")
             ELSE IF found \cap Elements(CapChecks) # {}
             THEN Reply(q, CapToken(First(CapChecks, found))) /\ Goto(q, "refuse")
             ELSE Reply(q, "created") /\ Goto(q, "wipe")

(* The success path surfaces a wipe that failed; a refusal in flight takes   *)
(* precedence over it.                                                       *)
Wipe(q) ==
  /\ pc[q] \in {"wipe", "refuse"}
  /\ Goto(q, "answered")
  /\ \/ /\ stage' = [stage EXCEPT ![leaf[q]] = Empty]
        /\ UNCHANGED answer
     \/ /\ UNCHANGED stage
        /\ answer' = [answer EXCEPT ![q] = IF pc[q] = "wipe" THEN "wipe_failed" ELSE @]
  /\ UNCHANGED <<flaws, size, leaf, loaded>>

(* The server is killed: no request of it is answered, the disk stays.       *)
Kill ==
  /\ pc' = [q \in Requests |-> IF pc[q] \in {"idle", "answered"} THEN pc[q] ELSE "dead"]
  /\ UNCHANGED <<flaws, size, stage, leaf, loaded, answer>>

UploadNext ==
  \/ \E q \in Requests :
       \/ \E fs \in FlawSets, n \in Sizes : Submit(q, fs, n)
       \/ PrepareStageDir(q) \/ WriteStagingFile(q) \/ LoadStagedProbe(q) \/ Wipe(q)
  \/ Kill

UploadSpec == UploadInit /\ [][UploadNext]_uploadVars

-----------------------------------------------------------------------------
(* However uploads overlap and whatever earlier servers left behind, the     *)
(* document of a 201 answer was made from this request's own data and        *)
(* manifest, and its bytes are gone from the staging directory.              *)
CreatedFromOwnBytesAndWiped ==
  \A q \in Requests : pc[q] = "answered" /\ answer[q] = "created" =>
    /\ loaded[q] = [data |-> q, manifest |-> q]
    /\ stage[q] = Empty

(* No upload disturbs another: one with nothing wrong is answered 201 unless *)
(* its own write or wipe failed.                                             *)
CleanUploadsAreCreated ==
  \A q \in Requests : pc[q] = "answered" /\ flaws[q] = {} =>
    answer[q] \in {"created", "wipe_failed", "io"}

(* What each refusal token tells the user.                                   *)
Meaning(token) ==
  CASE token = "manifest_schema" -> {"manifest_schema", "image_section", "build_metadata"}
    [] token = "data_too_large" -> {"data_too_large", "probe_json_cap"}
    [] OTHER -> {token}

(* A refusal names something that is wrong with this very request, size      *)
(* included to the byte, and a request with something wrong is never 201.    *)
RefusalsNameAFlaw ==
  \A q \in Requests : pc[q] = "answered" =>
    /\ answer[q] \in Flaws => Meaning(answer[q]) \cap flaws[q] # {}
    /\ answer[q] \in {"created", "wipe_failed"} => flaws[q] = {}

(* The answers uploads get, taken together.                                  *)
UploadAnswersAreHonest ==
  CreatedFromOwnBytesAndWiped /\ CleanUploadsAreCreated /\ RefusalsNameAFlaw
=============================================================================
