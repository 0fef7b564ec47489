----------------------------- MODULE LocalGuard -----------------------------
(***************************************************************************)
(* LocalGuard (api.py): what a request must carry before the application    *)
(* sees it.  One download capability is open; a request presents some of:   *)
(* the session token, the capability in its path, browser fetch metadata.   *)
(* Requests arrive one after the other, in every order.                     *)
(***************************************************************************)
EXTENDS Naturals

VARIABLES ticket,   \* the one capability: "live", "spent" or "gone" from the table
          request,  \* the request judged last
          outcome   \* its refusal, or where it went

guardVars == <<ticket, request, outcome>>

Request ==
    [method : {"GET", "POST", "OPTIONS"},
     host : {"own", "foreign"},
     origin : {"absent", "own", "foreign"},
     site : {"absent", "same-origin", "none", "cross-site"},
     path : {"document", "api", "capability", "other pack"},
     token : {"absent", "right", "wrong"}]

NoRequest == [method |-> "GET", host |-> "own", origin |-> "absent", site |-> "absent",
              path |-> "document", token |-> "absent"]

Entries == {"page", "route", "download"}

StateChanging == {"POST"}

GuardInit ==
    /\ ticket = "live"
    /\ request = NoRequest /\ outcome = "none"

CrossSite(r) == r.site = "cross-site"

\* _refuse_origin.
RefuseOrigin(r) ==
    IF r.host # "own" THEN "HOST_NOT_ALLOWED"
    ELSE IF r.method = "OPTIONS" THEN "PREFLIGHT_DENIED"
    ELSE IF r.origin = "foreign" \/ (r.method \in StateChanging /\ CrossSite(r))
         THEN "CROSS_ORIGIN_DENIED"
    ELSE "none"

\* _refuse_navigation: fetch metadata for every method.
RefuseNavigation(r) == IF CrossSite(r) THEN "CROSS_ORIGIN_DENIED" ELSE "none"

\* _refuse_token.
RefuseToken(r) ==
    CASE r.token = "absent" -> "LOCAL_TOKEN_REQUIRED"
      [] r.token = "wrong" -> "LOCAL_TOKEN_INVALID"
      [] r.token = "right" -> "none"

\* holds: the last segment of the path is a secret in the table.
HoldsCapability(r) == r.path \in {"capability", "other pack"} /\ ticket # "gone"

\* The end of one judgement; only an accepted capability is spent.
Ends(r, how) ==
    /\ request' = r
    /\ outcome' = how
    /\ ticket' = IF how = "download" THEN "spent" ELSE ticket

\* Mutant of Credential: the capability is looked up before the fetch metadata.
CredentialFirst(r) ==
    IF ~HoldsCapability(r) THEN IF RefuseToken(r) # "none" THEN RefuseToken(r) ELSE "route"
    ELSE IF r.path = "capability" /\ ticket = "live" THEN "download"
    ELSE IF RefuseNavigation(r) # "none" THEN RefuseNavigation(r)
    ELSE "DOWNLOAD_TICKET"

\* _refuse_credential: the session token, or one capability minted under it.
Credential(r) ==
    IF ~HoldsCapability(r) THEN IF RefuseToken(r) # "none" THEN RefuseToken(r) ELSE "route"
    ELSE IF RefuseNavigation(r) # "none" THEN RefuseNavigation(r)
    ELSE IF r.path = "capability" /\ ticket = "live" THEN "download"
    ELSE "DOWNLOAD_TICKET"

\* _refuse.
Judged(r) ==
    IF RefuseOrigin(r) # "none" THEN RefuseOrigin(r)
    ELSE IF r.path = "document"
         THEN IF RefuseNavigation(r) # "none" THEN RefuseNavigation(r) ELSE "page"
    ELSE Credential(r)

Arrive(r) == Ends(r, Judged(r))

\* Another mint evicts the capability, or it expires and is forgotten.
Forget ==
    /\ ticket # "gone"
    /\ ticket' = "gone"
    /\ UNCHANGED <<request, outcome>>

GuardNext == Forget \/ \E r \in Request : Arrive(r)

GuardSpec == GuardInit /\ [][GuardNext]_guardVars

(***************************************************************************)
(* Properties.                                                              *)
(***************************************************************************)

\* The step is a request, and not the table forgetting the capability.
Arrival == ~(ticket # "gone" /\ ticket' = "gone")

\* Nothing beyond the shipped page is reached without the session token or a live
\* capability that is thereby spent.
EntryNeedsACredential ==
    outcome' \in {"route", "download"} =>
        request'.token = "right" \/ (ticket = "live" /\ ticket' = "spent")

\* The request comes from a page of another site, as far as the browser tells.
Foreign(r) ==
    \/ r.host = "foreign"
    \/ r.origin = "foreign"
    \/ CrossSite(r) /\ (r.method \in StateChanging \/ r.path = "document" \/ HoldsCapability(r))

\* A page of another site reaches nothing and spends nothing, whatever else its
\* request carries.
CrossSiteChangesNothing == Foreign(request') => outcome' \notin Entries /\ ticket' = ticket

\* What every request must show, in whatever order requests and capabilities come.
GuardIsAsked == [][Arrival => EntryNeedsACredential /\ CrossSiteChangesNothing]_guardVars

=============================================================================
