--------------------------- MODULE SignedDownloads ---------------------------
(* Signed downloads of the artifact service (service.py, issue_download and  *)
(* redeem_download; signing.py).  The clock counts microseconds, a token     *)
(* expires at a whole millisecond, and the Project may be archived or the    *)
(* clock set between any two steps.                                          *)
(*                                                                           *)
(* A signature makes a token an element of tokens; int(timestamp * 1000) is  *)
(* taken to be exact.                                                        *)
EXTENDS Integers, FiniteSets

CONSTANTS Projects, Callers,
          Published,   \* Versions
          ProjectOf,   \* the Project of each Version
          MaxTtl,      \* MAX_DOWNLOAD_TTL in milliseconds
          Ttls,        \* lifetimes asked for, in microseconds
          Clock,       \* readings of the clock, in microseconds
          MaxTokens,   \* bound on the tokens issued
          None

ASSUME DownloadAssumption ==
  /\ ProjectOf \in [Published -> Projects]
  /\ {MaxTtl, MaxTokens} \subseteq Nat \ {0} /\ Ttls \subseteq Nat /\ Clock \subseteq Nat

VARIABLES now,
          closed,     \* archived Projects
          asked,      \* caller -> the request it is in the middle of
          tokens,     \* those issued: claims, and what was asked for when
          answers     \* caller -> what its last token brought

downloadVars == <<now, closed, asked, tokens, answers>>

DownloadInit ==
  /\ now \in Clock
  /\ closed = {}
  /\ asked = [c \in Callers |-> None]
  /\ tokens = {}
  /\ answers = [c \in Callers |-> None]

(* The system clock, which may also be set back.                             *)
SetClock(t) == now' = t /\ UNCHANGED <<closed, asked, tokens, answers>>

CloseProject(p) ==
  /\ closed' = closed \cup {p}
  /\ UNCHANGED <<now, asked, tokens, answers>>

Ask(c, request) == asked' = [asked EXCEPT ![c] = request]

TtlAdmitted(ttl) == 1000 <= ttl /\ ttl <= MaxTtl * 1000

(* The lifetime is in range and the Version is of the caller's Project,      *)
(* which is not archived.                                                    *)
ReadVersion(c, p, v, ttl) ==
  /\ asked[c] = None /\ Cardinality(tokens) < MaxTokens
  /\ TtlAdmitted(ttl) /\ ProjectOf[v] = p /\ p \notin closed
  /\ Ask(c, [kind |-> "issue", version |-> v, ttl |-> ttl])
  /\ UNCHANGED <<now, closed, tokens, answers>>

CeilingOnly(at, ttl) == (at + ttl + 999) \div 1000
FloorOnly(at, ttl) == (at + ttl) \div 1000

(* The deadline is rounded up to a millisecond, the longest one down.        *)
ExpiresMs(at, ttl) ==
  LET requested == (at + ttl + 999) \div 1000
      maximum == (at + MaxTtl * 1000) \div 1000
  IN IF requested <= maximum THEN requested ELSE maximum

(* Refused if the Project was archived meanwhile, or for a lifetime that is  *)
(* not of whole milliseconds.                                                *)
IssueDownload(c) ==
  /\ asked[c] # None /\ asked[c].kind = "issue"
  /\ Ask(c, None)
  /\ LET v == asked[c].version
         ttl == asked[c].ttl
     IN tokens' = IF ProjectOf[v] \in closed \/ ttl % 1000 # 0
                  THEN tokens
                  ELSE tokens \cup {[version |-> v, at |-> now, ttl |-> ttl,
                                     expires |-> ExpiresMs(now, ttl)]}
  /\ UNCHANGED <<now, closed, answers>>

Answer(c, token, p, at, outcome) ==
  answers' = [answers EXCEPT ![c] = [token |-> token, project |-> p, at |-> at,
                                     outcome |-> outcome, live |-> p \notin closed]]

Expired(token) == now \div 1000 >= token.expires

(* The signature, the expiry and the Project of the claims.                  *)
Verify(c, token, p) ==
  /\ asked[c] = None
  /\ token \in tokens
  /\ IF Expired(token)
     THEN Answer(c, token, p, now, "expired") /\ UNCHANGED asked
     ELSE IF ProjectOf[token.version] # p
     THEN Answer(c, token, p, now, "not_found") /\ UNCHANGED asked
     ELSE /\ Ask(c, [kind |-> "redeem", token |-> token, at |-> now])
          /\ UNCHANGED answers
  /\ UNCHANGED <<now, closed, tokens>>

RedeemContent(p) == IF p \in closed THEN "archived" ELSE "content"

RedeemDownload(c) ==
  /\ asked[c] # None /\ asked[c].kind = "redeem"
  /\ Ask(c, None)
  /\ LET token == asked[c].token
         p == ProjectOf[token.version]
     IN Answer(c, token, p, asked[c].at, RedeemContent(p))
  /\ UNCHANGED <<now, closed, tokens>>

DownloadNext ==
  \/ \E t \in Clock : SetClock(t)
  \/ \E p \in Projects : CloseProject(p)
  \/ \E c \in Callers :
       \/ \E p \in Projects, v \in Published, ttl \in Ttls : ReadVersion(c, p, v, ttl)
       \/ IssueDownload(c)
       \/ \E token \in tokens, p \in Projects : Verify(c, token, p)
       \/ RedeemDownload(c)

DownloadSpec == DownloadInit /\ [][DownloadNext]_downloadVars

-----------------------------------------------------------------------------
(* Content is handed out only for a token verified before its lifetime, and  *)
(* the longest lifetime, had passed, give or take the rest of the last       *)
(* millisecond, under the Version's own Project, live when it is read.       *)
RedeemedWithinTheLifetime ==
  \A c \in Callers : answers[c] # None /\ answers[c].outcome = "content" =>
    LET a == answers[c] IN
    /\ a.at < a.token.at + a.token.ttl + 1000
    /\ a.at < a.token.at + MaxTtl * 1000
    /\ a.project = ProjectOf[a.token.version] /\ a.live

(* A token is called expired only once its whole lifetime has passed; one    *)
(* of the longest lifetime less than a millisecond early.                    *)
FullLifetimeGranted ==
  \A c \in Callers : answers[c] # None /\ answers[c].outcome = "expired" =>
    LET a == answers[c] IN
    IF a.token.ttl < MaxTtl * 1000
    THEN a.at >= a.token.at + a.token.ttl
    ELSE a.at > a.token.at + MaxTtl * 1000 - 1000
=============================================================================
