----------------------------- MODULE CommitOnce -----------------------------
(***************************************************************************)
(* What ArtifactService.create_version promises its callers about one       *)
(* watcher reference: at most one Version is ever committed for it, and     *)
(* every call that returns names that Version, whatever failed in between.  *)
(***************************************************************************)
CONSTANTS References, Versions,
          NoVersion     \* nothing was committed for the reference

VARIABLES result,       \* the Version committed for each reference
          returned      \* the answers callers got

onceVars == <<result, returned>>

OnceInit ==
    /\ result = [r \in References |-> NoVersion]
    /\ returned = {}

\* The Version becomes durable.
Commit(r, v) ==
    /\ result[r] = NoVersion
    /\ \A s \in References : result[s] # v
    /\ result' = [result EXCEPT ![r] = v]
    /\ UNCHANGED returned

\* A call for the reference returns.
Return(r) ==
    /\ result[r] # NoVersion
    /\ returned' = returned \cup {<<r, result[r]>>}
    /\ UNCHANGED result

OnceNext ==
    \E r \in References : Return(r) \/ \E v \in Versions : Commit(r, v)

OnceSpec == OnceInit /\ [][OnceNext]_onceVars

=============================================================================
