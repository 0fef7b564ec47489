----------------------------- MODULE MCProviders -----------------------------
(***************************************************************************)
(* Instances for TLC of what talks to model providers: the turn route in    *)
(* one and in two server processes, the reading of a streamed answer, and   *)
(* the registry of keys and models.  part, chosen at the start, says which  *)
(* of them a behaviour explores; the others stay in their initial state.    *)
(***************************************************************************)
EXTENDS TurnRoute, ProviderRegistry, ModelStream, TLC

CONSTANTS q1, q2, q3, m1, m2, s1, s2, r1, r2, k1,
          w1, w2, openai, google,
          Parts

VARIABLE part

\* One server process gets the requests for r1, two those for r2.
MCProcessOf == (q1 :> s1) @@ (q2 :> s1) @@ (q3 :> s2)
MCServersOf == (r1 :> {s1}) @@ (r2 :> {s1, s2})
MCStripeOf == [r \in {r1, r2} |-> k1]

\* The two requests of the registry have server processes of their own.
MCProcessOfWorker == (w1 :> s1) @@ (w2 :> s2)

ASSUME /\ TurnAssumption
       /\ StreamAssumption
       /\ RegistryAssumption

\* Before any turn, with nothing enabled.
NoTurns == Init /\ enabled = {} /\ keyed = {}

\* Before anything was read of an empty body.
NoStream ==
    /\ adapter = "google" /\ body = <<>> /\ read = 0
    /\ pending = <<>> /\ data = <<>> /\ frames = <<>> /\ result = "reading"

SuiteInit ==
    /\ part \in Parts
    /\ IF part \in {"pin", "across"} THEN Init ELSE NoTurns
    /\ IF part = "stream" THEN StreamInit ELSE NoStream
    /\ RegistryInit

\* Two requests for r1 meet on its stripe; settings change under way.
PinBound ==
    /\ calls'[q3].pc = "idle"
    /\ \A q \in Requests : calls'[q].run # r2 /\ calls'[q].frames <= 1 /\ calls'[q].ticks = 0

\* Two server processes complete turns of r2, each frame at once or after a wait.
AcrossBound ==
    /\ calls'[q2].pc = "idle"
    /\ \A q \in Requests : calls'[q].run # r1
    /\ settings' = 0

\* One request after the other, with crashes between any two steps.
SerialBound == together' = "never"

\* Requests of two server processes overwrite each other; one key changes.
ConcurrentBound == \A w \in Workers : ~Concerns(job'[w].request, google)

SuiteNext ==
    /\ \/ part = "pin" /\ Next /\ PinBound /\ UNCHANGED <<streamVars, registryVars>>
       \/ part = "across" /\ Next /\ AcrossBound /\ UNCHANGED <<streamVars, registryVars>>
       \/ part = "stream" /\ StreamNext /\ UNCHANGED <<turnVars, registryVars>>
       \/ /\ part = "serial" /\ RegistryNext /\ SerialBound
          /\ UNCHANGED <<turnVars, streamVars>>
       \/ /\ part = "concurrent" /\ RegistryNext /\ ConcurrentBound
          /\ UNCHANGED <<turnVars, streamVars>>
    /\ UNCHANGED part

SuiteSpec == SuiteInit /\ [][SuiteNext]_<<part, turnVars, streamVars, registryVars>>

Symmetry == Permutations({m1, m2})
=============================================================================
