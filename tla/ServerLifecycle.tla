-------------------------- MODULE ServerLifecycle --------------------------
(***************************************************************************)
(* Starting and closing local servers over one data root (start_local_api,  *)
(* RunningLocalApi.close and write_token_file of api.py, bind_loopback and  *)
(* LoopbackServer of apiserver.py).  A start binds a socket, builds the     *)
(* application, publishes its token in the one token file of the data root  *)
(* and begins to serve.  Several processes may do so at once, each once;    *)
(* each may fail at every step or be killed.                                *)
(***************************************************************************)
EXTENDS Naturals, FiniteSets

CONSTANTS Processes, NoProcess

\* Processes are not the absent one.
LifecycleAssumption == NoProcess \notin Processes

VARIABLES
    place,         \* where the start or the close of each process is
    listening,  \* processes whose socket is bound
    serving,    \* processes whose event loop accepts
    file,       \* whose token the token file holds
    whole       \* the token file is completely written

lifecycleVars == <<place, listening, serving, file, whole>>

ServerInit ==
    /\ place = [p \in Processes |-> "idle"]
    /\ listening = {} /\ serving = {}
    /\ file = NoProcess /\ whole = FALSE

Goto(p, step) == place' = [place EXCEPT ![p] = step]

\* LocalPaths.ensure and bind_loopback.  The socket is listening from here on; a
\* refused bind leaves none.
Bind(p) ==
    /\ place[p] = "idle"
    /\ \/ Goto(p, "bound") /\ listening' = listening \cup {p}
       \/ Goto(p, "failed") /\ UNCHANGED listening
    /\ UNCHANGED <<serving, file, whole>>

\* create_app and LoopbackServer; a failure closes the socket.
Build(p) ==
    /\ place[p] = "bound"
    /\ \/ Goto(p, "built") /\ UNCHANGED listening
       \/ Goto(p, "failed") /\ listening' = listening \ {p}
    /\ UNCHANGED <<serving, file, whole>>

\* write_token_file: whatever is there is removed, ...
UnlinkToken(p) ==
    /\ place[p] = "built"
    /\ Goto(p, "unlinked")
    /\ file' = NoProcess /\ whole' = FALSE
    /\ UNCHANGED <<listening, serving>>

\* ... the file is created exclusively, ...
CreateToken(p) ==
    /\ place[p] = "unlinked"
    /\ IF file = NoProcess
       THEN Goto(p, "created") /\ file' = p /\ whole' = FALSE
       ELSE Goto(p, "failed") /\ UNCHANGED <<file, whole>>
    /\ UNCHANGED <<listening, serving>>

\* ... and written through its descriptor, which another process may have unlinked.
\* A failure removes whatever file has the name by then.
WriteToken(p) ==
    /\ place[p] = "created"
    /\ \/ /\ Goto(p, "published")
          /\ whole' = IF file = p THEN TRUE ELSE whole
          /\ UNCHANGED file
       \/ Goto(p, "failed") /\ file' = NoProcess /\ whole' = FALSE
    /\ UNCHANGED <<listening, serving>>

\* Mutant of StartServing: a loop that does not come up leaves the token file.
StartLeaving(p) ==
    /\ place[p] = "published"
    /\ \/ Goto(p, "running") /\ serving' = serving \cup {p} /\ UNCHANGED listening
       \/ Goto(p, "failed") /\ listening' = listening \ {p} /\ UNCHANGED serving
    /\ UNCHANGED <<file, whole>>

\* server.start; a failure removes the token file and closes the socket.
StartServing(p) ==
    /\ place[p] = "published"
    /\ \/ /\ Goto(p, "running") /\ serving' = serving \cup {p}
          /\ UNCHANGED <<listening, file, whole>>
       \/ /\ Goto(p, "failed") /\ listening' = listening \ {p}
          /\ file' = NoProcess /\ whole' = FALSE /\ UNCHANGED serving

\* LoopbackServer.stop.
Stop(p) ==
    /\ place[p] = "running"
    /\ Goto(p, "stopped")
    /\ listening' = listening \ {p} /\ serving' = serving \ {p}
    /\ UNCHANGED <<file, whole>>

\* The rest of close: the token file is removed, whoever wrote it.
RemoveToken(p) ==
    /\ place[p] = "stopped"
    /\ Goto(p, "ended")
    /\ file' = NoProcess /\ whole' = FALSE
    /\ UNCHANGED <<listening, serving>>

\* The process ends: its sockets are gone, its files stay.
Exit(p) ==
    /\ place[p] \notin {"idle", "killed"}
    /\ Goto(p, "killed")
    /\ listening' = listening \ {p} /\ serving' = serving \ {p}
    /\ UNCHANGED <<file, whole>>

Step(p) ==
    \/ Build(p) \/ UnlinkToken(p) \/ CreateToken(p) \/ WriteToken(p) \/ StartServing(p)
    \/ Stop(p) \/ RemoveToken(p)

ServerNext == \E p \in Processes : Bind(p) \/ Step(p) \/ Exit(p)

ServerSpec == ServerInit /\ [][ServerNext]_lifecycleVars

(***************************************************************************)
(* Properties.                                                              *)
(***************************************************************************)

\* Whoever was killed, a file that is not whole is being written by its process or
\* was left by a killed one; nobody takes over the file of another.
TornTokensHaveAWriter == file # NoProcess /\ ~whole => place[file] \in {"created", "killed"}

\* Unless a process was killed, the token file names a process that is still
\* starting or serving: a start that fails and a close leave none of their own.
NoStaleToken ==
    (\A p \in Processes : place[p] # "killed") /\ file # NoProcess =>
        place[file] \in {"created", "published", "running", "stopped"}

\* When servers have started at the same time and none failed or closed, the token
\* file is whole and names one that serves.
StartedServersAreFound ==
    (\A p \in Processes : place[p] \in {"idle", "running"}) /\ serving # {} =>
        file \in serving /\ whole

\* Whoever reads the token file finds a server, unless one was killed, when all
\* starts succeeded one that serves; a file that is not whole has a writer that is
\* still at it or was killed.
ServersAreFound == TornTokensHaveAWriter /\ NoStaleToken /\ StartedServersAreFound

=============================================================================
