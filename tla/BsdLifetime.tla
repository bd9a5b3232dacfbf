---------------------------- MODULE BsdLifetime ----------------------------
(***************************************************************************)
(* How long the shim keeps real bsd:u sessions open, for whom, and who has *)
(* the one transfer memory it lends to real bsd (source/mitm/bsd_shim.cpp: *)
(* ShouldMitm, RegisterClient, ~BsdShim, ShutdownAllSockets,               *)
(* CleanupAbandonedServices).                                              *)
(*                                                                         *)
(* A session is a shim object with a forward service: the handle of a real *)
(* bsd session, shared by count between the object, the server framework,  *)
(* the list of parked services and the retained registration.  The server  *)
(* thread runs one handler at a time; RegisterClient keeps the lock of the *)
(* registration while real bsd answers.  The node thread runs the clean-up,*)
(* of which every locked section is a step.  What the clean-up does to the *)
(* table of mirrored sockets is in LanMirror.                              *)
(*                                                                         *)
(* Real bsd, the framework's own reference and the kernel are outside the  *)
(* repository.  Process ids are not used twice.                            *)
(***************************************************************************)
EXTENDS Naturals, FiniteSets

CONSTANTS
    Pids,               \* games
    Proxied,            \* those IsSplatoon2ProgramId accepts
    NoPid,              \* the code's 0
    Sessions,           \* sessions that are ever accepted
    NoSession,          \* an empty registration owner
    MaxTrackedClients   \* entries of g_client_sessions (bsd_shim.cpp: 32)

ASSUME LifetimeAssumption ==
    /\ Proxied \subseteq Pids
    /\ NoPid \notin Pids
    /\ NoSession \notin Sessions
    /\ MaxTrackedClients \in Nat

VARIABLES
    process,            \* each game: not started, running or exited
    counted,            \* pids with an entry in g_client_sessions
    client,             \* m_client_info.process_id of each session
    object,             \* whether the session's shim object is there
    framework,          \* sessions whose service the framework still refers to
    open,               \* sessions whose forward service is open
    registered,         \* m_registered
    ownsProxy,          \* m_proxy_registration_owner
    lent,               \* sessions through which real bsd got the proxy memory
    parked,             \* g_parked_forward_services
    registeredPid,      \* g_splatoon2_registered_pid
    registrationOwner,  \* g_splatoon2_registration_owner
    tmemReady,          \* g_splatoon2_proxy_tmem_ready
    forwarding,         \* the session whose RegisterClient waits for real bsd
    sweep               \* where CleanupAbandonedServices is

processVars  == <<process, counted>>
sessionVars  == <<client, object, registered, ownsProxy, lent>>
serviceVars  == <<framework, open, parked>>
registration == <<registeredPid, registrationOwner, tmemReady>>
vars == <<processVars, sessionVars, serviceVars, registration, forwarding, sweep>>

Running(p) == process[p] = "running"
SessionsOf(p) == {s \in Sessions : client[s] = p}

NoSweep == [at |-> "idle", pids |-> {}, pid |-> NoPid]

Init ==
    /\ process = [p \in Pids |-> "new"]
    /\ counted = {}
    /\ client = [s \in Sessions |-> NoPid]
    /\ object = {} /\ registered = {} /\ ownsProxy = {} /\ lent = {}
    /\ framework = {} /\ open = {} /\ parked = {}
    /\ registeredPid = NoPid /\ registrationOwner = NoSession /\ tmemReady = FALSE
    /\ forwarding = NoSession
    /\ sweep = NoSweep

-----------------------------------------------------------------------------
(* Services.                                                               *)

(* shared_ptr::use_count of the forward service of s. *)
UseCount(s) == Cardinality({x \in {"object"}    : s \in object}
                      \cup {x \in {"framework"} : s \in framework}
                      \cup {x \in {"parked"}    : s \in parked}
                      \cup {x \in {"owner"}     : s = registrationOwner})

(* Parked services that ReleaseRetiredService may close: no one else has   *)
(* a reference to them.                                                    *)
Releasable(p) == {s \in parked \cap SessionsOf(p) : UseCount(s) <= 1}

(* The process list may be unavailable or truncated, and then proves       *)
(* nothing (ProcessListConfirmsExit).                                      *)
MayConfirmExit(p) == p \in Pids /\ process[p] = "exited"

Idle == forwarding = NoSession

-----------------------------------------------------------------------------
(* Processes and sessions.                                                 *)

Launch(p) ==
    /\ process[p] = "new"
    /\ process' = [process EXCEPT ![p] = "running"]
    /\ UNCHANGED <<counted, sessionVars, serviceVars, registration, forwarding, sweep>>

Exit(p) ==
    /\ Running(p)
    /\ process' = [process EXCEPT ![p] = "exited"]
    /\ UNCHANGED <<counted, sessionVars, serviceVars, registration, forwarding, sweep>>

(* CountClientSession: the process is new, and there is an entry for it.   *)
(* Later sessions only add to the entry's number.                          *)
CountClientSession(p) ==
    /\ p \notin counted
    /\ Cardinality(counted) < MaxTrackedClients
    /\ counted' = counted \cup {p}

(* ShouldMitm says no to the first session of a process, and to all of     *)
(* them if the table is full...                                            *)
ShouldMitmDummy(p) ==
    /\ Running(p)
    /\ CountClientSession(p)
    /\ UNCHANGED <<process, sessionVars, serviceVars, registration, forwarding, sweep>>

(* ...and yes to the later ones: the session is accepted, if sm can open   *)
(* the forward session (MitmServerManager::OnNeedsToAccept).               *)
ShouldMitmAccept(p, s) ==
    /\ Running(p)
    /\ p \in counted
    /\ client[s] = NoPid
    /\ client' = [client EXCEPT ![s] = p]
    /\ object' = object \cup {s}
    /\ framework' = framework \cup {s}
    /\ open' = open \cup {s}
    /\ UNCHANGED <<processVars, registered, ownsProxy, lent, parked, registration,
                   forwarding, sweep>>

-----------------------------------------------------------------------------
(* RegisterClient and RegisterClientShared.                                *)

(* The game's own transfer memory goes to real bsd: another title, or a    *)
(* configuration the proxy memory cannot serve.  If real bsd refuses,      *)
(* nothing changes.                                                        *)
RegisterPlain(s) ==
    /\ Idle /\ s \in object
    /\ registered' = registered \cup {s}
    /\ UNCHANGED <<processVars, client, object, ownsProxy, lent, serviceVars,
                   registration, forwarding, sweep>>

(* Command 33 brings no transfer memory, and never meets the proxy. *)
RegisterClientShared(s) ==
    /\ Idle /\ s \in object
    /\ registered' = registered \cup {s}
    /\ UNCHANGED <<processVars, client, object, ownsProxy, lent, serviceVars,
                   registration, forwarding, sweep>>

(* The process already has the proxy memory: real bsd is not told, and the *)
(* session counts as unregistered.                                         *)
Reuses(s) == client[s] \in Proxied /\ registeredPid = client[s]

(* Mutant of OwnerRetired: an exited owner is taken to be done. *)
OwnerRetiredAnyway == registeredPid = NoPid \/ MayConfirmExit(registeredPid)

(* The previous owner's process has exited and no call of it is under way. *)
OwnerRetired ==
    \/ registeredPid = NoPid
    \/ MayConfirmExit(registeredPid) /\ UseCount(registrationOwner) <= 1

(* Mutant of Retired: the process stays on record. *)
RetiredHalf ==
    /\ open' = open \ {registrationOwner}
    /\ registrationOwner' = NoSession
    /\ UNCHANGED registeredPid

(* ReleaseRetiredService on the registration's owner. *)
Retired ==
    /\ open' = open \ {registrationOwner}
    /\ registrationOwner' = NoSession
    /\ registeredPid' = NoPid

(* A previous owner is retired, then real bsd is asked.  ResultBusy        *)
(* otherwise, which changes nothing.                                       *)
RegisterProxy(s) ==
    /\ Idle /\ s \in object
    /\ client[s] \in Proxied /\ ~Reuses(s)
    /\ OwnerRetired
    /\ Retired
    /\ forwarding' = s
    /\ UNCHANGED <<processVars, sessionVars, framework, parked, tmemReady, sweep>>

(* Real bsd has the memory: the service is retained from now on. *)
ProxyRegistered ==
    LET s == forwarding IN
    /\ ~Idle
    /\ forwarding' = NoSession
    /\ registered' = registered \cup {s}
    /\ ownsProxy' = ownsProxy \cup {s}
    /\ lent' = lent \cup {s}
    /\ registeredPid' = client[s]
    /\ registrationOwner' = s
    /\ tmemReady' = TRUE
    /\ UNCHANGED <<processVars, client, object, serviceVars, sweep>>

(* Real bsd refuses. *)
ProxyFails ==
    /\ ~Idle
    /\ forwarding' = NoSession
    /\ tmemReady' = TRUE
    /\ UNCHANGED <<processVars, sessionVars, serviceVars, registeredPid,
                   registrationOwner, sweep>>

(* EnsureSplatoon2ProxyTmem cannot create the memory, which it does once:  *)
(* the game's own is used, and real bsd accepts or refuses it.             *)
ProxyUnavailable ==
    /\ ~Idle /\ ~tmemReady
    /\ forwarding' = NoSession
    /\ registered' \in {registered, registered \cup {forwarding}}
    /\ UNCHANGED <<processVars, client, object, ownsProxy, lent, serviceVars,
                   registration, sweep>>

-----------------------------------------------------------------------------
(* The end of sessions.                                                    *)

(* Mutant of Parks: a session is closed unless its process has exited. *)
ParksExited(s) == process[client[s]] = "exited"

(* ~BsdShim keeps the service of a process that has exited (if the process *)
(* list says so), and that of a session that was never registered.         *)
Parks(s) == s \notin registered \/ MayConfirmExit(client[s])

(* ~BsdShim, a session that does not own the registration.  The last       *)
(* reference closes the service.                                           *)
Destroy(s) ==
    /\ Idle /\ s \in object
    /\ ~(s \in ownsProxy /\ registeredPid = client[s])
    /\ object' = object \ {s}
    /\ \/ /\ Parks(s)
          /\ parked' = parked \cup {s}
          /\ UNCHANGED open
       \/ /\ ~Parks(s) \/ s \in registered
          /\ open' = IF UseCount(s) = 1 THEN open \ {s} ELSE open
          /\ UNCHANGED parked
    /\ UNCHANGED <<processVars, client, registered, ownsProxy, lent, framework,
                   registration, forwarding, sweep>>

(* ~BsdShim, the owner: the registration keeps its reference. *)
DestroyOwner(s) ==
    /\ Idle /\ s \in object
    /\ s \in ownsProxy /\ registeredPid = client[s]
    /\ object' = object \ {s}
    /\ open' = IF UseCount(s) = 1 THEN open \ {s} ELSE open
    /\ UNCHANGED <<processVars, client, registered, ownsProxy, lent, framework, parked,
                   registration, forwarding, sweep>>

(* The framework drops its reference after the object is gone. *)
FrameworkReleases(s) ==
    /\ s \in framework \ object
    /\ framework' = framework \ {s}
    /\ open' = IF UseCount(s) = 1 THEN open \ {s} ELSE open
    /\ UNCHANGED <<processVars, sessionVars, parked, registration, forwarding, sweep>>

(* ShutdownAllSockets for both directions, successful: the sessions the    *)
(* game has already given up are closed, those in use are not.             *)
ShutdownAllSockets(s) ==
    LET released == Releasable(client[s]) IN
    /\ Idle /\ s \in object
    /\ parked' = parked \ released
    /\ open' = open \ released
    /\ UNCHANGED <<processVars, sessionVars, framework, registration, forwarding, sweep>>

-----------------------------------------------------------------------------
(* CleanupAbandonedServices on the node thread.                            *)

(* Mutant of Candidates: only parked services are looked at. *)
CandidatesParked == {client[s] : s \in parked}

Candidates == {client[s] : s \in parked} \cup counted \cup ({registeredPid} \ {NoPid})

(* The candidates are noted, under three locks one after the other, unless *)
(* RegisterClient has that of the registration...                          *)
SweepNotes ==
    /\ sweep.at = "idle" /\ Idle
    /\ Candidates # {}
    /\ sweep' = [at |-> "query", pids |-> Candidates, pid |-> NoPid]
    /\ UNCHANGED <<processVars, sessionVars, serviceVars, registration, forwarding>>

(* Mutant of Gone: what is not known to run is taken for dead. *)
GoneUnlessKnown == Pids \ {p \in sweep.pids : Running(p)}

Gone == {p \in sweep.pids : MayConfirmExit(p)}

(* ...before the kernel is asked which processes there are. *)
SweepQueries ==
    /\ sweep.at = "query"
    /\ sweep' = [at |-> "next", pids |-> Gone, pid |-> NoPid]
    /\ UNCHANGED <<processVars, sessionVars, serviceVars, registration, forwarding>>

SweepQueryFails ==
    /\ sweep.at = "query"
    /\ sweep' = NoSweep
    /\ UNCHANGED <<processVars, sessionVars, serviceVars, registration, forwarding>>

SweepTakes(p) ==
    /\ sweep.at = "next" /\ p \in sweep.pids
    /\ sweep' = [at |-> "parked", pids |-> sweep.pids \ {p}, pid |-> p]
    /\ UNCHANGED <<processVars, sessionVars, serviceVars, registration, forwarding>>

SweepDone ==
    /\ sweep.at = "next" /\ sweep.pids = {}
    /\ sweep' = NoSweep
    /\ UNCHANGED <<processVars, sessionVars, serviceVars, registration, forwarding>>

SweepParked ==
    LET released == Releasable(sweep.pid) IN
    /\ sweep.at = "parked"
    /\ sweep' = [sweep EXCEPT !.at = "registration"]
    /\ parked' = parked \ released
    /\ open' = open \ released
    /\ UNCHANGED <<processVars, sessionVars, framework, registration, forwarding>>

(* The registration is retired only if its lock is free and nobody else    *)
(* refers to its service; otherwise the counter stays for the next pass.   *)
SweepRegistration ==
    /\ sweep.at = "registration"
    /\ \/ /\ Idle /\ registeredPid # sweep.pid
          /\ sweep' = [sweep EXCEPT !.at = "count"]
          /\ UNCHANGED <<open, registration>>
       \/ /\ Idle /\ registeredPid = sweep.pid /\ UseCount(registrationOwner) <= 1
          /\ sweep' = [sweep EXCEPT !.at = "count"]
          /\ Retired /\ UNCHANGED tmemReady
       \/ /\ ~Idle \/ (registeredPid = sweep.pid /\ UseCount(registrationOwner) > 1)
          /\ sweep' = [sweep EXCEPT !.at = "next"]
          /\ UNCHANGED <<open, registration>>
    /\ UNCHANGED <<processVars, sessionVars, framework, parked, forwarding>>

SweepCount ==
    /\ sweep.at = "count"
    /\ sweep' = [sweep EXCEPT !.at = "next"]
    /\ counted' = counted \ {sweep.pid}
    /\ UNCHANGED <<process, sessionVars, serviceVars, registration, forwarding>>

SweepStep ==
    \/ SweepNotes \/ SweepQueries \/ SweepQueryFails \/ SweepDone
    \/ SweepParked \/ SweepRegistration \/ SweepCount
    \/ \E p \in Pids : SweepTakes(p)

-----------------------------------------------------------------------------
ProcessStep ==
    \E p \in Pids : Launch(p) \/ Exit(p) \/ ShouldMitmDummy(p)
                      \/ \E s \in Sessions : ShouldMitmAccept(p, s)

ServerStep ==
    \/ ProxyRegistered \/ ProxyFails \/ ProxyUnavailable
    \/ \E s \in Sessions : RegisterPlain(s) \/ RegisterClientShared(s)
                             \/ RegisterProxy(s) \/ Destroy(s)
                             \/ DestroyOwner(s) \/ FrameworkReleases(s)
                             \/ ShutdownAllSockets(s)

Next == ProcessStep \/ ServerStep \/ SweepStep

(* The framework destroys the objects of a process that has exited and     *)
(* gives up its references, real bsd answers, the clean-up comes back      *)
(* every second, and it does not find the process list unreadable for ever.*)
DestroyExited(s) ==
    /\ client[s] \in Pids
    /\ ~Running(client[s])
    /\ Destroy(s) \/ DestroyOwner(s)

Fairness ==
    /\ WF_vars(ProxyRegistered \/ ProxyFails \/ ProxyUnavailable)
    /\ \A s \in Sessions : WF_vars(DestroyExited(s)) /\ WF_vars(FrameworkReleases(s))
    /\ WF_vars(SweepStep)
    /\ SF_vars(SweepQueries)

Spec == Init /\ [][Next]_vars /\ Fairness

-----------------------------------------------------------------------------
(* Properties.                                                             *)

(* The state has its type; a registration is on record with its owner or   *)
(* not at all; and a service someone refers to is open.                    *)
TypeOK ==
    /\ process \in [Pids -> {"new", "running", "exited"}]
    /\ counted \subseteq Pids
    /\ client \in [Sessions -> Pids \cup {NoPid}]
    /\ object \subseteq Sessions /\ framework \subseteq Sessions /\ open \subseteq Sessions
    /\ registered \subseteq Sessions /\ ownsProxy \subseteq Sessions
    /\ lent \subseteq Sessions /\ parked \subseteq Sessions
    /\ registeredPid \in Proxied \cup {NoPid}
    /\ tmemReady \in BOOLEAN
    /\ registrationOwner \in Sessions \cup {NoSession}
    /\ forwarding \in Sessions \cup {NoSession}
    /\ sweep \in [at : {"idle", "query", "next", "parked", "registration", "count"},
                  pids : SUBSET Pids, pid : Pids \cup {NoPid}]
    /\ registeredPid = NoPid <=> registrationOwner = NoSession
    /\ \A s \in Sessions : s \in open <=> UseCount(s) > 0

(* "The backing buffer is global: never lend it to two live BSD            *)
(* registrations" (RegisterClient): of the sessions real bsd got the proxy *)
(* memory through, at most one can still be used by anybody, a call of an  *)
(* exited game that is under way included; and none while another one is   *)
(* being registered.                                                       *)
InUse == {s \in lent : s \in open \/ UseCount(s) > 0}

LentOnce ==
    /\ \A s, t \in InUse : s = t
    /\ forwarding # NoSession => InUse = {}

(* As long as a game runs, neither the clean-up nor another game's         *)
(* RegisterClient takes its registration or its session counter: a process *)
(* list older than the game must not count it as dead, and its next        *)
(* session must not be taken for the first one again.                      *)
LiveKeepTheirs ==
    [][\A p \in Pids : Running(p) =>
          /\ registeredPid = p => registeredPid' = p
          /\ p \in counted => p \in counted']_vars

(* "Closing such a session freezes the system": the forward service of a   *)
(* session that was never registered is not closed while its game runs,    *)
(* unless the game itself shuts all sockets down.                          *)
UnregisteredKept ==
    [][\A s \in open \ registered :
          Running(client[s]) /\ s \notin open' =>
              \E t \in SessionsOf(client[s]) : ShutdownAllSockets(t)]_vars

(* What an exited game held is given back in the end and stays so: its     *)
(* services are closed, its counter is free, and the proxy memory can be   *)
(* lent to the next game, whatever call of it was under way.  The clean-up *)
(* only tries the registration's lock, so this is for games that do not go *)
(* on calling RegisterClient for ever.                                     *)
GivenBack(p) == p \notin counted /\ registeredPid # p /\ SessionsOf(p) \cap open = {}

ExitReleases ==
    <>[]Idle => \A p \in Pids : <>[](process[p] = "exited" => GivenBack(p))
=============================================================================
