------------------------------- MODULE Uplink -------------------------------
(***************************************************************************)
(* What happens below the virtual network: the two UDP sockets ZeroTier    *)
(* talks through (the wire socket and the port-mapped one), how the node   *)
(* thread replaces a dead one, the worker that asks the router for a port  *)
(* mapping, and the handshake by which the psc thread makes all of it let  *)
(* go before the console sleeps.  zt_port.cpp, nat_mapper.cpp, main.cpp.   *)
(*                                                                         *)
(* Three threads interleave: the node thread (RunLoop), the NAT worker     *)
(* (nat_mapper.cpp's Main) and the psc thread (PscThreadMain).  Time is    *)
(* abstracted to choice: a timeout, a due retry or an expired lease may    *)
(* come at any moment.  Generations of the mapping request are abstracted  *)
(* to "cur" (equal to desired) and "old" (an earlier one).                 *)
(***************************************************************************)
EXTENDS Naturals

CONSTANTS
    FailStreakMax,          \* failed sends in a row that recycle the socket (zt_port.cpp: 8)
    Modes                   \* what config.ini may enable: sets of "nat" and "psc"

ASSUME UplinkAssumption ==
    /\ FailStreakMax \in Nat \ {0}
    /\ Modes \subseteq SUBSET {"nat", "psc"}

VARIABLES
    mode,                   \* port_mapping (m_natEnabled) and psc_enable, read at start
    node,                   \* where the node thread is in RunLoop and HandleSleep
    psc,                    \* where the psc thread is in PscThreadMain
    power,                  \* what was last acknowledged: awake, or asleep and how
    late,                   \* history: since the last wake-up the node thread passed
                            \* g_resumed between a request's two Clear() calls, with
                            \* the signal of an earlier request given after the first
    quiesced,               \* g_quiesced
    resumed,                \* g_resumed
    sleepRequested,         \* g_sleepRequested
    net,                    \* the console has a working network (environment)
    wireFd,                 \* m_wireFd
    wireFailStreak,         \* m_wireFailStreak, saturating
    wireHup,                \* m_wireHup
    wireRecovering,         \* m_wireRecovering
    wireRecoveryConfirmed,  \* m_wireRecoveryConfirmed
    wireReachable,          \* m_wireReachable
    mappedFd,               \* m_mappedFd
    natAddress,             \* m_natAddress/m_natPublicPort: whose mapping is announced
    desired,                \* desired: is a mapping wanted (its port is not 0)
    worker,                 \* where the NAT worker is
    active,                 \* the generation the worker works for
    idle,                   \* idle
    endpoint,               \* endpoint with its generation and validity
    natLate                 \* QuiesceNatMapper gave up waiting, in this HandleSleep

pscVars     == <<psc, power, late>>
eventVars   == <<quiesced, resumed, sleepRequested>>
healthVars  == <<wireFailStreak, wireHup, wireRecovering, wireRecoveryConfirmed>>
wireVars    == <<wireFd, wireReachable, healthVars>>
requestVars == <<desired, active, endpoint>>
mappedVars  == <<mappedFd, natAddress>>
vars == <<mode, node, pscVars, eventVars, net, wireVars, mappedVars, requestVars,
          worker, idle, natLate>>

Sockets     == {"closed", "live", "dead"}
Generations == {"cur", "old"}

NoMapping == [tag |-> "old", made |-> "none"]

Init ==
    /\ mode \in Modes
    /\ node = "top" /\ psc = "idle" /\ power = "awake" /\ late = FALSE
    /\ quiesced = FALSE /\ resumed = FALSE /\ sleepRequested = FALSE
    /\ net \in BOOLEAN
    /\ wireFd = "live" /\ wireReachable = FALSE
    /\ wireFailStreak = 0 /\ wireHup = FALSE
    /\ wireRecovering = FALSE /\ wireRecoveryConfirmed = FALSE
    /\ mappedFd = "closed" /\ natAddress = "none"
    /\ desired = FALSE /\ active = "old" /\ endpoint = NoMapping
    /\ worker = "sleep" /\ idle = TRUE /\ natLate = FALSE

-----------------------------------------------------------------------------
(* The request the node thread makes of the worker.                        *)

(* ConfigureNatMapper: a changed port starts a new generation, so whatever *)
(* the worker does or has published belongs to an old one.                 *)
ConfigureNatMapper(on) ==
    /\ desired' = on
    /\ IF on = desired
       THEN UNCHANGED <<active, endpoint>>
       ELSE /\ active' = "old"
            /\ endpoint' = IF endpoint = NoMapping THEN NoMapping
                            ELSE [tag |-> "old", made |-> "old"]

(* closeNatWire: withdraw the request, close the mapped socket, take back  *)
(* the announced address.                                                  *)
closeNatWire ==
    /\ ConfigureNatMapper(FALSE)
    /\ mappedFd' = "closed"
    /\ natAddress' = "none"

(* GetNatEndpoint: an answer for another generation is no answer, nor is   *)
(* one whose lease is over (NoMapping).                                    *)
GetNatEndpoint ==
    IF endpoint.tag = "cur" THEN endpoint.made ELSE "none"

-----------------------------------------------------------------------------
(* The psc thread.  RequestQuiesce is three steps, SignalResume two: the   *)
(* node thread may run between any of them.                                *)

(* Mutant of PscSleep: the signal of an earlier sleep is left standing. *)
PscSleepKeepsQuiesced ==
    /\ "psc" \in mode /\ psc = "idle"
    /\ psc' = "clearResumed"
    /\ UNCHANGED <<mode, node, power, late, eventVars, net, wireVars, mappedVars,
                   requestVars, worker, idle, natLate>>

(* A sleep notification arrives and g_quiesced is cleared. *)
PscSleep ==
    /\ "psc" \in mode /\ psc = "idle"
    /\ psc' = "clearResumed"
    /\ quiesced' = FALSE
    /\ UNCHANGED <<mode, node, power, late, resumed, sleepRequested, net, wireVars, mappedVars,
                   requestVars, worker, idle, natLate>>

PscClearResumed ==
    /\ psc = "clearResumed"
    /\ psc' = "raise"
    /\ resumed' = FALSE
    /\ UNCHANGED <<mode, node, power, late, quiesced, sleepRequested, net, wireVars,
                   mappedVars, requestVars, worker, idle, natLate>>

PscRaise ==
    /\ psc = "raise"
    /\ psc' = "waiting"
    /\ sleepRequested' = TRUE
    /\ UNCHANGED <<mode, node, power, late, quiesced, resumed, net, wireVars, mappedVars,
                   requestVars, worker, idle, natLate>>

(* WaitQuiesced returns and the transition is acknowledged either way: on  *)
(* the node thread's signal, or after three seconds without it.            *)
PscAcknowledges ==
    /\ psc = "waiting"
    /\ psc' = "idle"
    /\ power' = IF quiesced THEN "confirmed" ELSE "unconfirmed"
    /\ UNCHANGED <<mode, node, late, eventVars, net, wireVars, mappedVars, requestVars,
                   worker, idle, natLate>>

(* A wake notification: the flag is lowered first... *)
PscWake ==
    /\ "psc" \in mode /\ psc = "idle"
    /\ psc' = "signalResumed"
    /\ sleepRequested' = FALSE
    /\ power' = "awake"
    /\ late' = FALSE
    /\ UNCHANGED <<mode, node, quiesced, resumed, net, wireVars, mappedVars,
                   requestVars, worker, idle, natLate>>

(* Mutant of PscSignalResumed: only a thread already waiting notices. *)
PscSignalResumedPulse ==
    /\ psc = "signalResumed"
    /\ psc' = "idle"
    /\ node' = IF node = "parked" THEN "reopen" ELSE node
    /\ UNCHANGED <<mode, power, late, eventVars, net, wireVars, mappedVars,
                   requestVars, worker, idle, natLate>>

(* ...then g_resumed is signalled.  A thread already waiting on the event  *)
(* is released for good, whatever clears the event afterwards.             *)
PscSignalResumed ==
    /\ psc = "signalResumed"
    /\ psc' = "idle"
    /\ resumed' = TRUE
    /\ node' = IF node = "parked" THEN "reopen" ELSE node
    /\ UNCHANGED <<mode, power, late, quiesced, sleepRequested, net, wireVars, mappedVars,
                   requestVars, worker, idle, natLate>>

PscNext == PscSleep \/ PscClearResumed \/ PscRaise \/ PscAcknowledges
             \/ PscWake \/ PscSignalResumed

-----------------------------------------------------------------------------
(* The node thread: the sleep path.                                        *)

(* RunLoop looks at the flag once per iteration, before any other work. *)
LoopTop ==
    /\ node = "top" /\ ~sleepRequested
    /\ node' = "wire"
    /\ UNCHANGED <<mode, pscVars, eventVars, net, wireVars, mappedVars, requestVars,
                   worker, idle, natLate>>

(* HandleSleep begins with QuiesceNatMapper, which withdraws the request... *)
QuiesceRequest ==
    /\ node = "top" /\ sleepRequested
    /\ node' = "natWait"
    /\ ConfigureNatMapper(FALSE)
    /\ UNCHANGED <<mode, pscVars, eventVars, net, wireVars, mappedVars, worker, idle, natLate>>

(* ...and waits for the worker to be idle, for at most two seconds. *)
QuiesceWait ==
    /\ node = "natWait"
    /\ node' = "close"
    /\ natLate' = ~idle
    /\ UNCHANGED <<mode, pscVars, eventVars, net, wireVars, mappedVars, requestVars, worker, idle>>

(* HandleSleep closes both sockets and signals g_quiesced.  It leaves the  *)
(* failure streak, the hang-up flag and the recovery state as they were.   *)
CloseSockets ==
    /\ node = "close"
    /\ node' = "wait"
    /\ closeNatWire
    /\ wireReachable' = (wireReachable /\ wireFd = "closed")
    /\ wireFd' = "closed"
    /\ quiesced' = TRUE
    /\ UNCHANGED <<mode, pscVars, resumed, sleepRequested, net, healthVars, worker, idle, natLate>>

(* g_resumed.Wait(): falls through when the event is already set.  That is *)
(* so between the two clears of a request that finds the node thread still *)
(* on its way through HandleSleep for an earlier one.                      *)
WaitResumed ==
    /\ node = "wait"
    /\ node' = IF resumed THEN "reopen" ELSE "parked"
    /\ late' = (late \/ (resumed /\ quiesced /\ psc = "clearResumed"))
    /\ UNCHANGED <<mode, psc, power, eventVars, net, wireVars, mappedVars, requestVars,
                   worker, idle, natLate>>

(* One of up to 31 attempts succeeds; what QuiesceNatMapper returned is a   *)
(* value of this run of HandleSleep alone...                               *)
ReopenSucceeds ==
    /\ node = "reopen"
    /\ node' = "wire"
    /\ wireFd' = "live"
    /\ natLate' = FALSE
    /\ UNCHANGED <<mode, pscVars, eventVars, net, wireReachable, healthVars, mappedVars,
                   requestVars, worker, idle>>

(* ...or HandleSleep returns without a socket. *)
ReopenGivesUp ==
    /\ node = "reopen"
    /\ node' = "wire"
    /\ natLate' = FALSE
    /\ UNCHANGED <<mode, pscVars, eventVars, net, wireVars, mappedVars, requestVars,
                   worker, idle>>

-----------------------------------------------------------------------------
(* The node thread: maintainWireSocket.  A send confirmed since the last   *)
(* round ends a recovery first, in every branch.                           *)

StreakNow     == IF wireRecoveryConfirmed THEN 0 ELSE wireFailStreak
HupNow        == wireHup /\ ~wireRecoveryConfirmed
RecoveringNow == wireRecovering /\ ~wireRecoveryConfirmed

(* Mutant of WireFailed: a hung-up socket is not taken for a dead one. *)
WireFailedNoHup == StreakNow >= FailStreakMax

WireFailed == StreakNow >= FailStreakMax \/ HupNow

(* Mutant of WireGone: readiness outlives the socket. *)
WireGoneStillReady == wireFd' = "closed" /\ UNCHANGED wireReachable

WireGone == wireFd' = "closed" /\ wireReachable' = FALSE

Settle ==
    /\ wireFailStreak' = StreakNow
    /\ wireHup' = HupNow
    /\ wireRecovering' = RecoveringNow
    /\ wireRecoveryConfirmed' = FALSE

(* Nothing to do: the socket has not failed, or the closed one's retry is  *)
(* not due, or socket() or bind() failed and a later retry was set.        *)
WireKept ==
    /\ node = "wire"
    /\ node' = "nat"
    /\ wireFd # "closed" => ~WireFailed
    /\ Settle
    /\ UNCHANGED <<mode, pscVars, eventVars, net, wireFd, wireReachable, mappedVars,
                   requestVars, worker, idle, natLate>>

(* A probe socket: the recovery goes on until a send on it succeeds. *)
WireReopened ==
    /\ node = "wire"
    /\ node' = "nat"
    /\ wireFd = "closed"
    /\ wireFd' = "live"
    /\ wireFailStreak' = 0
    /\ wireHup' = FALSE
    /\ wireRecovering' = RecoveringNow
    /\ wireRecoveryConfirmed' = FALSE
    /\ UNCHANGED <<mode, pscVars, eventVars, net, wireReachable, mappedVars, requestVars,
                   worker, idle, natLate>>

WireRecycled ==
    /\ node = "wire"
    /\ node' = "nat"
    /\ wireFd # "closed"
    /\ WireFailed
    /\ closeNatWire
    /\ WireGone
    /\ wireFailStreak' = StreakNow
    /\ wireHup' = HupNow
    /\ wireRecovering' = TRUE
    /\ wireRecoveryConfirmed' = FALSE
    /\ UNCHANGED <<mode, pscVars, eventVars, net, worker, idle, natLate>>

-----------------------------------------------------------------------------
(* The node thread: maintainNatWire.                                       *)

NatDisabled ==
    /\ node = "nat" /\ "nat" \notin mode
    /\ node' = "traffic"
    /\ UNCHANGED <<mode, pscVars, eventVars, net, wireVars, mappedVars, requestVars,
                   worker, idle, natLate>>

NatWithoutWire ==
    /\ node = "nat" /\ "nat" \in mode
    /\ node' = "traffic"
    /\ wireFd = "closed"
    /\ closeNatWire
    /\ UNCHANGED <<mode, pscVars, eventVars, net, wireVars, worker, idle, natLate>>

(* The mapped socket opens only once something was heard or sent. *)
NatOpens ==
    /\ node = "nat" /\ "nat" \in mode
    /\ node' = "announce"
    /\ wireFd # "closed" /\ mappedFd = "closed" /\ wireReachable
    /\ mappedFd' = "live"
    /\ ConfigureNatMapper(TRUE)
    /\ UNCHANGED <<mode, pscVars, eventVars, net, wireVars, natAddress, worker, idle, natLate>>

(* It is open, or nothing was heard yet, or the retry is not due, or the   *)
(* port could not be bound.                                                *)
NatKept ==
    /\ node = "nat" /\ "nat" \in mode
    /\ node' = "announce"
    /\ wireFd # "closed"
    /\ UNCHANGED <<mode, pscVars, eventVars, net, wireVars, mappedVars, requestVars,
                   worker, idle, natLate>>

(* The address announced to ZeroTier follows GetNatEndpoint, but only for  *)
(* as long as the mapped socket is open; a hung-up one is given up.        *)
Announce ==
    /\ node = "announce"
    /\ node' = "traffic"
    /\ \/ /\ natAddress' = IF mappedFd # "closed" THEN GetNatEndpoint ELSE "none"
          /\ UNCHANGED <<mappedFd, requestVars>>
       \/ mappedFd = "dead" /\ closeNatWire
    /\ UNCHANGED <<mode, pscVars, eventVars, net, wireVars, worker, idle, natLate>>

-----------------------------------------------------------------------------
(* The node thread: datagrams.  ZeroTier sends from the packet and timer   *)
(* calls of every part of the loop after the sleep check.                  *)

Talking == {"wire", "announce", "traffic"}

Socket(mapped) == IF mapped THEN mappedFd ELSE wireFd

Works(fd) == net /\ fd = "live"

(* cbWireSend, all of the datagram sent.  A send on the mapped socket      *)
(* counts as much as one on the wire socket.                               *)
SendSucceeds(mapped) ==
    /\ node \in Talking
    /\ wireFd # "closed" /\ Works(Socket(mapped))
    /\ wireFailStreak' = 0
    /\ wireReachable' = TRUE
    /\ wireRecoveryConfirmed' = (wireRecoveryConfirmed \/ wireRecovering)
    /\ UNCHANGED <<mode, node, pscVars, eventVars, net, wireFd, wireHup, wireRecovering,
                   mappedVars, requestVars, worker, idle, natLate>>

(* cbWireSend, sendto() failed: only the wire socket's failures count. *)
SendFails(mapped) ==
    /\ node \in Talking
    /\ wireFd # "closed" /\ Socket(mapped) # "closed" /\ ~Works(Socket(mapped))
    /\ wireFailStreak' = IF mapped \/ wireFailStreak = FailStreakMax
                         THEN wireFailStreak ELSE wireFailStreak + 1
    /\ wireReachable' = FALSE
    /\ UNCHANGED <<mode, node, pscVars, eventVars, net, wireFd, wireHup, wireRecovering,
                   wireRecoveryConfirmed, mappedVars, requestVars, worker, idle, natLate>>

(* recvfrom() on either socket. *)
Receive(mapped) ==
    /\ node = IF mapped THEN "announce" ELSE "traffic"
    /\ Works(Socket(mapped))
    /\ wireReachable' = TRUE
    /\ wireRecoveryConfirmed' = (wireRecoveryConfirmed \/ wireRecovering)
    /\ UNCHANGED <<mode, node, pscVars, eventVars, net, wireFd, wireFailStreak, wireHup,
                   wireRecovering, mappedVars, requestVars, worker, idle, natLate>>

(* poll() reports the wire socket hung up. *)
PollHup ==
    /\ node = "traffic"
    /\ wireFd = "dead"
    /\ wireReachable' = FALSE
    /\ wireHup' = TRUE
    /\ UNCHANGED <<mode, node, pscVars, eventVars, net, wireFd, wireFailStreak, wireRecovering,
                   wireRecoveryConfirmed, mappedVars, requestVars, worker, idle, natLate>>

(* cbEvent for OFFLINE and DOWN, cbNetworkConfig for DOWN and DESTROY, and  *)
(* switchNetwork: the LAN is not ready until something is sent or heard.   *)
Unreachable ==
    /\ node \in Talking
    /\ wireReachable' = FALSE
    /\ UNCHANGED <<mode, node, pscVars, eventVars, net, wireFd, healthVars, mappedVars,
                   requestVars, worker, idle, natLate>>

TrafficDone ==
    /\ node = "traffic"
    /\ node' = "top"
    /\ UNCHANGED <<mode, pscVars, eventVars, net, wireVars, mappedVars, requestVars,
                   worker, idle, natLate>>

NodeSteps ==
    \/ LoopTop \/ QuiesceRequest \/ QuiesceWait \/ CloseSockets
    \/ WaitResumed \/ ReopenSucceeds \/ ReopenGivesUp
    \/ WireKept \/ WireReopened \/ WireRecycled
    \/ NatDisabled \/ NatWithoutWire \/ NatOpens \/ NatKept \/ Announce \/ TrafficDone

Datagrams ==
    \/ \E mapped \in BOOLEAN :
          SendSucceeds(mapped) \/ SendFails(mapped) \/ Receive(mapped)
    \/ PollHup \/ Unreachable

-----------------------------------------------------------------------------
(* The NAT worker.                                                         *)

workerFrame == <<mode, node, pscVars, eventVars, net, wireVars, mappedVars, desired, natLate>>

(* ztnx_nat_cancelled, apart from the deadline. *)
Withdrawn == active # "cur" \/ sleepRequested

(* Mutant of Publish: the answer is taken for one to the latest request. *)
PublishUntagged(made) ==
    endpoint' = IF made = "none" THEN NoMapping ELSE [tag |-> "cur", made |-> made]

(* Publish: the answer carries the generation it was worked out for. *)
Publish(made) ==
    endpoint' = IF made = "none" THEN NoMapping ELSE [tag |-> active, made |-> made]

(* After its sleep the worker reads the request... *)
WorkerLoads ==
    /\ worker = "sleep"
    /\ desired /\ ~sleepRequested
    /\ worker' = "loaded"
    /\ active' = "cur"
    /\ UNCHANGED <<workerFrame, idle, endpoint>>

(* Mutant of WorkerBusy: idle is not taken back. *)
WorkerBusyUnsaid ==
    /\ worker = "loaded"
    /\ worker' = "busy"
    /\ UNCHANGED <<workerFrame, idle, active, endpoint>>

(* ...says it is no longer idle... *)
WorkerBusy ==
    /\ worker = "loaded"
    /\ worker' = "busy"
    /\ idle' = FALSE
    /\ UNCHANGED <<workerFrame, active, endpoint>>

(* Mutant of WorkerChecks: what was true before is not asked again. *)
WorkerChecksNothing ==
    /\ worker = "busy"
    /\ worker' = "query"
    /\ UNCHANGED <<workerFrame, active, idle, endpoint>>

(* ...and only then looks whether the request still stands. *)
WorkerChecks ==
    /\ worker = "busy"
    /\ worker' = IF Withdrawn THEN "back" ELSE "query"
    /\ UNCHANGED <<workerFrame, active, idle, endpoint>>

(* nifm has no address: nothing is mapped.  The worker sleeps on, not idle. *)
QueryFails ==
    /\ worker = "query"
    /\ worker' = "back"
    /\ Publish("none")
    /\ UNCHANGED <<workerFrame, active, idle>>

(* The round is over: the worker says it is idle and pauses, at the bottom *)
(* of its loop and again at the top.  What active holds is not read again  *)
(* before it is set.                                                       *)
WorkerRests == worker' = "sleep" /\ idle' = TRUE /\ active' = "old"

(* A new address, gateway or generation forgets the previous answer; then  *)
(* the router is asked if that is due and the request still stands.        *)
QuerySucceeds ==
    /\ worker = "query"
    /\ \/ Publish("none")
       \/ endpoint.tag = active /\ UNCHANGED endpoint
    /\ \/ ~Withdrawn /\ worker' = "pmp" /\ UNCHANGED <<idle, active>>
       \/ WorkerRests
    /\ UNCHANGED workerFrame

(* MapPmp fails: UPnP is tried if the request still stands. *)
PmpFails ==
    /\ worker = "pmp"
    /\ ~Withdrawn
    /\ worker' = "upnp"
    /\ UNCHANGED <<workerFrame, active, idle, endpoint>>

(* The router granted a mapping and the request still stands... *)
MapSucceeds ==
    /\ worker \in {"pmp", "upnp"}
    /\ ~Withdrawn
    /\ worker' = "publish"
    /\ UNCHANGED <<workerFrame, active, idle, endpoint>>

(* ...so the answer is published, whatever was withdrawn since. *)
WorkerPublishes ==
    /\ worker = "publish"
    /\ WorkerRests
    /\ Publish(active)
    /\ UNCHANGED workerFrame

(* No mapping, or the request is withdrawn, or the 15 seconds are over: a  *)
(* previous answer stays until its lease ends.                             *)
MapEnds ==
    /\ worker \in {"pmp", "upnp"}
    /\ WorkerRests
    /\ UNCHANGED <<workerFrame, endpoint>>

(* The way back from a round given up: not idle before the loop's top.     *)
WorkerGivesUp ==
    /\ worker = "back"
    /\ WorkerRests
    /\ UNCHANGED <<workerFrame, endpoint>>

WorkerNext ==
    \/ WorkerLoads \/ WorkerBusy \/ WorkerChecks \/ QueryFails \/ QuerySucceeds
    \/ PmpFails \/ MapSucceeds \/ MapEnds \/ WorkerPublishes \/ WorkerGivesUp

-----------------------------------------------------------------------------
(* The environment: the network comes and goes, and takes any of the open  *)
(* sockets with it; a lease ends.                                          *)

MayDie(fd) == IF fd = "live" THEN {"live", "dead"} ELSE {fd}

NetworkDown ==
    /\ net
    /\ net' = FALSE
    /\ wireFd' \in MayDie(wireFd)
    /\ mappedFd' \in MayDie(mappedFd)
    /\ UNCHANGED <<mode, node, pscVars, eventVars, wireReachable, healthVars, natAddress,
                   requestVars, worker, idle, natLate>>

NetworkUp ==
    /\ ~net
    /\ net' = TRUE
    /\ UNCHANGED <<mode, node, pscVars, eventVars, wireVars, mappedVars, requestVars,
                   worker, idle, natLate>>

LeaseEnds ==
    /\ endpoint # NoMapping
    /\ endpoint' = NoMapping
    /\ UNCHANGED <<mode, node, pscVars, eventVars, net, wireVars, mappedVars, desired, active,
                   worker, idle, natLate>>

Environment == NetworkDown \/ NetworkUp \/ LeaseEnds

Next == PscNext \/ NodeSteps \/ Datagrams \/ WorkerNext \/ Environment

(* The threads keep running; a wake-up that began is finished.  What the   *)
(* wire socket's state calls for happens again and again: opening a closed *)
(* one succeeds, a datagram leaves through a live one, poll() reports a    *)
(* dead one.                                                               *)
Fairness ==
    /\ WF_vars(NodeSteps)
    /\ WF_vars(PscClearResumed) /\ WF_vars(PscRaise)
    /\ WF_vars(PscAcknowledges) /\ WF_vars(PscSignalResumed)
    /\ SF_vars(WireReopened \/ SendSucceeds(FALSE) \/ PollHup)

Spec == Init /\ [][Next]_vars /\ Fairness

-----------------------------------------------------------------------------
(* Properties.                                                             *)

(* The state has its type, and a worker that says it is idle is at a place *)
(* where it makes no call to nifm or to the router.                        *)
TypeOK ==
    /\ node \in {"top", "natWait", "close", "wait", "parked", "reopen",
                 "wire", "nat", "announce", "traffic"}
    /\ psc \in {"idle", "clearResumed", "raise", "waiting", "signalResumed"}
    /\ power \in {"awake", "confirmed", "unconfirmed"}
    /\ late \in BOOLEAN /\ quiesced \in BOOLEAN /\ resumed \in BOOLEAN
    /\ sleepRequested \in BOOLEAN /\ net \in BOOLEAN /\ wireHup \in BOOLEAN
    /\ wireRecovering \in BOOLEAN /\ wireRecoveryConfirmed \in BOOLEAN
    /\ wireReachable \in BOOLEAN /\ desired \in BOOLEAN /\ idle \in BOOLEAN
    /\ natLate \in BOOLEAN
    /\ wireFd \in Sockets /\ mappedFd \in Sockets
    /\ wireFailStreak \in 0..FailStreakMax
    /\ natAddress \in {"none"} \cup Generations
    /\ worker \in {"sleep", "loaded", "busy", "query", "pmp", "upnp", "publish", "back"}
    /\ active \in Generations
    /\ endpoint \in [tag : Generations, made : {"none"} \cup Generations]
    /\ idle => worker \in {"sleep", "loaded"}

(* Once psc was told that the node thread let go, both sockets are closed  *)
(* and the node thread stays inside HandleSleep until a wake-up, also if   *)
(* the request found the node thread still busy with an earlier one.  Only *)
(* what happens between psc's two Clear() calls may undo it: the node      *)
(* thread signals for the earlier request and passes g_resumed there.      *)
ConfirmedMeansQuiet ==
    power = "confirmed" /\ ~late =>
        /\ wireFd = "closed" /\ mappedFd = "closed"
        /\ node \in {"wait", "parked"}

(* After QuiesceNatMapper returned true the worker calls neither nifm nor  *)
(* the router until HandleSleep is over, even if it read the request just  *)
(* before it was withdrawn: it says it is busy before it looks again.      *)
RouterLeftAlone ==
    node \in {"close", "wait", "parked", "reopen"} /\ ~natLate =>
        worker \notin {"query", "pmp", "upnp"}

(* maintainNatWire announces to ZeroTier only a mapping that was made for  *)
(* the mapped socket that is open now, although the worker may publish an  *)
(* answer after its request was withdrawn and another one made.            *)
AnnouncedIsOurs ==
    /\ natAddress # "old"
    /\ natAddress = "cur" => mappedFd # "closed"

(* LanTransportReady never says yes while there is no wire socket: games   *)
(* are not told of a LAN that cbWireSend has no way to reach, also not     *)
(* while the console falls asleep or a dead socket is replaced.            *)
ReadyMeansSocket == wireReachable => wireFd # "closed"

(* If the console stays awake, the node thread does not stay parked: no    *)
(* order of the clears and signals of the two events loses the wake-up.    *)
AwakeForGood == <>[](psc = "idle" /\ power = "awake")
WakesUp == AwakeForGood => []<>(node = "top")

(* If the console stays awake and its network stays up, the wire socket is *)
(* in the end a live one and no recovery is under way, whatever died,      *)
(* slept or was half reopened before.                                      *)
Recovers ==
    AwakeForGood /\ <>[]net => <>[](wireFd = "live" /\ ~wireRecovering)
=============================================================================
