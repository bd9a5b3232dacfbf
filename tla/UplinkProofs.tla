---------------------------- MODULE UplinkProofs ----------------------------
(***************************************************************************)
(* Proofs about Uplink for every length of the failure streak and every    *)
(* configuration: its types and its four safety invariants.                *)
(*                                                                         *)
(* None of the four is inductive alone.  Each gets the part of the         *)
(* invariant that says what the other threads know at that moment: what    *)
(* the node thread asked of the worker, for whom the worker works, which   *)
(* events are set while psc asks for sleep.                                *)
(***************************************************************************)
EXTENDS Uplink, TLAPS

(* The flags of TypeOK; the provers reason about them apart from the rest. *)
Flags ==
    /\ late \in BOOLEAN /\ quiesced \in BOOLEAN /\ resumed \in BOOLEAN
    /\ sleepRequested \in BOOLEAN /\ net \in BOOLEAN /\ wireHup \in BOOLEAN
    /\ wireRecovering \in BOOLEAN /\ wireRecoveryConfirmed \in BOOLEAN
    /\ wireReachable \in BOOLEAN /\ desired \in BOOLEAN /\ idle \in BOOLEAN
    /\ natLate \in BOOLEAN

(* The worker works for the current request only while there is one, there *)
(* is one only while the mapped socket is open, and on the way through     *)
(* HandleSleep there is none.  An answer tagged with the current           *)
(* generation was made for it.                                             *)
RequestMatches ==
    /\ active = "cur" => desired
    /\ desired => mappedFd # "closed"
    /\ node \in {"natWait", "close", "wait", "parked", "reopen"} => ~desired
    /\ endpoint.tag = "cur" => endpoint.made = "cur"

(* maintainNatWire gets as far as the announcement only with a wire        *)
(* socket; HandleSleep waits only without either.                          *)
SocketsFollow ==
    /\ node = "announce" => wireFd # "closed"
    /\ node \in {"wait", "parked"} => wireFd = "closed" /\ mappedFd = "closed"

Asking == {"clearResumed", "raise", "waiting"}

(* What the events and flags are while psc asks for sleep: g_resumed is    *)
(* clear before the flag goes up and as long as it is up, the flag is up   *)
(* from the wait to the next wake-up, and a signal given since the request *)
(* came from a node thread that waits for the wake-up, for whichever       *)
(* request it was given.                                                   *)
Handshake ==
    /\ sleepRequested \/ psc = "raise" => ~resumed
    /\ power # "awake" \/ psc = "waiting" => sleepRequested
    /\ psc = "signalResumed" => ~sleepRequested
    /\ psc \in Asking /\ quiesced /\ ~late => node \in {"wait", "parked"}

Inv ==
    /\ TypeOK
    /\ RequestMatches
    /\ SocketsFollow
    /\ Handshake
    /\ ConfirmedMeansQuiet
    /\ RouterLeftAlone
    /\ AnnouncedIsOurs
    /\ ReadyMeansSocket

(***************************************************************************)
(* What each thread leaves alone.                                          *)
(***************************************************************************)

(* The psc thread touches events and flags; of the node thread it only     *)
(* releases one that waits for g_resumed.                                  *)
LEMMA PscFrame ==
    PscNext => /\ UNCHANGED <<mode, net, wireVars, mappedVars, requestVars, worker, idle, natLate>>
               /\ \/ UNCHANGED node
                  \/ node = "parked" /\ node' = "reopen"
BY DEF PscNext, PscSleep, PscClearResumed, PscRaise, PscAcknowledges, PscWake, PscSignalResumed

(* Of the psc thread's state the node thread changes g_quiesced alone, and *)
(* the history of how it passed g_resumed.                                 *)
LEMMA NodeFrame ==
    NodeSteps => /\ UNCHANGED <<mode, psc, power, resumed, sleepRequested, net, worker, idle>>
                 /\ UNCHANGED quiesced \/ CloseSockets
                 /\ UNCHANGED late \/ WaitResumed
BY DEF NodeSteps, pscVars, eventVars, LoopTop, QuiesceRequest, QuiesceWait, CloseSockets, WaitResumed,
       ReopenSucceeds, ReopenGivesUp, WireKept, WireReopened, WireRecycled, NatDisabled,
       NatWithoutWire, NatOpens, NatKept, Announce, TrafficDone

(* A datagram changes what is known of the wire socket, nothing else.      *)
LEMMA DatagramFrame ==
    Datagrams => UNCHANGED <<mode, node, pscVars, eventVars, net, wireFd, mappedVars,
                             requestVars, worker, idle, natLate>>
BY DEF Datagrams, SendSucceeds, SendFails, Receive, PollHup, Unreachable

(* The worker changes its own place and its answer.                        *)
LEMMA WorkerLeaves == WorkerNext => UNCHANGED workerFrame
BY DEF WorkerNext, WorkerLoads, WorkerBusy, WorkerChecks, QueryFails, QuerySucceeds,
       PmpFails, MapSucceeds, MapEnds, WorkerPublishes, WorkerGivesUp, WorkerRests

(* The environment opens no socket and closes none.                        *)
LEMMA EnvironmentFrame ==
    Environment => /\ UNCHANGED <<mode, node, pscVars, eventVars, wireReachable, healthVars,
                                  natAddress, desired, active, worker, idle, natLate>>
                   /\ (wireFd' = "closed") <=> (wireFd = "closed")
                   /\ (mappedFd' = "closed") <=> (mappedFd = "closed")
                   /\ UNCHANGED endpoint \/ endpoint' = NoMapping
BY DEF Environment, NetworkDown, NetworkUp, LeaseEnds, MayDie, wireVars, mappedVars, requestVars

(***************************************************************************)
(* The types.                                                              *)
(***************************************************************************)

(* Every step leaves a truth value in every flag. *)
LEMMA FlagsStep == Flags /\ [Next]_vars => Flags'
<1> SUFFICES ASSUME Flags, [Next]_vars PROVE Flags'
  OBVIOUS
<1> USE DEF Flags
<1>1. CASE PscNext
  <2> USE <1>1 DEF PscNext, PscSleep, PscClearResumed, PscRaise, PscAcknowledges, PscWake,
                   PscSignalResumed, pscVars, eventVars
  <2>1. late' \in BOOLEAN
    BY Zenon
  <2>2. quiesced' \in BOOLEAN
    BY Zenon
  <2>3. resumed' \in BOOLEAN
    BY Zenon
  <2>4. sleepRequested' \in BOOLEAN
    BY Zenon
  <2> QED BY <2>1, <2>2, <2>3, <2>4, PscFrame DEF wireVars, healthVars, requestVars
<1>2. CASE NodeSteps
  <2>1. quiesced' \in BOOLEAN
    BY <1>2, NodeFrame, Zenon DEF CloseSockets
  <2>2. wireHup' \in BOOLEAN
    BY <1>2, Zenon
    DEF NodeSteps, wireVars, healthVars, Settle, HupNow, LoopTop, QuiesceRequest, QuiesceWait,
        CloseSockets, WaitResumed, ReopenSucceeds, ReopenGivesUp, WireKept, WireReopened,
        WireRecycled, NatDisabled, NatWithoutWire, NatOpens, NatKept, Announce, TrafficDone
  <2>3. wireRecovering' \in BOOLEAN
    BY <1>2, Zenon
    DEF NodeSteps, wireVars, healthVars, Settle, RecoveringNow, LoopTop, QuiesceRequest,
        QuiesceWait, CloseSockets, WaitResumed, ReopenSucceeds, ReopenGivesUp, WireKept,
        WireReopened, WireRecycled, NatDisabled, NatWithoutWire, NatOpens, NatKept, Announce,
        TrafficDone
  <2>4. wireRecoveryConfirmed' \in BOOLEAN
    BY <1>2, Zenon
    DEF NodeSteps, wireVars, healthVars, Settle, LoopTop, QuiesceRequest, QuiesceWait,
        CloseSockets, WaitResumed, ReopenSucceeds, ReopenGivesUp, WireKept, WireReopened,
        WireRecycled, NatDisabled, NatWithoutWire, NatOpens, NatKept, Announce, TrafficDone
  <2>5. wireReachable' \in BOOLEAN
    BY <1>2, Zenon
    DEF NodeSteps, wireVars, WireGone, LoopTop, QuiesceRequest, QuiesceWait, CloseSockets,
        WaitResumed, ReopenSucceeds, ReopenGivesUp, WireKept, WireReopened, WireRecycled,
        NatDisabled, NatWithoutWire, NatOpens, NatKept, Announce, TrafficDone
  <2>6. desired' \in BOOLEAN
    BY <1>2, Zenon
    DEF NodeSteps, requestVars, ConfigureNatMapper, closeNatWire, LoopTop, QuiesceRequest,
        QuiesceWait, CloseSockets, WaitResumed, ReopenSucceeds, ReopenGivesUp, WireKept,
        WireReopened, WireRecycled, NatDisabled, NatWithoutWire, NatOpens, NatKept, Announce,
        TrafficDone
  <2>7. natLate' \in BOOLEAN
    BY <1>2, Zenon
    DEF NodeSteps, LoopTop, QuiesceRequest, QuiesceWait, CloseSockets, WaitResumed,
        ReopenSucceeds, ReopenGivesUp, WireKept, WireReopened, WireRecycled, NatDisabled,
        NatWithoutWire, NatOpens, NatKept, Announce, TrafficDone
  <2>8. late' \in BOOLEAN
    BY <1>2, NodeFrame, Zenon DEF WaitResumed
  <2> QED BY <1>2, <2>1, <2>2, <2>3, <2>4, <2>5, <2>6, <2>7, <2>8, NodeFrame
<1>3. CASE Datagrams
  <2> USE <1>3 DEF Datagrams, SendSucceeds, SendFails, Receive, PollHup, Unreachable, healthVars
  <2>1. wireHup' \in BOOLEAN
    BY Zenon
  <2>2. wireRecovering' \in BOOLEAN
    BY Zenon
  <2>3. wireRecoveryConfirmed' \in BOOLEAN
    BY Zenon
  <2>4. wireReachable' \in BOOLEAN
    BY Zenon
  <2> QED BY <2>1, <2>2, <2>3, <2>4, DatagramFrame DEF pscVars, eventVars, requestVars
<1>4. CASE WorkerNext
  <2>1. idle' \in BOOLEAN
    BY <1>4, Zenon
    DEF WorkerNext, WorkerLoads, WorkerBusy, WorkerChecks, QueryFails, QuerySucceeds,
        PmpFails, MapSucceeds, MapEnds, WorkerPublishes, WorkerGivesUp, WorkerRests
  <2> QED BY <1>4, <2>1, WorkerLeaves DEF workerFrame, pscVars, eventVars, wireVars, healthVars
<1>5. CASE Environment
  <2>1. net' \in BOOLEAN
    BY <1>5, Zenon DEF Environment, NetworkDown, NetworkUp, LeaseEnds
  <2> QED BY <1>5, <2>1, EnvironmentFrame DEF pscVars, eventVars, healthVars
<1>6. CASE UNCHANGED vars
  BY <1>6 DEF vars, pscVars, eventVars, wireVars, healthVars, requestVars
<1> QED BY <1>1, <1>2, <1>3, <1>4, <1>5, <1>6 DEF Next

(* Every step keeps the types, and the worker idle only where it calls     *)
(* nobody.                                                                 *)
LEMMA TypeStep == TypeOK /\ [Next]_vars => TypeOK'
<1> SUFFICES ASSUME TypeOK, [Next]_vars PROVE TypeOK'
  OBVIOUS
<1>1. Flags'
  BY FlagsStep DEF TypeOK, Flags
<1> USE <1>1, UplinkAssumption
    DEF TypeOK, Flags, Sockets, Generations, pscVars, healthVars, wireVars, requestVars, mappedVars
<1>2. CASE PscNext
  BY <1>2, PscFrame DEF PscNext, PscSleep, PscClearResumed, PscRaise, PscAcknowledges, PscWake,
                        PscSignalResumed
<1>3. CASE NodeSteps
  <2> USE NodeFrame, <1>3 DEF NoMapping, ConfigureNatMapper, closeNatWire
  <2>1. CASE LoopTop \/ QuiesceRequest \/ QuiesceWait \/ CloseSockets \/ WaitResumed
    BY <2>1 DEF LoopTop, QuiesceRequest, QuiesceWait, CloseSockets, WaitResumed
  <2>2. CASE ReopenSucceeds \/ ReopenGivesUp \/ WireKept \/ WireReopened \/ WireRecycled
    BY <2>2 DEF ReopenSucceeds, ReopenGivesUp, WireKept, WireReopened, WireRecycled,
                Settle, WireGone, StreakNow
  <2>3. CASE NatDisabled \/ NatWithoutWire \/ NatOpens \/ NatKept \/ Announce \/ TrafficDone
    BY <2>3 DEF NatDisabled, NatWithoutWire, NatOpens, NatKept, Announce, TrafficDone,
                GetNatEndpoint
  <2> QED BY <2>1, <2>2, <2>3 DEF NodeSteps
<1>4. CASE Datagrams
  <2>1. wireFailStreak' \in 0..FailStreakMax
    BY <1>4 DEF Datagrams, SendSucceeds, SendFails, Receive, PollHup, Unreachable
  <2> QED BY <1>4, <2>1, DatagramFrame
<1>5. CASE WorkerNext
  BY <1>5, WorkerLeaves
  DEF WorkerNext, workerFrame, NoMapping, Publish, WorkerLoads, WorkerBusy, WorkerChecks,
      QueryFails, QuerySucceeds, PmpFails, MapSucceeds, MapEnds, WorkerPublishes, WorkerGivesUp, WorkerRests
<1>6. CASE Environment
  <2>1. wireFd' \in Sockets /\ mappedFd' \in Sockets
    BY <1>6 DEF Environment, NetworkDown, NetworkUp, LeaseEnds, MayDie
  <2> QED BY <1>6, <2>1, EnvironmentFrame DEF NoMapping
<1>7. CASE UNCHANGED vars
  BY <1>7 DEF vars
<1> QED BY <1>2, <1>3, <1>4, <1>5, <1>6, <1>7 DEF Next

(***************************************************************************)
(* The parts of the invariant.                                             *)
(***************************************************************************)

(* A request and the socket it is for come and go together. *)
LEMMA RequestStep == TypeOK /\ RequestMatches /\ [Next]_vars => RequestMatches'
<1> SUFFICES ASSUME TypeOK, RequestMatches, [Next]_vars PROVE RequestMatches'
  OBVIOUS
<1> USE DEF TypeOK, Generations, RequestMatches, NoMapping, requestVars, mappedVars
<1>1. CASE PscNext
  BY <1>1, PscFrame
<1>2. CASE NodeSteps
  <2> USE DEF ConfigureNatMapper, closeNatWire
  <2>1. CASE LoopTop \/ QuiesceRequest \/ QuiesceWait \/ CloseSockets \/ WaitResumed
    BY <2>1 DEF LoopTop, QuiesceRequest, QuiesceWait, CloseSockets, WaitResumed
  <2>2. CASE ReopenSucceeds \/ ReopenGivesUp \/ WireKept \/ WireReopened \/ WireRecycled
    BY <2>2 DEF ReopenSucceeds, ReopenGivesUp, WireKept, WireReopened, WireRecycled
  <2>3. CASE NatDisabled \/ NatWithoutWire \/ NatOpens \/ NatKept \/ Announce \/ TrafficDone
    BY <2>3 DEF NatDisabled, NatWithoutWire, NatOpens, NatKept, Announce, TrafficDone
  <2> QED BY <1>2, <2>1, <2>2, <2>3 DEF NodeSteps
<1>3. CASE Datagrams
  BY <1>3, DatagramFrame
<1>4. CASE WorkerNext
  BY <1>4, WorkerLeaves
  DEF WorkerNext, workerFrame, Publish, WorkerLoads, WorkerBusy, WorkerChecks, QueryFails,
      QuerySucceeds, PmpFails, MapSucceeds, MapEnds, WorkerPublishes, WorkerGivesUp, WorkerRests
<1>5. CASE Environment
  BY <1>5, EnvironmentFrame
<1>6. CASE UNCHANGED vars
  BY <1>6 DEF vars
<1> QED BY <1>1, <1>2, <1>3, <1>4, <1>5, <1>6 DEF Next

(* Which sockets there are follows from where the node thread is, and the  *)
(* LAN is not ready without one.                                           *)
LEMMA SocketsStep ==
    /\ TypeOK /\ SocketsFollow /\ ReadyMeansSocket
    /\ [Next]_vars
    => SocketsFollow' /\ ReadyMeansSocket'
<1> SUFFICES ASSUME TypeOK, SocketsFollow, ReadyMeansSocket, [Next]_vars
             PROVE  SocketsFollow' /\ ReadyMeansSocket'
  OBVIOUS
<1> USE DEF TypeOK, SocketsFollow, ReadyMeansSocket, wireVars, mappedVars
<1>1. CASE PscNext
  BY <1>1, PscFrame
<1>2. CASE NodeSteps
  <2> USE DEF closeNatWire
  <2>1. CASE LoopTop
    BY <2>1 DEF LoopTop
  <2>2. CASE QuiesceRequest
    BY <2>2 DEF QuiesceRequest
  <2>3. CASE QuiesceWait
    BY <2>3 DEF QuiesceWait
  <2>4. CASE CloseSockets
    BY <2>4 DEF CloseSockets
  <2>5. CASE WaitResumed
    BY <2>5 DEF WaitResumed
  <2>6. CASE ReopenSucceeds
    BY <2>6 DEF ReopenSucceeds
  <2>7. CASE ReopenGivesUp
    BY <2>7 DEF ReopenGivesUp
  <2>8. CASE WireKept
    BY <2>8 DEF WireKept
  <2>9. CASE WireReopened
    BY <2>9 DEF WireReopened
  <2>10. CASE WireRecycled
    BY <2>10 DEF WireRecycled, WireGone
  <2>11. CASE NatDisabled
    BY <2>11 DEF NatDisabled
  <2>12. CASE NatWithoutWire
    BY <2>12 DEF NatWithoutWire
  <2>13. CASE NatOpens
    BY <2>13 DEF NatOpens
  <2>14. CASE NatKept
    BY <2>14 DEF NatKept
  <2>15. CASE Announce
    BY <2>15 DEF Announce
  <2>16. CASE TrafficDone
    BY <2>16 DEF TrafficDone
  <2> QED BY <1>2, <2>1, <2>2, <2>3, <2>4, <2>5, <2>6, <2>7, <2>8,
              <2>9, <2>10, <2>11, <2>12, <2>13, <2>14, <2>15, <2>16 DEF NodeSteps
<1>3. CASE Datagrams
  BY <1>3, DatagramFrame
  DEF Datagrams, SendSucceeds, SendFails, Receive, PollHup, Unreachable, Socket, Works
<1>4. CASE WorkerNext
  BY <1>4, WorkerLeaves DEF workerFrame
<1>5. CASE Environment
  BY <1>5, EnvironmentFrame
<1>6. CASE UNCHANGED vars
  BY <1>6 DEF vars
<1> QED BY <1>1, <1>2, <1>3, <1>4, <1>5, <1>6 DEF Next

(* The events of a sleep are in the order the handshake needs, and a sleep *)
(* that was confirmed is quiet.                                            *)
LEMMA HandshakeStep ==
    /\ TypeOK /\ SocketsFollow /\ Handshake /\ ConfirmedMeansQuiet
    /\ [Next]_vars
    => Handshake' /\ ConfirmedMeansQuiet'
<1> SUFFICES ASSUME TypeOK, SocketsFollow, Handshake, ConfirmedMeansQuiet, [Next]_vars
             PROVE  Handshake' /\ ConfirmedMeansQuiet'
  OBVIOUS
<1> USE DEF TypeOK, Handshake, ConfirmedMeansQuiet, Asking, pscVars, eventVars
<1>1. CASE PscNext
  <2> USE PscFrame, <1>1 DEF SocketsFollow, wireVars, mappedVars
  <2>1. CASE PscSleep
    BY <2>1 DEF PscSleep
  <2>2. CASE PscClearResumed
    BY <2>2 DEF PscClearResumed
  <2>3. CASE PscRaise
    BY <2>3 DEF PscRaise
  <2>4. CASE PscAcknowledges
    BY <2>4 DEF PscAcknowledges
  <2>5. CASE PscWake
    BY <2>5 DEF PscWake
  <2>6. CASE PscSignalResumed
    BY <2>6 DEF PscSignalResumed
  <2> QED BY <2>1, <2>2, <2>3, <2>4, <2>5, <2>6 DEF PscNext
<1>2. CASE NodeSteps
  <2> USE NodeFrame, <1>2 DEF wireVars, mappedVars, closeNatWire
  <2>1. CASE LoopTop
    BY <2>1 DEF LoopTop
  <2>2. CASE QuiesceRequest
    BY <2>2 DEF QuiesceRequest
  <2>3. CASE QuiesceWait
    BY <2>3 DEF QuiesceWait
  <2>4. CASE CloseSockets
    BY <2>4 DEF CloseSockets
  <2>5. CASE WaitResumed
    BY <2>5 DEF WaitResumed
  <2>6. CASE ReopenSucceeds
    BY <2>6 DEF ReopenSucceeds
  <2>7. CASE ReopenGivesUp
    BY <2>7 DEF ReopenGivesUp
  <2>8. CASE WireKept
    BY <2>8 DEF WireKept
  <2>9. CASE WireReopened
    BY <2>9 DEF WireReopened
  <2>10. CASE WireRecycled
    BY <2>10 DEF WireRecycled, WireGone
  <2>11. CASE NatDisabled
    BY <2>11 DEF NatDisabled
  <2>12. CASE NatWithoutWire
    BY <2>12 DEF NatWithoutWire
  <2>13. CASE NatOpens
    BY <2>13 DEF NatOpens
  <2>14. CASE NatKept
    BY <2>14 DEF NatKept
  <2>15. CASE Announce
    BY <2>15 DEF Announce
  <2>16. CASE TrafficDone
    BY <2>16 DEF TrafficDone
  <2> QED BY <2>1, <2>2, <2>3, <2>4, <2>5, <2>6, <2>7, <2>8,
              <2>9, <2>10, <2>11, <2>12, <2>13, <2>14, <2>15, <2>16 DEF NodeSteps
<1>3. CASE Datagrams
  BY <1>3, DatagramFrame DEF mappedVars
<1>4. CASE WorkerNext
  BY <1>4, WorkerLeaves DEF workerFrame, wireVars, mappedVars
<1>5. CASE Environment
  BY <1>5, EnvironmentFrame
<1>6. CASE UNCHANGED vars
  BY <1>6 DEF vars, wireVars, mappedVars
<1> QED BY <1>1, <1>2, <1>3, <1>4, <1>5, <1>6 DEF Next

(* Once QuiesceNatMapper has seen the worker idle, the worker stays away   *)
(* from nifm and the router: to go there it would have to find a request.  *)
LEMMA RouterStep ==
    TypeOK /\ RequestMatches /\ RouterLeftAlone /\ [Next]_vars => RouterLeftAlone'
<1> SUFFICES ASSUME TypeOK, RequestMatches, RouterLeftAlone, [Next]_vars
             PROVE  RouterLeftAlone'
  OBVIOUS
<1> USE DEF RouterLeftAlone
<1>1. CASE PscNext
  BY <1>1, PscFrame
<1>2. CASE NodeSteps
  <2> USE NodeFrame, <1>2
  <2>1. CASE LoopTop \/ QuiesceRequest \/ QuiesceWait \/ CloseSockets \/ WaitResumed
    BY <2>1 DEF TypeOK, LoopTop, QuiesceRequest, QuiesceWait, CloseSockets, WaitResumed
  <2>2. CASE ReopenSucceeds \/ ReopenGivesUp \/ WireKept \/ WireReopened \/ WireRecycled
    BY <2>2 DEF ReopenSucceeds, ReopenGivesUp, WireKept, WireReopened, WireRecycled
  <2>3. CASE NatDisabled \/ NatWithoutWire \/ NatOpens \/ NatKept \/ Announce \/ TrafficDone
    BY <2>3 DEF NatDisabled, NatWithoutWire, NatOpens, NatKept, Announce, TrafficDone
  <2> QED BY <2>1, <2>2, <2>3 DEF NodeSteps
<1>3. CASE Datagrams
  BY <1>3, DatagramFrame
<1>4. CASE WorkerNext
  BY <1>4, WorkerLeaves
  DEF WorkerNext, workerFrame, RequestMatches, Withdrawn, WorkerLoads, WorkerBusy, WorkerChecks,
      QueryFails, QuerySucceeds, PmpFails, MapSucceeds, MapEnds, WorkerPublishes, WorkerGivesUp, WorkerRests
<1>5. CASE Environment
  BY <1>5, EnvironmentFrame
<1>6. CASE UNCHANGED vars
  BY <1>6 DEF vars
<1> QED BY <1>1, <1>2, <1>3, <1>4, <1>5, <1>6 DEF Next

(* Nothing but an answer to the current request is announced, and it is    *)
(* taken back with the socket.                                             *)
LEMMA AnnounceStep ==
    TypeOK /\ RequestMatches /\ AnnouncedIsOurs /\ [Next]_vars => AnnouncedIsOurs'
<1> SUFFICES ASSUME TypeOK, RequestMatches, AnnouncedIsOurs, [Next]_vars
             PROVE  AnnouncedIsOurs'
  OBVIOUS
<1> USE DEF AnnouncedIsOurs, mappedVars
<1>1. CASE PscNext
  BY <1>1, PscFrame
<1>2. CASE NodeSteps
  <2> USE DEF closeNatWire
  <2>1. CASE LoopTop \/ QuiesceRequest \/ QuiesceWait \/ CloseSockets \/ WaitResumed
    BY <2>1 DEF LoopTop, QuiesceRequest, QuiesceWait, CloseSockets, WaitResumed
  <2>2. CASE ReopenSucceeds \/ ReopenGivesUp \/ WireKept \/ WireReopened \/ WireRecycled
    BY <2>2 DEF ReopenSucceeds, ReopenGivesUp, WireKept, WireReopened, WireRecycled
  <2>3. CASE Announce
    BY <2>3 DEF Announce, GetNatEndpoint, RequestMatches, TypeOK, Generations
  <2>4. CASE NatDisabled \/ NatWithoutWire \/ NatOpens \/ NatKept \/ TrafficDone
    BY <2>4 DEF NatDisabled, NatWithoutWire, NatOpens, NatKept, TrafficDone
  <2> QED BY <1>2, <2>1, <2>2, <2>3, <2>4 DEF NodeSteps
<1>3. CASE Datagrams
  BY <1>3, DatagramFrame
<1>4. CASE WorkerNext
  BY <1>4, WorkerLeaves DEF workerFrame
<1>5. CASE Environment
  BY <1>5, EnvironmentFrame
<1>6. CASE UNCHANGED vars
  BY <1>6 DEF vars
<1> QED BY <1>1, <1>2, <1>3, <1>4, <1>5, <1>6 DEF Next

(* The inductive invariant holds in every state. *)
LEMMA Invariance == Spec => []Inv
<1>1. ASSUME Init PROVE Inv
  <2>1. Flags
    BY <1>1, Zenon DEF Init, Flags
  <2>2. TypeOK
    BY <1>1, <2>1, UplinkAssumption DEF Init, TypeOK, Flags, Sockets, Generations, NoMapping
  <2>3. /\ RequestMatches /\ SocketsFollow /\ Handshake
        /\ ConfirmedMeansQuiet /\ RouterLeftAlone /\ AnnouncedIsOurs /\ ReadyMeansSocket
    BY <1>1 DEF Init, NoMapping, RequestMatches, SocketsFollow, Handshake, Asking,
                ConfirmedMeansQuiet, RouterLeftAlone, AnnouncedIsOurs, ReadyMeansSocket
  <2> QED BY <2>2, <2>3 DEF Inv
<1>2. Inv /\ [Next]_vars => Inv'
  BY TypeStep, RequestStep, SocketsStep, HandshakeStep, RouterStep, AnnounceStep DEF Inv
<1> QED BY <1>1, <1>2, PTL DEF Spec

(***************************************************************************)
(* The theorems.                                                           *)
(***************************************************************************)

(* The state of the three threads keeps its type, and the worker says it
   is idle only where it calls neither nifm nor the router, for every
   failure streak and every config.ini. *)
THEOREM TypeCorrectness == Spec => []TypeOK
<1>1. Inv => TypeOK
  BY DEF Inv
<1> QED BY <1>1, Invariance, PTL

(* A sleep that HandleSleep confirmed leaves both sockets closed and the
   node thread inside HandleSleep until the wake-up, in every order of the
   steps of RequestQuiesce, SignalResume and HandleSleep, unless the node
   thread signalled for an earlier request and passed g_resumed between the
   two clears of the next one. *)
THEOREM ConfirmedIsQuiet == Spec => []ConfirmedMeansQuiet
<1>1. Inv => ConfirmedMeansQuiet
  BY DEF Inv
<1> QED BY <1>1, Invariance, PTL

(* When QuiesceNatMapper returns true, the NAT worker makes no call to nifm
   or to the router before HandleSleep is over. *)
THEOREM RouterIsLeftAlone == Spec => []RouterLeftAlone
<1>1. Inv => RouterLeftAlone
  BY DEF Inv
<1> QED BY <1>1, Invariance, PTL

(* maintainNatWire never announces an address that the worker got for an
   earlier socket, and none while the mapped socket is closed. *)
THEOREM AnnouncedIsAlwaysOurs == Spec => []AnnouncedIsOurs
<1>1. Inv => AnnouncedIsOurs
  BY DEF Inv
<1> QED BY <1>1, Invariance, PTL

(* m_wireReachable is never set while there is no wire socket, whichever of
   HandleSleep, maintainWireSocket and the callbacks ran last. *)
THEOREM ReadyAlwaysMeansSocket == Spec => []ReadyMeansSocket
<1>1. Inv => ReadyMeansSocket
  BY DEF Inv
<1> QED BY <1>1, Invariance, PTL
=============================================================================
