----------------------------- MODULE NifmRequest -----------------------------
(***************************************************************************)
(* The nifm:u shim (source/mitm/nifm_shim.cpp): what a game learns of its  *)
(* network request, and how a first "Available" is held back until the     *)
(* ZeroTier transport is ready or ten seconds have passed.                 *)
(*                                                                         *)
(* The shim's only server thread handles one call at a time.  While it     *)
(* holds a reply it looks at the transport again and again, each look in   *)
(* two steps (m_wireReachable, then the VNet under its lock), and the node *)
(* thread goes on meanwhile.  The game has one request.  Calls that are    *)
(* only forwarded are left out, and so are the private events of the       *)
(* compatibility model, which are never signalled, and its flag for a log  *)
(* line.  Nintendo's request is external.                                  *)
(***************************************************************************)
EXTENDS Naturals

CONSTANTS
    MaxLooks    \* looks at the transport before the wait is over (10 s / 50 ms)

ASSUME NifmAssumption == MaxLooks \in Nat \ {0}

(* m_connection_confirmation_option: not set, LAN mode, start-up check. *)
Options == {0, 1, 4}

(* IRequest's states, as far as they are told apart. *)
Error     == 1
OnHold    == 2
Available == 3

VARIABLES
    title,   \* how the shim treats the game: "stock" or "ryujinx"
    wire,    \* m_wireReachable
    address, \* m_vnet.configured()
    request, \* the NifmRequestShim
    real,    \* the state of Nintendo's request
    server,  \* where the server thread is: pc, looks made
    answer,  \* the last answer: to a call that begins an attempt, asks for the
             \* state or does neither; the state, whether the wait ran out
    seen,    \* history: since the call began the wire was up, and then the
             \* network had an address
    told     \* history: the game has had an Available since it last began

nifmVars == <<title, wire, address, request, real, server, answer, seen, told>>

NoRequest == [open |-> FALSE, barrier |-> FALSE, option |-> 0]
Idle      == [pc |-> "idle", looks |-> 0]
NoAnswer  == [call |-> "other", state |-> 0, late |-> FALSE]
Unseen    == [wire |-> FALSE, both |-> FALSE]

NifmInit ==
    /\ title \in {"stock", "ryujinx"}
    /\ wire = FALSE
    /\ address = FALSE
    /\ request = NoRequest
    /\ real = Error
    /\ server = Idle
    /\ answer = NoAnswer
    /\ seen = Unseen
    /\ told = FALSE

UsesRyujinxNifmRequestModel == title = "ryujinx"

Answers(call, state, late) ==
    /\ answer' = [call |-> call, state |-> state, late |-> late]
    /\ server' = Idle

(***************************************************************************)
(* The game's calls.                                                       *)
(***************************************************************************)

(* The real request is opened under the shim's own, also for ryujinx. *)
CreateRequest ==
    /\ server = Idle
    /\ ~request.open
    /\ request' = [NoRequest EXCEPT !.open = TRUE]
    /\ real' = Error
    /\ Answers("begin", 0, FALSE)
    /\ UNCHANGED <<title, wire, address>>

(* A game that exits takes its request with it. *)
CloseRequest ==
    /\ server = Idle
    /\ request.open
    /\ request' = NoRequest
    /\ real' = Error
    /\ Answers("other", 0, FALSE)
    /\ UNCHANGED <<title, wire, address>>

(* Mutant of Begun: a new attempt keeps the barrier of the last one. *)
BegunOnce == request

(* Submit and Cancel begin a new attempt. *)
Begun == [request EXCEPT !.barrier = FALSE]

Submit ==
    /\ server = Idle
    /\ request.open
    /\ request' = Begun
    /\ real' \in IF UsesRyujinxNifmRequestModel THEN {real} ELSE {real, OnHold}
    /\ Answers("begin", 0, FALSE)
    /\ UNCHANGED <<title, wire, address>>

Cancel ==
    /\ server = Idle
    /\ request.open
    /\ request' = Begun
    /\ real' \in IF UsesRyujinxNifmRequestModel THEN {real} ELSE {real, Error}
    /\ Answers("begin", 0, FALSE)
    /\ UNCHANGED <<title, wire, address>>

(* Kept by the compatibility model, forwarded otherwise. *)
SetConnectionConfirmationOption(o) ==
    /\ server = Idle
    /\ request.open
    /\ UsesRyujinxNifmRequestModel
    /\ request' = [request EXCEPT !.option = o]
    /\ Answers("other", 0, FALSE)
    /\ UNCHANGED <<title, wire, address, real>>

RyujinxInternetEnabled == request.option = 1 /\ address

(* The compatibility model answers at once. *)
GetRyujinxState ==
    /\ server = Idle
    /\ request.open
    /\ UsesRyujinxNifmRequestModel
    /\ Answers("state", IF RyujinxInternetEnabled THEN Available ELSE Error, FALSE)
    /\ UNCHANGED <<title, wire, address, request, real>>

(* The real state is passed on, but the first Available of an attempt is held. *)
GetRequestState ==
    LET hold == real = Available /\ ~request.barrier IN
    /\ server = Idle
    /\ request.open
    /\ ~UsesRyujinxNifmRequestModel
    /\ request' = [request EXCEPT !.barrier = @ \/ hold]
    /\ IF hold THEN server' = [pc |-> "wire", looks |-> 0] /\ answer' = NoAnswer
       ELSE Answers("state", real, FALSE)
    /\ UNCHANGED <<title, wire, address, real>>

(* Mutant of Looked: the time that passes is not counted. *)
LookedForFree == [pc |-> "again", looks |-> server.looks]

(* A look in vain. *)
Looked == [pc |-> "again", looks |-> server.looks + 1]

(* LanTransportReady, first half: a wire that is down is not ready. *)
LookAtWire ==
    /\ server.pc = "wire"
    /\ server' = IF wire THEN [server EXCEPT !.pc = "address"]
                 ELSE Looked
    /\ UNCHANGED <<title, wire, address, request, real, answer>>

(* Second half.  Ready: the state read before the wait is the answer. *)
LookAtAddress ==
    /\ server.pc = "address"
    /\ IF address THEN Answers("state", Available, FALSE)
       ELSE server' = Looked /\ UNCHANGED answer
    /\ UNCHANGED <<title, wire, address, request, real>>

(* Mutant of TimeIsUp: one look too many. *)
TimeIsUpLater == server.looks > MaxLooks

TimeIsUp == server.looks >= MaxLooks

(* WaitForLanTransportReady: after a pause another look, until time is up. *)
LookAgain ==
    /\ server.pc = "again"
    /\ IF TimeIsUp THEN Answers("state", Available, TRUE)
       ELSE server' = [server EXCEPT !.pc = "wire"] /\ UNCHANGED answer
    /\ UNCHANGED <<title, wire, address, request, real>>

(***************************************************************************)
(* Everyone else.                                                          *)
(***************************************************************************)

(* Nintendo's service settles a request that is on hold and takes an
   available one back. *)
NifmDecides ==
    /\ \/ real = OnHold /\ real' \in {Error, Available}
       \/ real = Available /\ real' = Error
    /\ UNCHANGED <<title, wire, address, request, server, answer>>

(* The uplink is lost or found; a network configuration comes or goes. *)
WireChanges ==
    /\ wire' = ~wire
    /\ UNCHANGED <<title, address, request, real, server, answer>>

AddressChanges ==
    /\ address' = ~address
    /\ UNCHANGED <<title, wire, request, real, server, answer>>

Calls == \/ CreateRequest \/ CloseRequest \/ Submit \/ Cancel
         \/ GetRyujinxState \/ GetRequestState
         \/ \E o \in Options : SetConnectionConfirmationOption(o)

Server == LookAtWire \/ LookAtAddress \/ LookAgain

(* The history of the call in progress and of the attempt it belongs to. *)
Remember ==
    LET up == wire' \/ (server # Idle /\ seen.wire) IN
    /\ seen' = [wire |-> up, both |-> (up /\ address') \/ (server # Idle /\ seen.both)]
    /\ told' = /\ answer'.call # "begin"
               /\ told \/ answer'.state = Available

(* The server thread goes on. *)
NifmFairness == WF_nifmVars(Server /\ Remember)

(***************************************************************************)
(* Properties.                                                             *)
(***************************************************************************)
NifmTypeOK ==
    /\ title \in {"stock", "ryujinx"}
    /\ wire \in BOOLEAN
    /\ address \in BOOLEAN
    /\ request \in [open : BOOLEAN, barrier : BOOLEAN, option : Options]
    /\ real \in {Error, OnHold, Available}
    /\ server \in [pc : {"idle", "wire", "address", "again"}, looks : 0..MaxLooks]
    /\ answer \in [call : {"begin", "state", "other"}, late : BOOLEAN,
                   state : {0, Error, OnHold, Available}]
    /\ seen \in [wire : BOOLEAN, both : BOOLEAN]
    /\ told \in BOOLEAN

(* A game is told that its request is available only when it may be.  In the
   compatibility model LAN mode was asked for and the network has an address.
   Otherwise it is the first such answer since the attempt began, and during
   the call the wire has been up and then the network has had an address, or
   the wait has run out; or it is a later one. *)
AvailableIsEarned ==
    [][answer' # answer /\ answer'.state = Available =>
          IF UsesRyujinxNifmRequestModel THEN request.option = 1 /\ address
          ELSE told \/ seen'.both \/ answer'.late]_nifmVars
=============================================================================
