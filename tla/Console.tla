------------------------------ MODULE Console ------------------------------
(***************************************************************************)
(* A console that is running: the overlay and the node thread share the    *)
(* configuration files (Settings), the node thread's network is what the   *)
(* nifm shim waits for on behalf of a game (NifmRequest).  Joining another *)
(* network takes the transport down until its wire is confirmed and its    *)
(* controller has answered.                                                *)
(***************************************************************************)
EXTENDS Settings, NifmRequest

vars == <<filesVars, nifmVars>>

Init == FilesInit /\ NifmInit

(* Settings: a step that does not change the network. *)
FilesStep ==
    /\ UseOverlay \/ OverlayStep \/ Node
    /\ nwid' = nwid
    /\ UNCHANGED nifmVars

(* Initialize and switchNetwork: the wire has to be confirmed again and the
   VNet waits for the new network's address.  LanSwitch has their failures. *)
Join ==
    /\ ReadSaved
    /\ nwid' # nwid
    /\ wire' = FALSE
    /\ address' = FALSE
    /\ UNCHANGED <<title, request, real, server, answer>>
    /\ Remember

(* The transport changes only under a node that has a network. *)
TransportStep ==
    /\ nwid # None
    /\ WireChanges \/ AddressChanges
    /\ Remember
    /\ UNCHANGED filesVars

NifmStep ==
    /\ Calls \/ Server \/ NifmDecides
    /\ Remember
    /\ UNCHANGED filesVars

(* The power fails, for the game too. *)
Reboot ==
    /\ PowerFailure
    /\ wire' = FALSE
    /\ address' = FALSE
    /\ request' = NoRequest
    /\ real' = Error
    /\ server' = Idle
    /\ answer' = NoAnswer
    /\ seen' = Unseen
    /\ told' = FALSE
    /\ UNCHANGED title

Next == FilesStep \/ Join \/ TransportStep \/ NifmStep \/ Reboot

(* The node thread, the overlay's writes and the shim's thread go on. *)
Fairness == FilesFairness /\ NifmFairness

Spec == Init /\ [][Next]_vars /\ Fairness

(* Both parts have their types. *)
TypeOK == FilesTypeOK /\ NifmTypeOK

(* Again and again the shim's thread is free and the node is on the network
   that the files on the disk ask for, if they ask for one.  So a held call is
   answered also when the node finds no network or keeps changing it, and the
   network selected last is joined whatever the game does.  A power failure may
   leave a file empty; start-up then joins what the other file asks for, and
   what is chosen afterwards. *)
BothGoOn == []<>(server = Idle /\ OnSelectedNetwork)
=============================================================================
