--------------------------- MODULE DatagramQueues ---------------------------
(***************************************************************************)
(* What the virtual sockets promise their callers, without a pool, lists   *)
(* or ports: every open socket is a FIFO queue of datagrams, the sockets   *)
(* share Capacity places, a datagram that finds no place or is too long is *)
(* lost for that socket, and a socket that is opened, or closed, is empty. *)
(***************************************************************************)
EXTENDS Integers, Sequences, FiniteSets

CONSTANTS Sockets, Capacity, MaxLen, Payloads, Sizes

VARIABLES open, queue, report

vars == <<open, queue, report>>

(* The places that are taken, and how many that is. *)
Places == UNION {{s} \X DOMAIN queue[s] : s \in Sockets}
Queued == Cardinality(Places)

Report(op, n, d) == [op |-> op, n |-> n, dgram |-> d]
NoDatagram == [src |-> "none", len |-> 0]
Nothing == Report("received", -1, NoDatagram)
View(d, max) == Report("received", IF d.len < max THEN d.len ELSE max, d)

Init ==
    /\ open = [s \in Sockets |-> FALSE]
    /\ queue = [s \in Sockets |-> <<>>]
    /\ report = Nothing

Open(s) ==
    /\ ~open[s]
    /\ open' = [open EXCEPT ![s] = TRUE]
    /\ UNCHANGED <<queue, report>>

Close(s) ==
    /\ open[s]
    /\ open' = [open EXCEPT ![s] = FALSE]
    /\ queue' = [queue EXCEPT ![s] = <<>>]
    /\ UNCHANGED report

CloseAll ==
    /\ open' = [s \in Sockets |-> FALSE]
    /\ queue' = [s \in Sockets |-> <<>>]
    /\ UNCHANGED report

Deliver(s, d) ==
    /\ open[s]
    /\ d.len <= MaxLen
    /\ Queued < Capacity
    /\ queue' = [queue EXCEPT ![s] = Append(@, d)]
    /\ report' = Report("queued", 0, NoDatagram)
    /\ UNCHANGED open

LoseTooBig(s, d) ==
    /\ open[s]
    /\ d.len > MaxLen
    /\ report' = Report("tooBig", 0, d)
    /\ UNCHANGED <<open, queue>>

(* Every place is taken: nothing else makes a datagram that fits get lost. *)
LoseNoBuffer(s, d) ==
    /\ open[s]
    /\ d.len <= MaxLen
    /\ Queued = Capacity
    /\ report' = Report("noBuffer", 0, d)
    /\ UNCHANGED <<open, queue>>

Receive(s, max) ==
    /\ open[s]
    /\ queue[s] # <<>>
    /\ report' = View(Head(queue[s]), max)
    /\ queue' = [queue EXCEPT ![s] = Tail(@)]
    /\ UNCHANGED open

Peek(s, max) ==
    /\ open[s]
    /\ queue[s] # <<>>
    /\ report' = View(Head(queue[s]), max)
    /\ UNCHANGED <<open, queue>>

ReceiveNothing(s) ==
    /\ open[s]
    /\ queue[s] = <<>>
    /\ report' = Nothing
    /\ UNCHANGED <<open, queue>>

Next ==
    \/ CloseAll
    \/ \E s \in Sockets :
           \/ Open(s)
           \/ Close(s)
           \/ ReceiveNothing(s)
           \/ \E d \in Payloads : Deliver(s, d) \/ LoseTooBig(s, d) \/ LoseNoBuffer(s, d)
           \/ \E max \in Sizes : Receive(s, max) \/ Peek(s, max)

Spec == Init /\ [][Next]_vars
=============================================================================
