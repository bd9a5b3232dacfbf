-------------------------- MODULE BsdLifetimeProofs --------------------------
(***************************************************************************)
(* Proofs about BsdLifetime for every set of processes and sessions and    *)
(* every size of the counter table: its types, LentOnce, and the two       *)
(* action properties LiveKeepTheirs and UnregisteredKept.                  *)
(*                                                                         *)
(* use_count decides what is closed, so the first lemmas say when it is    *)
(* zero, and when one.  The rest is what a registration is while real bsd  *)
(* is asked, who may still use the memory that was lent, and what the      *)
(* clean-up knows of the processes it deals with.                          *)
(***************************************************************************)
EXTENDS BsdLifetime, FiniteSetTheorems, TLAPS

(* What RegisterClient left behind when it went to ask real bsd, and what  *)
(* the owner on record is.                                                 *)
Registering ==
    /\ forwarding # NoSession =>
          /\ forwarding \in object
          /\ client[forwarding] \in Proxied
          /\ registrationOwner = NoSession
    /\ registrationOwner # NoSession =>
          /\ registrationOwner \in lent
          /\ client[registrationOwner] = registeredPid

(* A session has a client as long as anybody refers to it, and has had one *)
(* if it ever was registered; the memory is lent only to registered ones.  *)
HasClient ==
    /\ \A s \in object \cup framework \cup parked \cup lent : client[s] # NoPid
    /\ lent \subseteq registered /\ ownsProxy \subseteq registered

(* Of the sessions the memory was lent to, only the owner's is open.       *)
OwnerHasIt == \A s \in lent \cap open : s = registrationOwner

(* The service of a session that was never registered is parked before the *)
(* framework lets go of it.                                                *)
ParkedFirst == \A s \in framework \ object : s \in registered \cup parked

(* After its query the clean-up deals with processes that have exited.     *)
SweepsDead ==
    /\ sweep.at = "next" => \A p \in sweep.pids : process[p] = "exited"
    /\ sweep.at \in {"parked", "registration", "count"} =>
          /\ sweep.pid \in Pids /\ process[sweep.pid] = "exited"
          /\ \A p \in sweep.pids : process[p] = "exited"

Inv ==
    /\ TypeOK
    /\ Registering
    /\ HasClient
    /\ OwnerHasIt
    /\ ParkedFirst
    /\ SweepsDead

-----------------------------------------------------------------------------
(* use_count.                                                              *)

(* Somebody refers to the service of s. *)
Referred(s) == s \in object \cup framework \cup parked \cup {registrationOwner}

(* Who refers to it, if these have the named references... *)
Holders(s, obj, fw, pk, owner) ==
    {x \in {"object"} : s \in obj} \cup {x \in {"framework"} : s \in fw}
    \cup {x \in {"parked"} : s \in pk} \cup {x \in {"owner"} : s = owner}

(* ...and when that is more than one. *)
Several(s, obj, fw, pk, owner) ==
    \/ s \in obj /\ s \in fw \cup pk \cup {owner}
    \/ s \in fw /\ s \in pk \cup {owner}
    \/ s \in pk /\ s = owner

Shared(s) == Several(s, object, framework, parked, registrationOwner)

(* Their number is zero if there are none, and at most one if no two do. *)
LEMMA HolderCount ==
    ASSUME NEW s, NEW obj, NEW fw, NEW pk, NEW owner
    PROVE  LET n == Cardinality(Holders(s, obj, fw, pk, owner)) IN
           /\ n \in Nat
           /\ n > 0 <=> s \in obj \cup fw \cup pk \cup {owner}
           /\ n <= 1 <=> ~Several(s, obj, fw, pk, owner)
<1> DEFINE H == Holders(s, obj, fw, pk, owner)
           All == {"object", "framework", "parked", "owner"}
<1>1. IsFiniteSet(All)
  <2>1. IsFiniteSet({"object"} \cup {"framework"})
    BY FS_Singleton, FS_Union
  <2>2. IsFiniteSet({"parked"} \cup {"owner"})
    BY FS_Singleton, FS_Union
  <2>3. All = ({"object"} \cup {"framework"}) \cup ({"parked"} \cup {"owner"})
    OBVIOUS
  <2>4. IsFiniteSet(({"object"} \cup {"framework"}) \cup ({"parked"} \cup {"owner"}))
    BY <2>1, <2>2, FS_Union
  <2> QED
    BY <2>3, <2>4
<1>2. IsFiniteSet(H)
  <2>1. H \subseteq All
    BY DEF Holders
  <2> QED
    BY <1>1, <2>1, FS_Subset
<1>3. Cardinality(H) \in Nat /\ (Cardinality(H) = 0 <=> H = {})
  BY <1>2, FS_CardinalityType, FS_EmptySet
<1>4. ASSUME NEW x \in H, NEW y \in H, x # y
      PROVE  Cardinality(H) > 1
  <2>1. {x, y} \subseteq H
    OBVIOUS
  <2>2. IsFiniteSet({x}) /\ Cardinality({x}) = 1
    BY FS_Singleton
  <2>3. Cardinality({x} \cup {y}) = 2
    BY <1>4, <2>2, FS_AddElement
  <2> QED
    <3>1. {x} \cup {y} \subseteq H
      BY <2>1
    <3> QED
      BY <1>2, <1>3, <2>3, <3>1, FS_Subset
<1>5. ASSUME NEW x \in H, H = {x}
      PROVE  Cardinality(H) = 1
  BY <1>5, FS_Singleton
<1>6. /\ "object" \in H <=> s \in obj
      /\ "framework" \in H <=> s \in fw
      /\ "parked" \in H <=> s \in pk
      /\ "owner" \in H <=> s = owner
      /\ H \subseteq All
  BY DEF Holders
<1> HIDE DEF H
<1>7. Cardinality(H) > 0 <=> H # {}
  BY <1>3
<1>8. Cardinality(H) <= 1 <=> ~(\E x, y \in H : x # y)
  <2>1. CASE H = {}
    BY <1>3, <2>1
  <2>2. CASE \E x \in H : H = {x}
    BY <1>5, <2>2
  <2>3. CASE \E x, y \in H : x # y
    BY <1>3, <1>4, <2>3
  <2> QED
    BY <2>1, <2>2, <2>3
<1>9. H # {} <=> s \in obj \cup fw \cup pk \cup {owner}
  BY <1>6
<1>10. (\E x, y \in H : x # y) <=> Several(s, obj, fw, pk, owner)
  BY <1>6 DEF Several
<1> QED
  BY <1>3, <1>7, <1>8, <1>9, <1>10 DEF H

(* What UseCount says, in a state... *)
LEMMA Counts ==
    ASSUME NEW s
    PROVE  /\ UseCount(s) > 0 <=> Referred(s)
           /\ UseCount(s) <= 1 <=> ~Shared(s)
           /\ UseCount(s) = 1 <=> Referred(s) /\ ~Shared(s)
<1>1. UseCount(s) = Cardinality(Holders(s, object, framework, parked, registrationOwner))
  BY DEF UseCount, Holders
<1> DEFINE n == UseCount(s)
<1>2. n \in Nat
  BY <1>1, HolderCount
<1>3. n > 0 <=> Referred(s)
  BY <1>1, HolderCount DEF Referred
<1>4. n <= 1 <=> ~Shared(s)
  BY <1>1, HolderCount DEF Shared
<1> HIDE DEF n
<1>5. n = 1 <=> n > 0 /\ n <= 1
  BY <1>2
<1> QED
  BY <1>3, <1>4, <1>5 DEF n

(* ...and after a step. *)
LEMMA CountsNext ==
    ASSUME NEW s
    PROVE  UseCount(s)' > 0 <=> Referred(s)'
<1>1. UseCount(s)' = Cardinality(Holders(s, object', framework', parked',
                                         registrationOwner'))
  BY DEF UseCount, Holders
<1> QED
  BY <1>1, HolderCount DEF Referred

-----------------------------------------------------------------------------
(* What every step preserves.  In each proof the first step is for those   *)
(* that leave alone what the invariant is about.                           *)

SweepType ==
    sweep \in [at : {"idle", "query", "next", "parked", "registration", "count"},
              pids : SUBSET Pids, pid : Pids \cup {NoPid}]

OpenIsReferred == \A s \in Sessions : s \in open <=> Referred(s)

(* A service is open as long as somebody refers to it: whatever closes one *)
(* holds the last reference.                                               *)
LEMMA OpenStep == Inv /\ Next => OpenIsReferred'
<1> SUFFICES ASSUME Inv, Next
             PROVE  OpenIsReferred'
    OBVIOUS
<1> USE LifetimeAssumption
<1>1. OpenIsReferred
  BY Counts DEF Inv, TypeOK, OpenIsReferred
<1>2. ASSUME UNCHANGED <<object, serviceVars, registrationOwner>>
      PROVE  OpenIsReferred'
  BY <1>1, <1>2 DEF OpenIsReferred, Referred, serviceVars
<1>3. ASSUME NEW p \in Pids, NEW s \in Sessions, ShouldMitmAccept(p, s)
      PROVE  OpenIsReferred'
  BY <1>1, <1>3 DEF OpenIsReferred, Referred, ShouldMitmAccept, registration
<1>4. ASSUME NEW s \in Sessions, RegisterProxy(s)
      PROVE  OpenIsReferred'
  <2>1. registrationOwner = NoSession \/ ~Shared(registrationOwner)
    BY <1>4, Counts DEF RegisterProxy, OwnerRetired, Inv, TypeOK
  <2> QED
    BY <1>1, <1>4, <2>1 DEF OpenIsReferred, Referred, Shared, Several, RegisterProxy,
       Retired, sessionVars
<1>5. CASE ProxyRegistered
  BY <1>1, <1>5 DEF OpenIsReferred, Referred, ProxyRegistered, Idle, Inv, Registering,
     serviceVars
<1>6. ASSUME NEW s \in Sessions, Destroy(s)
      PROVE  OpenIsReferred'
  BY <1>1, <1>6, Counts DEF OpenIsReferred, Referred, Shared, Several, Destroy, registration
<1>7. ASSUME NEW s \in Sessions, DestroyOwner(s)
      PROVE  OpenIsReferred'
  BY <1>1, <1>7, Counts DEF OpenIsReferred, Referred, Shared, Several, DestroyOwner,
     registration
<1>8. ASSUME NEW s \in Sessions, FrameworkReleases(s)
      PROVE  OpenIsReferred'
  BY <1>1, <1>8, Counts DEF OpenIsReferred, Referred, Shared, Several, FrameworkReleases,
     sessionVars, registration
<1>9. ASSUME NEW p, object' = object, framework' = framework,
             parked' = parked \ Releasable(p), open' = open \ Releasable(p),
             registrationOwner' = registrationOwner
      PROVE  OpenIsReferred'
  BY <1>1, <1>9, Counts DEF OpenIsReferred, Referred, Shared, Several, Releasable
<1>10. ASSUME NEW s \in Sessions, ShutdownAllSockets(s)
       PROVE  OpenIsReferred'
  BY <1>9, <1>10 DEF ShutdownAllSockets, sessionVars, registration
<1>11. CASE SweepParked
  BY <1>9, <1>11 DEF SweepParked, sessionVars, registration
<1>12. CASE SweepRegistration
  <2>1. CASE UNCHANGED <<open, registration>>
    BY <1>2, <1>12, <2>1 DEF SweepRegistration, sessionVars, serviceVars, registration
  <2>2. CASE Retired /\ UseCount(registrationOwner) <= 1
    BY <1>1, <1>12, <2>2, Counts DEF OpenIsReferred, Referred, Shared, Several, Retired,
       SweepRegistration, sessionVars
  <2> QED
    BY <1>12, <2>1, <2>2 DEF SweepRegistration
<1>13. ASSUME NEW p \in Pids, Launch(p) \/ Exit(p) \/ ShouldMitmDummy(p) \/ SweepTakes(p)
       PROVE  OpenIsReferred'
  BY <1>2, <1>13 DEF Launch, Exit, ShouldMitmDummy, SweepTakes, sessionVars, registration
<1>14. ASSUME NEW s \in Sessions, RegisterPlain(s) \/ RegisterClientShared(s)
       PROVE  OpenIsReferred'
  BY <1>2, <1>14 DEF RegisterPlain, RegisterClientShared, registration
<1>15. CASE ProxyFails \/ ProxyUnavailable
  BY <1>2, <1>15 DEF ProxyFails, ProxyUnavailable, sessionVars, registration
<1>16. CASE SweepNotes \/ SweepQueries \/ SweepQueryFails \/ SweepDone \/ SweepCount
  BY <1>2, <1>16 DEF SweepNotes, SweepQueries, SweepQueryFails, SweepDone, SweepCount,
     sessionVars, registration
<1> QED
  BY <1>3, <1>4, <1>5, <1>6, <1>7, <1>8, <1>10, <1>11, <1>12, <1>13, <1>14, <1>15, <1>16
  DEF Next, ProcessStep, ServerStep, SweepStep

(* The record of the clean-up has its type. *)
LEMMA SweepTypeStep == Inv /\ Next => SweepType'
<1> SUFFICES ASSUME Inv, Next
             PROVE  SweepType'
    OBVIOUS
<1> USE DEF SweepType
<1>1. SweepType
  BY DEF Inv, TypeOK
<1>2. CASE UNCHANGED sweep
  BY <1>1, <1>2
<1>3. CASE SweepNotes
  <2>1. Candidates \subseteq Pids
    BY LifetimeAssumption DEF Candidates, Inv, TypeOK, HasClient
  <2> QED
    BY <1>3, <2>1 DEF SweepNotes
<1>4. CASE SweepQueries
  BY <1>1, <1>4 DEF SweepQueries, Gone
<1>5. CASE SweepQueryFails \/ SweepDone
  BY <1>5 DEF SweepQueryFails, SweepDone, NoSweep
<1>6. ASSUME NEW p \in Pids, SweepTakes(p)
      PROVE  SweepType'
  BY <1>1, <1>6 DEF SweepTakes
<1>7. CASE SweepParked
  BY <1>1, <1>7 DEF SweepParked
<1>8. CASE SweepRegistration
  BY <1>1, <1>8 DEF SweepRegistration
<1>9. CASE SweepCount
  BY <1>1, <1>9 DEF SweepCount
<1>10. CASE ProcessStep
  BY <1>2, <1>10 DEF ProcessStep, Launch, Exit, ShouldMitmDummy, ShouldMitmAccept
<1>11. CASE ServerStep
  BY <1>2, <1>11 DEF ServerStep, ProxyRegistered, ProxyFails, ProxyUnavailable,
     RegisterPlain, RegisterClientShared, RegisterProxy, Destroy, DestroyOwner,
     FrameworkReleases, ShutdownAllSockets
<1> QED
  BY <1>3, <1>4, <1>5, <1>6, <1>7, <1>8, <1>9, <1>10, <1>11 DEF Next, SweepStep

(* The state has its type after every step. *)
LEMMA TypeStep == Inv /\ Next => TypeOK'
<1> SUFFICES ASSUME Inv, Next
             PROVE  TypeOK'
    OBVIOUS
<1> USE LifetimeAssumption
<1>1. SweepType' /\ \A s \in Sessions : s \in open' <=> UseCount(s)' > 0
  BY OpenStep, SweepTypeStep, CountsNext DEF OpenIsReferred
<1>2. TypeOK
  BY DEF Inv
<1> USE DEF SweepType
<1>3. ASSUME NEW p \in Pids, Launch(p) \/ Exit(p)
      PROVE  TypeOK'
  BY <1>1, <1>2, <1>3 DEF TypeOK, Launch, Exit, sessionVars, serviceVars, registration
<1>4. ASSUME NEW p \in Pids, ShouldMitmDummy(p)
      PROVE  TypeOK'
  BY <1>1, <1>2, <1>4 DEF TypeOK, ShouldMitmDummy, CountClientSession, sessionVars,
     serviceVars, registration
<1>5. ASSUME NEW p \in Pids, NEW s \in Sessions, ShouldMitmAccept(p, s)
      PROVE  TypeOK'
  BY <1>1, <1>2, <1>5 DEF TypeOK, ShouldMitmAccept, processVars, registration
<1>6. ASSUME NEW s \in Sessions, RegisterPlain(s) \/ RegisterClientShared(s)
      PROVE  TypeOK'
  BY <1>1, <1>2, <1>6 DEF TypeOK, RegisterPlain, RegisterClientShared, processVars,
     serviceVars, registration
<1>7. ASSUME NEW s \in Sessions, RegisterProxy(s)
      PROVE  TypeOK'
  BY <1>1, <1>2, <1>7 DEF TypeOK, RegisterProxy, Retired, processVars, sessionVars
<1>8. CASE ProxyRegistered
  BY <1>1, <1>2, <1>8 DEF TypeOK, ProxyRegistered, Idle, Inv, Registering, processVars,
     serviceVars
<1>9. CASE ProxyFails
  BY <1>1, <1>2, <1>9 DEF TypeOK, ProxyFails, processVars, sessionVars, serviceVars
<1>10. CASE ProxyUnavailable
  BY <1>1, <1>2, <1>10 DEF TypeOK, ProxyUnavailable, Idle, processVars, serviceVars,
     registration
<1>11. ASSUME NEW s \in Sessions, Destroy(s)
       PROVE  TypeOK'
  BY <1>1, <1>2, <1>11 DEF TypeOK, Destroy, processVars, registration
<1>12. ASSUME NEW s \in Sessions, DestroyOwner(s)
       PROVE  TypeOK'
  BY <1>1, <1>2, <1>12 DEF TypeOK, DestroyOwner, processVars, registration
<1>13. ASSUME NEW s \in Sessions, FrameworkReleases(s)
       PROVE  TypeOK'
  BY <1>1, <1>2, <1>13 DEF TypeOK, FrameworkReleases, processVars, sessionVars, registration
<1>14. ASSUME NEW s \in Sessions, ShutdownAllSockets(s)
       PROVE  TypeOK'
  BY <1>1, <1>2, <1>14 DEF TypeOK, ShutdownAllSockets, processVars, sessionVars, registration
<1>15. CASE SweepParked
  BY <1>1, <1>2, <1>15 DEF TypeOK, SweepParked, processVars, sessionVars, registration
<1>16. CASE SweepRegistration
  BY <1>1, <1>2, <1>16 DEF TypeOK, SweepRegistration, Retired, processVars, sessionVars,
     registration
<1>17. CASE SweepCount
  BY <1>1, <1>2, <1>17 DEF TypeOK, SweepCount, sessionVars, serviceVars, registration
<1>18. CASE SweepNotes \/ SweepQueries \/ SweepQueryFails \/ SweepDone
  BY <1>1, <1>2, <1>18 DEF TypeOK, SweepNotes, SweepQueries, SweepQueryFails, SweepDone,
     processVars, sessionVars, serviceVars, registration
<1>19. ASSUME NEW p \in Pids, SweepTakes(p)
       PROVE  TypeOK'
  BY <1>1, <1>2, <1>19 DEF TypeOK, SweepTakes, processVars, sessionVars, serviceVars,
     registration
<1> QED
  BY <1>3, <1>4, <1>5, <1>6, <1>7, <1>8, <1>9, <1>10, <1>11, <1>12, <1>13, <1>14, <1>15,
     <1>16, <1>17, <1>18, <1>19 DEF Next, ProcessStep, ServerStep, SweepStep

(* Registering is preserved: the server thread does nothing else while     *)
(* RegisterClient waits for real bsd, and the clean-up stays away.         *)
LEMMA RegisteringStep == Inv /\ Next => Registering'
<1> SUFFICES ASSUME Inv, Next
             PROVE  Registering'
    OBVIOUS
<1> USE LifetimeAssumption DEF Inv, Registering
<1>1. ASSUME UNCHANGED <<client, object, lent, registeredPid, registrationOwner, forwarding>>
      PROVE  Registering'
  BY <1>1
<1>2. ASSUME Idle, UNCHANGED <<client, lent, registeredPid, registrationOwner, forwarding>>
      PROVE  Registering'
  BY <1>2 DEF Idle
<1>3. ASSUME NEW p \in Pids, NEW s \in Sessions, ShouldMitmAccept(p, s)
      PROVE  Registering'
  BY <1>3 DEF ShouldMitmAccept, registration, TypeOK, HasClient
<1>4. ASSUME NEW s \in Sessions, RegisterProxy(s)
      PROVE  Registering'
  BY <1>4 DEF RegisterProxy, Retired, sessionVars
<1>5. CASE ProxyRegistered
  BY <1>5 DEF ProxyRegistered, Idle
<1>6. CASE ProxyFails \/ ProxyUnavailable
  BY <1>6 DEF ProxyFails, ProxyUnavailable, Idle, sessionVars, registration
<1>7. CASE SweepRegistration
  <2>1. CASE UNCHANGED <<open, registration>>
    BY <1>1, <1>7, <2>1 DEF SweepRegistration, sessionVars, registration
  <2>2. CASE Idle /\ Retired
    BY <1>7, <2>2 DEF SweepRegistration, Retired, Idle, sessionVars
  <2> QED
    BY <1>7, <2>1, <2>2 DEF SweepRegistration
<1>8. ASSUME NEW s \in Sessions,
             \/ RegisterPlain(s) \/ RegisterClientShared(s) \/ Destroy(s)
             \/ DestroyOwner(s) \/ ShutdownAllSockets(s)
      PROVE  Registering'
  BY <1>2, <1>8 DEF RegisterPlain, RegisterClientShared, Destroy, DestroyOwner,
     ShutdownAllSockets, sessionVars, registration
<1>9. ASSUME NEW s \in Sessions, FrameworkReleases(s)
      PROVE  Registering'
  BY <1>1, <1>9 DEF FrameworkReleases, sessionVars, registration
<1>10. CASE SweepNotes \/ SweepQueries \/ SweepQueryFails \/ SweepDone \/ SweepParked
            \/ SweepCount \/ \E p \in Pids : SweepTakes(p)
  BY <1>1, <1>10 DEF SweepNotes, SweepQueries, SweepQueryFails, SweepDone, SweepParked,
     SweepCount, SweepTakes, sessionVars, registration
<1>11. ASSUME NEW p \in Pids, Launch(p) \/ Exit(p) \/ ShouldMitmDummy(p)
       PROVE  Registering'
  BY <1>1, <1>11 DEF Launch, Exit, ShouldMitmDummy, sessionVars, registration
<1> QED
  BY <1>3, <1>4, <1>5, <1>6, <1>7, <1>8, <1>9, <1>10, <1>11
  DEF Next, ProcessStep, ServerStep, SweepStep

(* HasClient is preserved: a session keeps its client for good. *)
LEMMA HasClientStep == Inv /\ Next => HasClient'
<1> SUFFICES ASSUME Inv, Next
             PROVE  HasClient'
    OBVIOUS
<1> USE DEF Inv, HasClient
<1>1. ASSUME client' = client, object' \subseteq object, framework' \subseteq framework,
             parked' \subseteq parked \cup object, lent' = lent, ownsProxy' = ownsProxy,
             registered \subseteq registered'
      PROVE  HasClient'
  BY <1>1
<1>2. ASSUME NEW p \in Pids, NEW s \in Sessions, ShouldMitmAccept(p, s)
      PROVE  HasClient'
  BY <1>2, LifetimeAssumption DEF ShouldMitmAccept, TypeOK
<1>3. CASE ProxyRegistered
  BY <1>3 DEF ProxyRegistered, Idle, Registering, serviceVars
<1>4. ASSUME NEW p \in Pids, Launch(p) \/ Exit(p) \/ ShouldMitmDummy(p) \/ SweepTakes(p)
      PROVE  HasClient'
  BY <1>1, <1>4 DEF Launch, Exit, ShouldMitmDummy, SweepTakes, sessionVars, serviceVars
<1>5. ASSUME NEW s \in Sessions, RegisterPlain(s) \/ RegisterClientShared(s)
      PROVE  HasClient'
  BY <1>1, <1>5 DEF RegisterPlain, RegisterClientShared, serviceVars
<1>6. ASSUME NEW s \in Sessions, RegisterProxy(s)
      PROVE  HasClient'
  BY <1>1, <1>6 DEF RegisterProxy, sessionVars
<1>7. CASE ProxyFails \/ ProxyUnavailable
  BY <1>1, <1>7 DEF ProxyFails, ProxyUnavailable, sessionVars, serviceVars
<1>8. ASSUME NEW s \in Sessions, Destroy(s) \/ DestroyOwner(s)
      PROVE  HasClient'
  BY <1>1, <1>8 DEF Destroy, DestroyOwner
<1>9. ASSUME NEW s \in Sessions, FrameworkReleases(s) \/ ShutdownAllSockets(s)
      PROVE  HasClient'
  BY <1>1, <1>9 DEF FrameworkReleases, ShutdownAllSockets, sessionVars
<1>10. CASE SweepParked \/ SweepRegistration
  BY <1>1, <1>10 DEF SweepParked, SweepRegistration, sessionVars
<1>11. CASE SweepNotes \/ SweepQueries \/ SweepQueryFails \/ SweepDone \/ SweepCount
  BY <1>1, <1>11 DEF SweepNotes, SweepQueries, SweepQueryFails, SweepDone, SweepCount,
     sessionVars, serviceVars
<1> QED
  BY <1>2, <1>3, <1>4, <1>5, <1>6, <1>7, <1>8, <1>9, <1>10, <1>11
  DEF Next, ProcessStep, ServerStep, SweepStep

(* OwnerHasIt is preserved: the owner is closed before the memory is lent  *)
(* again, or the memory is not lent.                                       *)
LEMMA OwnerStep == Inv /\ Next => OwnerHasIt'
<1> SUFFICES ASSUME Inv, Next
             PROVE  OwnerHasIt'
    OBVIOUS
<1> USE DEF Inv, OwnerHasIt
<1>1. ASSUME open' \subseteq open, UNCHANGED <<lent, registrationOwner>>
      PROVE  OwnerHasIt'
  BY <1>1
<1>2. CASE Retired /\ lent' = lent
  BY <1>2 DEF Retired
<1>3. ASSUME NEW p \in Pids, NEW s \in Sessions, ShouldMitmAccept(p, s)
      PROVE  OwnerHasIt'
  BY <1>3 DEF ShouldMitmAccept, HasClient, registration
<1>4. ASSUME NEW s \in Sessions, RegisterProxy(s)
      PROVE  OwnerHasIt'
  BY <1>2, <1>4 DEF RegisterProxy, sessionVars
<1>5. CASE ProxyRegistered
  BY <1>5, LifetimeAssumption DEF ProxyRegistered, Idle, Registering, TypeOK, serviceVars
<1>6. CASE ProxyFails \/ ProxyUnavailable
  BY <1>1, <1>6 DEF ProxyFails, ProxyUnavailable, sessionVars, serviceVars, registration
<1>7. ASSUME NEW s \in Sessions, RegisterPlain(s) \/ RegisterClientShared(s)
      PROVE  OwnerHasIt'
  BY <1>1, <1>7 DEF RegisterPlain, RegisterClientShared, serviceVars, registration
<1>8. ASSUME NEW s \in Sessions,
             Destroy(s) \/ DestroyOwner(s) \/ FrameworkReleases(s) \/ ShutdownAllSockets(s)
      PROVE  OwnerHasIt'
  BY <1>1, <1>8 DEF Destroy, DestroyOwner, FrameworkReleases, ShutdownAllSockets,
     sessionVars, registration
<1>9. CASE SweepParked
  BY <1>1, <1>9 DEF SweepParked, sessionVars, registration
<1>10. CASE SweepRegistration
  BY <1>1, <1>2, <1>10 DEF SweepRegistration, sessionVars, registration
<1>11. CASE SweepNotes \/ SweepQueries \/ SweepQueryFails \/ SweepDone \/ SweepCount
  BY <1>1, <1>11 DEF SweepNotes, SweepQueries, SweepQueryFails, SweepDone, SweepCount,
     sessionVars, serviceVars, registration
<1>12. ASSUME NEW p \in Pids, Launch(p) \/ Exit(p) \/ ShouldMitmDummy(p) \/ SweepTakes(p)
       PROVE  OwnerHasIt'
  BY <1>1, <1>12 DEF Launch, Exit, ShouldMitmDummy, SweepTakes, sessionVars, serviceVars,
     registration
<1> QED
  BY <1>3, <1>4, <1>5, <1>6, <1>7, <1>8, <1>9, <1>10, <1>11, <1>12
  DEF Next, ProcessStep, ServerStep, SweepStep

(* ParkedFirst is preserved: only a session that was registered loses its  *)
(* object without being parked, and one the framework still refers to is   *)
(* not taken from the list.                                                *)
LEMMA ParkedStep == Inv /\ Next => ParkedFirst'
<1> SUFFICES ASSUME Inv, Next
             PROVE  ParkedFirst'
    OBVIOUS
<1> USE DEF Inv, ParkedFirst
<1>1. ASSUME object' = object, framework' \subseteq framework,
             registered \subseteq registered', parked' = parked
      PROVE  ParkedFirst'
  BY <1>1
<1>2. ASSUME NEW p, parked' = parked \ Releasable(p),
             UNCHANGED <<object, framework, registered>>
      PROVE  ParkedFirst'
  BY <1>2, Counts DEF Releasable, Shared, Several
<1>3. ASSUME NEW p \in Pids, NEW s \in Sessions, ShouldMitmAccept(p, s)
      PROVE  ParkedFirst'
  BY <1>3 DEF ShouldMitmAccept
<1>4. ASSUME NEW s \in Sessions, Destroy(s)
      PROVE  ParkedFirst'
  BY <1>4 DEF Destroy, Parks
<1>5. ASSUME NEW s \in Sessions, DestroyOwner(s)
      PROVE  ParkedFirst'
  BY <1>5 DEF DestroyOwner, HasClient
<1>6. ASSUME NEW s \in Sessions, ShutdownAllSockets(s)
      PROVE  ParkedFirst'
  BY <1>2, <1>6 DEF ShutdownAllSockets, sessionVars
<1>7. CASE SweepParked
  BY <1>2, <1>7 DEF SweepParked, sessionVars
<1>8. ASSUME NEW s \in Sessions, RegisterPlain(s) \/ RegisterClientShared(s)
      PROVE  ParkedFirst'
  BY <1>1, <1>8 DEF RegisterPlain, RegisterClientShared, serviceVars
<1>9. ASSUME NEW s \in Sessions, RegisterProxy(s) \/ FrameworkReleases(s)
      PROVE  ParkedFirst'
  BY <1>1, <1>9 DEF RegisterProxy, FrameworkReleases, sessionVars
<1>10. CASE ProxyRegistered \/ ProxyFails \/ ProxyUnavailable
  BY <1>1, <1>10 DEF ProxyRegistered, ProxyFails, ProxyUnavailable, sessionVars, serviceVars
<1>11. CASE SweepNotes \/ SweepQueries \/ SweepQueryFails \/ SweepDone \/ SweepCount
            \/ SweepRegistration
  BY <1>1, <1>11 DEF SweepNotes, SweepQueries, SweepQueryFails, SweepDone, SweepCount,
     SweepRegistration, sessionVars, serviceVars
<1>12. ASSUME NEW p \in Pids, Launch(p) \/ Exit(p) \/ ShouldMitmDummy(p) \/ SweepTakes(p)
       PROVE  ParkedFirst'
  BY <1>1, <1>12 DEF Launch, Exit, ShouldMitmDummy, SweepTakes, sessionVars, serviceVars
<1> QED
  BY <1>3, <1>4, <1>5, <1>6, <1>7, <1>8, <1>9, <1>10, <1>11, <1>12
  DEF Next, ProcessStep, ServerStep, SweepStep

(* SweepsDead is preserved: the clean-up only goes on with processes that  *)
(* had exited when it asked, and those stay so.                            *)
LEMMA SweepsDeadStep == Inv /\ Next => SweepsDead'
<1> SUFFICES ASSUME Inv, Next
             PROVE  SweepsDead'
    OBVIOUS
<1> USE DEF Inv, SweepsDead
<1>1. ASSUME UNCHANGED sweep,
             \A p \in Pids : process[p] = "exited" => process'[p] = "exited"
      PROVE  SweepsDead'
  <2>1. sweep.pids \subseteq Pids
    BY DEF TypeOK
  <2> QED
    BY <1>1, <2>1
<1>2. ASSUME NEW p \in Pids, Launch(p) \/ Exit(p)
      PROVE  SweepsDead'
  BY <1>1, <1>2 DEF Launch, Exit, Running, TypeOK
<1>3. ASSUME NEW p \in Pids,
             ShouldMitmDummy(p) \/ \E s \in Sessions : ShouldMitmAccept(p, s)
      PROVE  SweepsDead'
  BY <1>1, <1>3 DEF ShouldMitmDummy, ShouldMitmAccept, processVars
<1>4. CASE ServerStep
  BY <1>1, <1>4 DEF ServerStep, ProxyRegistered, ProxyFails, ProxyUnavailable,
     RegisterPlain, RegisterClientShared, RegisterProxy, Destroy, DestroyOwner,
     FrameworkReleases, ShutdownAllSockets, processVars
<1>5. CASE SweepNotes \/ SweepQueryFails \/ SweepDone
  BY <1>5 DEF SweepNotes, SweepQueryFails, SweepDone, NoSweep
<1>6. CASE SweepQueries
  BY <1>6 DEF SweepQueries, Gone, MayConfirmExit, processVars
<1>7. ASSUME NEW p \in Pids, SweepTakes(p)
      PROVE  SweepsDead'
  BY <1>7 DEF SweepTakes, processVars
<1>8. CASE SweepParked
  BY <1>8 DEF SweepParked, processVars, TypeOK
<1>9. CASE SweepRegistration
  BY <1>9 DEF SweepRegistration, processVars, TypeOK
<1>10. CASE SweepCount
  BY <1>10 DEF SweepCount, TypeOK
<1> QED
  BY <1>2, <1>3, <1>4, <1>5, <1>6, <1>7, <1>8, <1>9, <1>10
  DEF Next, ProcessStep, SweepStep

-----------------------------------------------------------------------------
(* The invariant, and what follows from it.                                *)

(* Inv holds at the start and is kept by every step. *)
LEMMA Invariance == Spec => []Inv
<1> USE LifetimeAssumption
<1>1. Init => Inv
  <2> SUFFICES ASSUME Init
               PROVE  Inv
      OBVIOUS
  <2>1. \A s \in Sessions : s \in open <=> UseCount(s) > 0
    BY Counts DEF Init, Referred
  <2>2. TypeOK
    BY <2>1 DEF Init, TypeOK, NoSweep
  <2>3. Registering /\ HasClient /\ OwnerHasIt /\ ParkedFirst
    BY DEF Init, Registering, HasClient, OwnerHasIt, ParkedFirst
  <2>4. SweepsDead
    BY DEF Init, SweepsDead, NoSweep
  <2> QED
    BY <2>2, <2>3, <2>4 DEF Inv
<1>2. Inv /\ [Next]_vars => Inv'
  <2>1. Inv /\ Next => Inv'
    BY TypeStep, RegisteringStep, HasClientStep, OwnerStep, ParkedStep, SweepsDeadStep
    DEF Inv
  <2>2. Inv /\ UNCHANGED vars => Inv'
    <3> SUFFICES ASSUME Inv, UNCHANGED vars
                 PROVE  Inv'
        OBVIOUS
    <3> USE DEF vars, processVars, sessionVars, serviceVars, registration
    <3>1. \A s \in Sessions : s \in open' <=> UseCount(s)' > 0
      BY Counts, CountsNext DEF Inv, TypeOK, Referred
    <3>2. TypeOK'
      BY <3>1 DEF Inv, TypeOK
    <3> QED
      BY <3>2 DEF Inv, Registering, HasClient, OwnerHasIt, ParkedFirst, SweepsDead
  <2> QED
    BY <2>1, <2>2
<1> QED
  BY <1>1, <1>2, PTL DEF Spec

(* The state has its type, a registration is on record with its owner or   *)
(* not at all, and the services that are open are those somebody refers to.*)
THEOREM TypeCorrectness == Spec => []TypeOK
<1>1. Inv => TypeOK
  BY DEF Inv
<1> QED
  BY <1>1, Invariance, PTL

(* RegisterClient never lends the proxy memory to two registrations that   *)
(* can both still be used, and lends it only when none can.                *)
THEOREM MemoryIsLentOnce == Spec => []LentOnce
<1>1. Inv => LentOnce
  <2> SUFFICES ASSUME Inv
               PROVE  LentOnce
      OBVIOUS
  <2>1. \A s \in InUse : s \in Sessions /\ s = registrationOwner
    BY DEF Inv, TypeOK, OwnerHasIt, InUse
  <2> QED
    BY <2>1, LifetimeAssumption DEF Inv, Registering, LentOnce
<1> QED
  BY <1>1, Invariance, PTL

(* Neither the clean-up nor RegisterClient of another game takes the       *)
(* registration or the session counter of a game that runs.                *)
THEOREM LivingGamesKeepTheirs == Spec => LiveKeepTheirs
<1> DEFINE Keeps == \A p \in Pids : Running(p) =>
                       /\ registeredPid = p => registeredPid' = p
                       /\ p \in counted => p \in counted'
<1>1. Inv /\ Next => Keeps
  <2> SUFFICES ASSUME Inv, Next
               PROVE  Keeps
      OBVIOUS
  <2> USE LifetimeAssumption DEF Inv, Running
  <2>1. ASSUME UNCHANGED registeredPid, counted \subseteq counted'
        PROVE  Keeps
    BY <2>1
  <2>2. ASSUME NEW s \in Sessions, RegisterProxy(s)
        PROVE  Keeps
    BY <2>2 DEF RegisterProxy, OwnerRetired, Retired, MayConfirmExit, processVars
  <2>3. CASE ProxyRegistered
    BY <2>3 DEF ProxyRegistered, Idle, Registering, TypeOK, processVars
  <2>4. CASE SweepRegistration
    BY <2>4 DEF SweepRegistration, Retired, SweepsDead, registration, processVars
  <2>5. CASE SweepCount
    BY <2>5 DEF SweepCount, SweepsDead, registration
  <2>6. CASE ProcessStep
    BY <2>1, <2>6 DEF ProcessStep, Launch, Exit, ShouldMitmDummy, CountClientSession,
       ShouldMitmAccept, registration, processVars
  <2>7. CASE ProxyFails \/ ProxyUnavailable
    BY <2>1, <2>7 DEF ProxyFails, ProxyUnavailable, registration, processVars
  <2>8. ASSUME NEW s \in Sessions,
               \/ RegisterPlain(s) \/ RegisterClientShared(s) \/ Destroy(s)
               \/ DestroyOwner(s) \/ FrameworkReleases(s) \/ ShutdownAllSockets(s)
        PROVE  Keeps
    BY <2>1, <2>8 DEF RegisterPlain, RegisterClientShared, Destroy, DestroyOwner,
       FrameworkReleases, ShutdownAllSockets, registration, processVars
  <2>9. CASE SweepNotes \/ SweepQueries \/ SweepQueryFails \/ SweepDone \/ SweepParked
             \/ \E p \in Pids : SweepTakes(p)
    BY <2>1, <2>9 DEF SweepNotes, SweepQueries, SweepQueryFails, SweepDone, SweepParked,
       SweepTakes, registration, processVars
  <2> QED
    BY <2>2, <2>3, <2>4, <2>5, <2>6, <2>7, <2>8, <2>9 DEF Next, ServerStep, SweepStep
<1>2. Inv /\ [Next]_vars => [Keeps]_vars
  BY <1>1
<1> QED
  BY <1>2, Invariance, PTL DEF Spec, LiveKeepTheirs

(* The service of a session that was never registered is not closed while  *)
(* its game runs, except by a ShutdownAllSockets of that game.             *)
THEOREM UnregisteredStaysOpen == Spec => UnregisteredKept
<1> DEFINE Kept(s) == Running(client[s]) /\ s \notin open' =>
                         \E t \in SessionsOf(client[s]) : ShutdownAllSockets(t)
           AllKept == \A s \in open \ registered : Kept(s)
<1>1. Inv /\ Next => AllKept
  <2> SUFFICES ASSUME Inv, Next, NEW s \in open \ registered,
                      Running(client[s]), s \notin open'
               PROVE  \E t \in SessionsOf(client[s]) : ShutdownAllSockets(t)
      OBVIOUS
  <2> USE LifetimeAssumption DEF Inv
  <2>1. registrationOwner # s
    BY DEF Registering, HasClient, TypeOK
  <2>2. ~ProcessStep
    BY DEF ProcessStep, Launch, Exit, ShouldMitmDummy, ShouldMitmAccept, serviceVars
  <2>3. ~(ProxyRegistered \/ ProxyFails \/ ProxyUnavailable)
    BY DEF ProxyRegistered, ProxyFails, ProxyUnavailable, serviceVars
  <2>4. ASSUME NEW u \in Sessions
        PROVE  ~(RegisterPlain(u) \/ RegisterClientShared(u) \/ RegisterProxy(u))
    BY <2>1 DEF RegisterPlain, RegisterClientShared, RegisterProxy, Retired, serviceVars
  <2>5. ASSUME NEW u \in Sessions
        PROVE  ~Destroy(u) /\ ~DestroyOwner(u)
    BY DEF Destroy, DestroyOwner, Parks, HasClient
  <2>6. ASSUME NEW u \in Sessions
        PROVE  ~FrameworkReleases(u)
    BY Counts DEF FrameworkReleases, ParkedFirst, Shared, Several
  <2>7. ASSUME NEW t \in Sessions, ShutdownAllSockets(t)
        PROVE  t \in SessionsOf(client[s])
    BY <2>7 DEF ShutdownAllSockets, Releasable, SessionsOf
  <2>8. ~SweepParked
    BY DEF SweepParked, Releasable, SessionsOf, SweepsDead, Running
  <2>9. ~SweepRegistration
    BY <2>1 DEF SweepRegistration, Retired
  <2>10. ~(SweepNotes \/ SweepQueries \/ SweepQueryFails \/ SweepDone \/ SweepCount
           \/ \E p \in Pids : SweepTakes(p))
    BY DEF SweepNotes, SweepQueries, SweepQueryFails, SweepDone, SweepCount, SweepTakes,
       serviceVars
  <2> QED
    BY <2>2, <2>3, <2>4, <2>5, <2>6, <2>7, <2>8, <2>9, <2>10
    DEF Next, ServerStep, SweepStep
<1>2. Inv /\ [Next]_vars => [AllKept]_vars
  BY <1>1
<1> QED
  BY <1>2, Invariance, PTL DEF Spec, UnregisteredKept
=============================================================================
