--------------------------- MODULE SimLinkProofs ---------------------------
(***************************************************************************)
(* Proofs about SimLink, for every set of orders, readers, operators and   *)
(* sessions and every number of delivery frames.                           *)
(*                                                                         *)
(* IInv is the inductive invariant: the lock's owner is the one task in a  *)
(* locked section (LockDiscipline), so the session a client call holds is  *)
(* the current one (HeldIsCurrent), which is the only one that runs        *)
(* (SessionTracked), and what is staged in it is still owed an answer or   *)
(* was acknowledged (StagedIsOwed). The safety properties follow from it.  *)
(*                                                                         *)
(* CancelInv is that of CancelSpec, where a thread outlives its call: it   *)
(* may take away the session that another task works on, and nothing else. *)
(***************************************************************************)
EXTENDS SimLink, TLAPS

USE TasksAreDistinct, NoSessionIsNone, DeliveryFramesPositive
USE DEF Orders, Clients, ConnectionState, OwnsLock, Late, Ended, Counting, SupOwnsLock,
        linkVars, mirrorVars, sessionVars, envVars, clientVars

-----------------------------------------------------------------------------
(* One lemma per kind of step.                                             *)

\* The simulator and the sessions: they move frames and setpoints, never the lock.
LEMMA EnvironmentStep ==
  ASSUME IInv, Environment
  PROVE  IInv'
<1> USE DEF IInv, TypeOK, LockDiscipline, NothingLeftOver, HeldIsCurrent, SessionTracked,
            StateShown, ConnectedIsLive, TearingDown, StagedIsOwed
<1>1. CASE SimToggles
  BY <1>1 DEF SimToggles
<1>2. CASE WrapperToggles
  BY <1>2 DEF WrapperToggles
<1>3. CASE \E s \in Sessions : Frame(s)
  <2> PICK s \in Sessions : Frame(s)
    BY <1>3
  <2>1. TypeOK'
    BY DEF Frame
  <2>2. StagedIsOwed'
    BY DEF Frame
  <2> QED
    BY <2>1, <2>2 DEF Frame
<1>4. CASE \E s \in Sessions : Engage(s) \/ GoesQuiet(s)
  BY <1>4, SMTT(60) DEF Engage, GoesQuiet
<1> QED
  BY <1>1, <1>2, <1>3, <1>4 DEF Environment

\* The supervisor: it changes the session only as the owner of the lock.
LEMMA SupervisorStep ==
  ASSUME IInv, SupLockStep \/ SupOwnStep
  PROVE  IInv'
<1> USE DEF IInv, TypeOK, LockDiscipline, NothingLeftOver, HeldIsCurrent, SessionTracked,
            StateShown, ConnectedIsLive, TearingDown, StagedIsOwed
<1>1. CASE SupTick
  BY <1>1 DEF SupTick
<1>2. CASE SupFailLock
  BY <1>2 DEF SupFailLock
<1>3. CASE SupBuild
  <2>1. TypeOK'
    BY <1>3 DEF SupBuild, Unused, Blank
  <2>2. LockDiscipline' /\ NothingLeftOver' /\ SessionTracked' /\ StateShown'
    BY <1>3 DEF SupBuild
  <2>3. HeldIsCurrent' /\ StagedIsOwed'
    BY <1>3 DEF SupBuild, Unused, Blank
  <2> QED
    BY <2>1, <2>2, <2>3
<1>4. CASE SupBuildFails
  BY <1>4 DEF SupBuildFails
<1>5. CASE SupSeesHealthy
  <2>1. wrapper \in live /\ wrapper \in engaged
    BY <1>5 DEF SupSeesHealthy, Healthy
  <2>2. \A c \in Clients : pc[c] \notin OwnsLock
    BY <1>5 DEF SupSeesHealthy
  <2>3. TypeOK' /\ StateShown' /\ HeldIsCurrent'
    BY <1>5, <2>1, <2>2 DEF SupSeesHealthy
  <2>4. LockDiscipline' /\ NothingLeftOver'
    BY <1>5 DEF SupSeesHealthy
  <2> QED
    BY <1>5, <2>3, <2>4 DEF SupSeesHealthy
<1>6. CASE SupSeesQuiet
  BY <1>6 DEF SupSeesQuiet
<1>7. CASE SupSeesNothing
  BY <1>7 DEF SupSeesNothing
<1>8. CASE SupSnapshotRaises
  BY <1>8 DEF SupSnapshotRaises
<1>9. CASE SupDrop
  BY <1>9 DEF SupDrop, DropSession, StopWrapper, Blank
<1>10. CASE SupWakes
  BY <1>10 DEF SupWakes
<1>11. CASE SupFailDrop
  BY <1>11 DEF SupFailDrop, DropSession, StopWrapper, Blank
<1>12. CASE SupFailShow
  BY <1>12 DEF SupFailShow
<1>13. CASE SupBackoffEnds
  BY <1>13, ZenonT(60) DEF SupBackoffEnds
<1> QED
  BY <1>1, <1>2, <1>3, <1>4, <1>5, <1>6, <1>7, <1>8, <1>9, <1>10, <1>11, <1>12, <1>13
  DEF SupLockStep, SupOwnStep

\* An order: it stages only into the current session, and drops that session
\* before it is reported undelivered.
LEMMA OrderStep ==
  ASSUME IInv, NEW c \in Orders, OrderIssued(c) \/ OrderLocks(c) \/ OrderOwnStep(c)
  PROVE  IInv'
<1> USE DEF IInv, TypeOK, LockDiscipline, NothingLeftOver, HeldIsCurrent, SessionTracked,
            StateShown, ConnectedIsLive, TearingDown, StagedIsOwed, Goto, Finish
<1>1. CASE OrderIssued(c)
  BY <1>1 DEF OrderIssued
<1>2. CASE OrderLocks(c)
  BY <1>2 DEF OrderLocks, RequireLive
<1>3. CASE OrderSnapshot(c)
  BY <1>3 DEF OrderSnapshot
<1>4. CASE OrderStages(c)
  <2>1. held[c] = wrapper /\ wrapper \in Sessions
    BY <1>4 DEF OrderStages
  <2>2. TypeOK'
    BY <1>4, <2>1 DEF OrderStages, StageOrder, SameControl
  <2>3. StagedIsOwed'
    BY <1>4, <2>1 DEF OrderStages, StageOrder, SameControl
  <2> QED
    BY <1>4, <2>2, <2>3 DEF OrderStages
<1>5. CASE OrderConfirmed(c)
  BY <1>5 DEF OrderConfirmed
<1>6. CASE OrderTimesOut(c)
  BY <1>6 DEF OrderTimesOut
<1>7. CASE OrderDrops(c)
  BY <1>7 DEF OrderDrops, DropSession, StopWrapper, Blank
<1>8. CASE OrderRaises(c)
  BY <1>8 DEF OrderRaises
<1> QED
  BY <1>1, <1>2, <1>3, <1>4, <1>5, <1>6, <1>7, <1>8 DEF OrderOwnStep

\* A read: it takes and releases the lock and touches no session.
LEMMA ReadStep ==
  ASSUME IInv, NEW c \in Readers, ReadIssued(c) \/ ReadLocks(c) \/ ReadSnapshot(c)
  PROVE  IInv'
<1> USE DEF IInv, TypeOK, LockDiscipline, NothingLeftOver, HeldIsCurrent, SessionTracked,
            StateShown, ConnectedIsLive, TearingDown, StagedIsOwed, Goto, Finish
<1>1. CASE ReadIssued(c)
  BY <1>1 DEF ReadIssued
<1>2. CASE ReadLocks(c)
  BY <1>2 DEF ReadLocks, RequireLive
<1>3. CASE ReadSnapshot(c)
  BY <1>3 DEF ReadSnapshot, Healthy
<1> QED
  BY <1>1, <1>2, <1>3

\* connect and disconnect: the session is torn down by the owner of the lock,
\* after its supervisor is gone.
LEMMA OperatorStep ==
  ASSUME IInv, NEW o \in Operators,
         \/ ConnectCalled(o) \/ Connect(o) \/ ConnectReturns(o)
         \/ DisconnectCalled(o) \/ Disconnect(o) \/ OpOwnStep(o)
  PROVE  IInv'
<1> USE DEF IInv, TypeOK, LockDiscipline, NothingLeftOver, HeldIsCurrent, SessionTracked,
            StateShown, ConnectedIsLive, TearingDown, StagedIsOwed, OpGoto, OpOwnsLock
<1>1. CASE ConnectCalled(o) \/ ConnectReturns(o) \/ DisconnectCalled(o)
  BY <1>1 DEF ConnectCalled, ConnectReturns, DisconnectCalled
<1>2. CASE Connect(o)
  <2>1. CASE sup # "off"
    BY <1>2, <2>1 DEF Connect
  <2>2. CASE sup = "off"
    <3>1. TypeOK' /\ SessionTracked' /\ StagedIsOwed'
      BY <1>2, <2>2 DEF Connect
    <3>2. LockDiscipline' /\ NothingLeftOver'
      BY <1>2, <2>2 DEF Connect
    <3>3. HeldIsCurrent' /\ StateShown'
      BY <1>2, <2>2 DEF Connect
    <3> QED
      BY <3>1, <3>2, <3>3
  <2> QED
    BY <2>1, <2>2
<1>3. CASE Disconnect(o)
  BY <1>3 DEF Disconnect
<1>4. CASE SupCancelled(o)
  BY <1>4 DEF SupCancelled
<1>5. CASE CancelSwallowed(o)
  BY <1>5 DEF CancelSwallowed
<1>6. CASE SupervisorAwaited(o)
  BY <1>6 DEF SupervisorAwaited
<1>7. CASE TeardownDrop(o)
  BY <1>7 DEF TeardownDrop, DropSession, StopWrapper, Blank
<1>8. CASE TeardownShow(o)
  BY <1>8 DEF TeardownShow
<1> QED
  BY <1>1, <1>2, <1>3, <1>4, <1>5, <1>6, <1>7, <1>8 DEF OpOwnStep

-----------------------------------------------------------------------------
(* The theorems.                                                           *)

\* The inductive invariant holds in every state of the link.
THEOREM Inductive == Spec => []IInv
<1>1. Init => IInv
  <2> SUFFICES ASSUME Init PROVE IInv
    OBVIOUS
  <2> USE DEF Init
  <2>1. TypeOK
    <3>1. retryNow \in BOOLEAN /\ simUp \in BOOLEAN /\ faulty \in BOOLEAN
      OBVIOUS
    <3>2. seen \in [Clients -> 0 .. DeliveryFrames]
      OBVIOUS
    <3> QED
      BY <3>1, <3>2 DEF TypeOK
  <2>2. LockDiscipline
    BY DEF LockDiscipline, OpOwnsLock
  <2>3. NothingLeftOver /\ HeldIsCurrent
    BY DEF NothingLeftOver, HeldIsCurrent
  <2>4. SessionTracked /\ StateShown
    BY DEF SessionTracked, StateShown, ConnectedIsLive
  <2>5. StagedIsOwed
    BY DEF StagedIsOwed
  <2> QED
    BY <2>1, <2>2, <2>3, <2>4, <2>5 DEF IInv
<1>2. IInv /\ [Next]_vars => IInv'
  <2> SUFFICES ASSUME IInv, [Next]_vars PROVE IInv'
    OBVIOUS
  <2>1. CASE Next
    BY <2>1, EnvironmentStep, SupervisorStep, OrderStep, ReadStep, OperatorStep DEF Next
  <2>2. CASE UNCHANGED vars
    BY <2>2 DEF vars, IInv, TypeOK, LockDiscipline, NothingLeftOver, HeldIsCurrent,
                SessionTracked, StateShown, ConnectedIsLive, TearingDown, StagedIsOwed
  <2> QED
    BY <2>1, <2>2
<1> QED
  BY <1>1, <1>2, PTL DEF Spec

\* Every reachable state of the link is well typed.
THEOREM TypeCorrect == Spec => []TypeOK
<1>1. IInv => TypeOK
  BY DEF IInv
<1> QED
  BY <1>1, Inductive, PTL

\* No started session is ever lost track of (no orphan keeps the local port).
THEOREM NoOrphan == Spec => []NoOrphanSession
<1>1. IInv => NoOrphanSession
  BY DEF IInv, SessionTracked, NoOrphanSession
<1> QED
  BY <1>1, Inductive, PTL

\* CONNECTED is only ever shown over a running session with engaged controls, or
\* by a task that has just dropped it and is about to say so.
THEOREM ConnectedOverLive == Spec => []ConnectedIsLive
<1>1. IInv => ConnectedIsLive
  BY DEF IInv, StateShown
<1> QED
  BY <1>1, Inductive, PTL

\* After a disconnect nothing is left that could reopen the link.
THEOREM DisconnectedQuiet == Spec => []DisconnectedIsQuiet
<1>1. IInv => DisconnectedIsQuiet
  BY DEF IInv, StateShown, SessionTracked, DisconnectedIsQuiet
<1> QED
  BY <1>1, Inductive, PTL

\* An order the link refused or reported undelivered never reaches the ship
\* afterwards.
THEOREM GhostFree == Spec => NoGhostOrder
<1> DEFINE Ghostless ==
      \A c \in Orders :
        pc[c] \in {"refused", "undelivered"} /\ c \notin executed => c \notin executed'
<1>1. IInv /\ [Next]_vars => [Ghostless]_vars
  <2> SUFFICES ASSUME IInv, Next PROVE Ghostless
    OBVIOUS
  <2>1. CASE \E s \in Sessions : Frame(s)
    BY <2>1 DEF Frame, IInv, StagedIsOwed
  <2>2. CASE executed' = executed
    BY <2>2
  <2>3. (\E s \in Sessions : Frame(s)) \/ executed' = executed
    BY DEF Next, Environment, SimToggles, WrapperToggles, Engage, GoesQuiet,
           SupLockStep, SupOwnStep, SupTick, SupFailLock, SupBuild, SupBuildFails,
           SupSeesHealthy, SupSeesQuiet, SupSeesNothing, SupSnapshotRaises, SupDrop,
           SupWakes, SupFailDrop, SupFailShow, SupBackoffEnds, OrderIssued, OrderLocks, OrderOwnStep,
           OrderSnapshot, OrderStages, OrderConfirmed, OrderTimesOut, OrderDrops,
           OrderRaises, ReadIssued, ReadLocks, ReadSnapshot, ConnectCalled, Connect,
           ConnectReturns, DisconnectCalled, Disconnect, OpOwnStep, SupCancelled,
           CancelSwallowed, SupervisorAwaited, TeardownDrop, TeardownShow
  <2> QED
    BY <2>1, <2>2, <2>3
<1> QED
  BY <1>1, Inductive, PTL DEF Spec, NoGhostOrder

\* An order is acknowledged only over a link that is up, while the session that
\* holds its setpoint is the current and running one.
THEOREM AckSound == Spec => AckOnLiveSession
<1> DEFINE Sound ==
      \A c \in Orders :
        pc[c] # "acked" /\ pc'[c] = "acked" =>
          /\ state = "connected"
          /\ held[c] = wrapper
          /\ wrapper \in live
          /\ c \in staged[wrapper]
<1>1. IInv /\ [Next]_vars => [Sound]_vars
  <2> SUFFICES ASSUME IInv, Next PROVE Sound
    OBVIOUS
  <2>1. ASSUME NEW d \in Orders, OrderConfirmed(d) PROVE Sound
    BY <2>1 DEF OrderConfirmed, Finish, Goto, IInv, TypeOK, HeldIsCurrent, StagedIsOwed
  <2>2. ASSUME \A c \in Orders : pc'[c] = "acked" => pc[c] = "acked" PROVE Sound
    BY <2>2
  <2>3. \/ \E d \in Orders : OrderConfirmed(d)
        \/ \A c \in Orders : pc'[c] = "acked" => pc[c] = "acked"
    <3>1. CASE Environment \/ SupLockStep \/ SupOwnStep
      BY <3>1 DEF Environment, SimToggles, WrapperToggles, Frame, Engage, GoesQuiet,
             SupLockStep, SupOwnStep, SupTick, SupFailLock, SupBuild, SupBuildFails,
             SupSeesHealthy, SupSeesQuiet, SupSeesNothing, SupSnapshotRaises, SupDrop,
             SupWakes, SupFailDrop, SupFailShow, SupBackoffEnds
    <3>2. CASE \E o \in Operators : \/ ConnectCalled(o) \/ Connect(o) \/ ConnectReturns(o)
                                     \/ DisconnectCalled(o) \/ Disconnect(o) \/ OpOwnStep(o)
      BY <3>2 DEF ConnectCalled, Connect, ConnectReturns, DisconnectCalled, Disconnect,
             OpOwnStep, SupCancelled, CancelSwallowed, SupervisorAwaited, TeardownDrop,
             TeardownShow
    <3>3. CASE \E c \in Readers : ReadIssued(c) \/ ReadLocks(c) \/ ReadSnapshot(c)
      BY <3>3 DEF ReadIssued, ReadLocks, ReadSnapshot, Finish, Goto, IInv, TypeOK
    <3>4. CASE \E c \in Orders : OrderIssued(c) \/ OrderLocks(c) \/ OrderOwnStep(c)
      BY <3>4 DEF OrderIssued, OrderLocks, OrderOwnStep, OrderSnapshot, OrderStages,
             OrderTimesOut, OrderDrops, OrderRaises, Finish, Goto, IInv, TypeOK
    <3> QED
      BY <3>1, <3>2, <3>3, <3>4 DEF Next
  <2> QED
    BY <2>1, <2>2, <2>3
<1> QED
  BY <1>1, Inductive, PTL DEF Spec, AckOnLiveSession

-----------------------------------------------------------------------------
(* The link implements HelmService.                                        *)

\* Steps that change neither the shown state nor any order's place nor the ship
\* leave the abstract state alone.
LEMMA Stutters ==
  ASSUME state' = state, \A c \in Orders : pc'[c] = pc[c], executed' = executed
  PROVE  UNCHANGED Helm!helmVars
BY DEF Helm!helmVars, LinkShown, AnswerShown

\* Steps that only change the shown state are link changes, provided that the
\* link does not come up out of "disconnected".
LEMMA Links ==
  ASSUME IInv, \A c \in Orders : pc'[c] = pc[c], executed' = executed,
         state' \in ConnectionState, state = "disconnected" => state' # "connected"
  PROVE  [Helm!HelmNext]_(Helm!helmVars)
<1>1. UNCHANGED <<AnswerShown, executed>>
  BY DEF AnswerShown
<1>2. CASE LinkShown' \in {"off", "down"}
  BY <1>1, <1>2 DEF Helm!HelmNext, Helm!LinkChanges
<1>3. CASE LinkShown' = "up" /\ LinkShown = "down"
  BY <1>1, <1>3 DEF Helm!HelmNext, Helm!LinkChanges
<1>4. CASE LinkShown' = LinkShown
  BY <1>1, <1>4 DEF Helm!helmVars
<1> QED
  BY <1>2, <1>3, <1>4 DEF LinkShown, IInv, TypeOK

\* One step of an order, seen from its caller: it stutters, the link changes, the
\* order is issued or it is answered, and an acknowledgment finds the link up.
LEMMA OrderRefines ==
  ASSUME IInv, NEW c \in Orders, OrderIssued(c) \/ OrderLocks(c) \/ OrderOwnStep(c)
  PROVE  [Helm!HelmNext]_(Helm!helmVars)
<1> USE DEF Goto, Finish
<1>0. c \in Clients /\ pc \in [Clients -> {"idle", "lock"} \cup OwnsLock \cup Late \cup Ended]
  BY DEF IInv, TypeOK
<1> DEFINE Told(a) == AnswerShown' = [AnswerShown EXCEPT ![c] = a]
<1>1. CASE OrderIssued(c)
  <2>1. AnswerShown[c] = "none" /\ Told("waiting")
    BY <1>0, <1>1 DEF OrderIssued, AnswerShown
  <2>2. UNCHANGED <<LinkShown, executed>>
    BY <1>1 DEF OrderIssued, LinkShown
  <2> QED
    BY <2>1, <2>2 DEF Helm!HelmNext, Helm!Issue
<1>2. ASSUME pc[c] \in {"lock"} \cup OwnsLock, state' = state, executed' = executed,
             NEW how \in {"acked", "refused", "undelivered", "error"}, Goto(c, how),
             how = "acked" => state = "connected"
      PROVE  Helm!HelmNext
  <2> DEFINE a == CASE how = "acked" -> "acked"
                    [] how \in {"refused", "undelivered"} -> "failed"
                    [] OTHER -> "unknown"
  <2>1. AnswerShown[c] = "waiting" /\ Told(a)
    BY <1>0, <1>2, ZenonT(60) DEF AnswerShown
  <2>2. UNCHANGED <<LinkShown, executed>> /\ (a = "acked" => LinkShown = "up")
    BY <1>2 DEF LinkShown
  <2>3. a \in {"acked", "failed", "unknown"}
    BY <1>2
  <2> QED
    BY <2>1, <2>2, <2>3 DEF Helm!HelmNext, Helm!Reply
<1>3. ASSUME pc[c] \in {"lock"} \cup OwnsLock, executed' = executed,
             NEW to \in OwnsLock, Goto(c, to),
             state' = state \/ state' = "stale"
      PROVE  [Helm!HelmNext]_(Helm!helmVars)
  <2>1. UNCHANGED <<AnswerShown, executed>>
    BY <1>0, <1>3 DEF AnswerShown
  <2>2. LinkShown' = LinkShown \/ LinkShown' = "down"
    BY <1>3 DEF LinkShown
  <2> QED
    BY <2>1, <2>2 DEF Helm!HelmNext, Helm!LinkChanges, Helm!helmVars
<1>4. CASE OrderLocks(c)
  BY <1>2, <1>3, <1>4 DEF OrderLocks
<1>5. CASE OrderSnapshot(c)
  BY <1>2, <1>3, <1>5 DEF OrderSnapshot
<1>6. CASE OrderStages(c)
  BY <1>3, <1>6 DEF OrderStages
<1>7. CASE OrderConfirmed(c)
  BY <1>2, <1>7 DEF OrderConfirmed, IInv, HeldIsCurrent
<1>8. CASE OrderTimesOut(c)
  BY <1>3, <1>8 DEF OrderTimesOut
<1>9. CASE OrderDrops(c)
  BY <1>2, <1>9 DEF OrderDrops
<1>10. CASE OrderRaises(c)
  BY <1>2, <1>10 DEF OrderRaises
<1> QED
  BY <1>1, <1>4, <1>5, <1>6, <1>7, <1>8, <1>9, <1>10 DEF OrderOwnStep

\* The ship executes what a frame flushes: orders still owed an answer, or
\* acknowledged, or in error.
LEMMA FrameRefines ==
  ASSUME IInv, NEW s \in Sessions, Frame(s)
  PROVE  Helm!HelmNext
<1>1. written[s] \in SUBSET Orders
  BY DEF IInv, TypeOK
<1>2. \A c \in written[s] : AnswerShown[c] \in {"waiting", "acked", "unknown"}
  BY <1>1 DEF AnswerShown, IInv, StagedIsOwed
<1>3. executed' = executed \cup written[s] /\ UNCHANGED <<LinkShown, AnswerShown>>
  BY DEF Frame, LinkShown, AnswerShown
<1> QED
  BY <1>1, <1>2, <1>3 DEF Helm!HelmNext, Helm!ShipMoves

\* The link client implements the promise of the SimulatorClient protocol.
THEOREM Refinement == Spec => ImplementsHelm
<1>1. Init => Helm!HelmInit
  BY DEF Init, Helm!HelmInit, LinkShown, AnswerShown
<1>2. IInv /\ [Next]_vars => [Helm!HelmNext]_(Helm!helmVars)
  <2> SUFFICES ASSUME IInv, [Next]_vars PROVE [Helm!HelmNext]_(Helm!helmVars)
    OBVIOUS
  <2>1. CASE Environment
    <3>1. CASE \E s \in Sessions : Frame(s)
      BY <3>1, FrameRefines
    <3>2. CASE SimToggles \/ WrapperToggles \/ \E s \in Sessions : Engage(s) \/ GoesQuiet(s)
      BY <3>2, Stutters DEF SimToggles, WrapperToggles, Engage, GoesQuiet
    <3> QED
      BY <2>1, <3>1, <3>2 DEF Environment
  <2>2. CASE SupLockStep \/ SupOwnStep
    <3>1. UNCHANGED <<pc, executed>>
      BY <2>2 DEF SupLockStep, SupOwnStep, SupTick, SupFailLock, SupBuild, SupBuildFails,
             SupSeesHealthy, SupSeesQuiet, SupSeesNothing, SupSnapshotRaises, SupDrop,
             SupWakes, SupFailDrop, SupFailShow, SupBackoffEnds
    <3>2. state' \in ConnectionState
      BY <2>2, SupervisorStep DEF IInv, TypeOK
    <3>3. state # "disconnected"
      BY <2>2 DEF IInv, StateShown, SupLockStep, SupOwnStep, SupTick, SupFailLock,
             SupBuild, SupBuildFails, SupSeesHealthy, SupSeesQuiet, SupSeesNothing,
             SupSnapshotRaises, SupDrop, SupWakes, SupFailDrop, SupFailShow, SupBackoffEnds
    <3> QED
      BY <3>1, <3>2, <3>3, Links
  <2>3. CASE \E c \in Orders : OrderIssued(c) \/ OrderLocks(c) \/ OrderOwnStep(c)
    BY <2>3, OrderRefines
  <2>4. CASE \E c \in Readers : ReadIssued(c) \/ ReadLocks(c) \/ ReadSnapshot(c)
    <3>1. UNCHANGED <<state, executed>> /\ \A c \in Orders : pc'[c] = pc[c]
      BY <2>4 DEF ReadIssued, ReadLocks, ReadSnapshot, Finish, Goto, IInv, TypeOK
    <3> QED
      BY <3>1, Stutters
  <2>5. CASE \E o \in Operators : \/ ConnectCalled(o) \/ Connect(o) \/ ConnectReturns(o)
                                   \/ DisconnectCalled(o) \/ Disconnect(o) \/ OpOwnStep(o)
    <3>1. UNCHANGED <<pc, executed>> /\ state' \in {state, "connecting", "disconnected"}
      BY <2>5 DEF ConnectCalled, Connect, ConnectReturns, DisconnectCalled, Disconnect,
             OpOwnStep, SupCancelled, CancelSwallowed, SupervisorAwaited, TeardownDrop,
             TeardownShow
    <3> QED
      BY <3>1, Links DEF IInv, TypeOK
  <2>6. CASE UNCHANGED vars
    BY <2>6, Stutters DEF vars
  <2> QED
    BY <2>1, <2>2, <2>3, <2>4, <2>5, <2>6 DEF Next
<1> QED
  BY <1>1, <1>2, Inductive, PTL DEF Spec, ImplementsHelm, Helm!HelmSpec

-----------------------------------------------------------------------------
(* The link when calls are cancelled: CancelInv, kind of step by kind of    *)
(* step. DropSession by the owner of the lock finds the session it works on *)
(* or nothing, because a late thread only ever takes a session away.        *)

LEMMA EnvironmentKeeps ==
  ASSUME CancelInv, Environment
  PROVE  CancelInv'
<1> USE DEF CancelInv, TypeOK, LockDiscipline, CancellationContained, NoSessionLeaks,
            QuietButStopping, ConnectedOrTaken, FailedIsStopping, Stopping, OneStops,
            HeldOrTaken, SupShown, StagedOnce
<1>1. CASE SimToggles
  BY <1>1 DEF SimToggles
<1>2. CASE WrapperToggles
  BY <1>2 DEF WrapperToggles
<1>3. CASE \E s \in Sessions : Frame(s)
  <2> PICK s \in Sessions : Frame(s)
    BY <1>3
  <2>1. TypeOK'
    BY DEF Frame
  <2>2. StagedOnce' /\ FailedIsStopping'
    BY DEF Frame
  <2> QED
    BY <2>1, <2>2 DEF Frame
<1>4. CASE \E s \in Sessions : Engage(s) \/ GoesQuiet(s)
  BY <1>4, SMTT(60) DEF Engage, GoesQuiet
<1> QED
  BY <1>1, <1>2, <1>3, <1>4 DEF Environment

LEMMA SupervisorKeeps ==
  ASSUME CancelInv, SupLockStep \/ SupOwnStep
  PROVE  CancelInv'
<1> USE DEF CancelInv, TypeOK, LockDiscipline, CancellationContained, NoSessionLeaks,
            QuietButStopping, ConnectedOrTaken, FailedIsStopping, Stopping, OneStops,
            HeldOrTaken, SupShown, StagedOnce
<1>1. CASE SupTick
  BY <1>1 DEF SupTick
<1>2. CASE SupFailLock
  BY <1>2 DEF SupFailLock
<1>3. CASE SupBuild
  BY <1>3, SMTT(60) DEF SupBuild, Unused, Blank
<1>4. CASE SupBuildFails
  BY <1>4 DEF SupBuildFails
<1>5. CASE SupSeesHealthy
  <2>1. wrapper \in live \cap engaged /\ \A c \in Clients : pc[c] \notin OwnsLock
    BY <1>5 DEF SupSeesHealthy, Healthy
  <2>2. TypeOK'
    BY <1>5 DEF SupSeesHealthy
  <2>5. LockDiscipline'
    BY <1>5 DEF SupSeesHealthy
  <2>3. CancellationContained' /\ OneStops'
    BY <1>5, <2>1 DEF SupSeesHealthy
  <2>4. HeldOrTaken' /\ SupShown' /\ StagedOnce'
    BY <1>5, <2>1 DEF SupSeesHealthy
  <2> QED
    BY <2>2, <2>3, <2>4, <2>5
<1>6. CASE SupSeesQuiet
  BY <1>6 DEF SupSeesQuiet
<1>7. CASE SupSeesNothing
  BY <1>7 DEF SupSeesNothing
<1>8. CASE SupSnapshotRaises
  BY <1>8 DEF SupSnapshotRaises
<1>9. CASE SupDrop
  BY <1>9 DEF SupDrop, DropSession, StopWrapper, Blank
<1>10. CASE SupWakes
  BY <1>10 DEF SupWakes
<1>11. CASE SupFailDrop
  BY <1>11 DEF SupFailDrop, DropSession, StopWrapper, Blank
<1>12. CASE SupFailShow
  BY <1>12 DEF SupFailShow
<1>13. CASE SupBackoffEnds
  <2>1. TypeOK'
    BY <1>13 DEF SupBackoffEnds
  <2>2. LockDiscipline' /\ CancellationContained' /\ OneStops'
    BY <1>13 DEF SupBackoffEnds
  <2>3. HeldOrTaken' /\ SupShown' /\ StagedOnce'
    BY <1>13, SMTT(60) DEF SupBackoffEnds
  <2> QED
    BY <2>1, <2>2, <2>3
<1> QED
  BY <1>1, <1>2, <1>3, <1>4, <1>5, <1>6, <1>7, <1>8, <1>9, <1>10, <1>11, <1>12, <1>13
  DEF SupLockStep, SupOwnStep

LEMMA OrderKeeps ==
  ASSUME CancelInv, NEW c \in Orders, OrderIssued(c) \/ OrderLocks(c) \/ OrderOwnStep(c)
  PROVE  CancelInv'
<1> USE DEF CancelInv, TypeOK, LockDiscipline, CancellationContained, NoSessionLeaks,
            QuietButStopping, ConnectedOrTaken, FailedIsStopping, Stopping, OneStops,
            HeldOrTaken, SupShown, StagedOnce, Goto, Finish
<1>1. CASE OrderIssued(c)
  BY <1>1 DEF OrderIssued
<1>2. CASE OrderLocks(c)
  BY <1>2, SMTT(60) DEF OrderLocks, RequireLive
<1>3. CASE OrderSnapshot(c)
  BY <1>3, SMTT(60) DEF OrderSnapshot
<1>4. CASE OrderStages(c)
  <2>0. held[c] \in Sessions /\ staged' \in [Sessions -> SUBSET Orders]
    BY <1>4 DEF OrderStages, StageOrder, SameControl
  <2>1. TypeOK'
    BY <1>4, <2>0 DEF OrderStages
  <2>2. LockDiscipline' /\ OneStops' /\ HeldOrTaken' /\ SupShown'
    BY <1>4 DEF OrderStages
  <2>3. NoSessionLeaks' /\ QuietButStopping' /\ ConnectedOrTaken'
    BY <1>4 DEF OrderStages
  <2>4. \A d \in Orders, s \in live :
          d \in staged'[s] => d \in staged[s] \/ (d = c /\ s = held[c])
    BY <1>4 DEF OrderStages, StageOrder, SameControl
  <2>5. FailedIsStopping' /\ StagedOnce'
    BY <1>4, <2>4 DEF OrderStages
  <2> QED
    BY <2>1, <2>2, <2>3, <2>5
<1>5. CASE OrderConfirmed(c)
  BY <1>5 DEF OrderConfirmed
<1>6. CASE OrderTimesOut(c)
  BY <1>6 DEF OrderTimesOut
<1>7. CASE OrderDrops(c)
  BY <1>7 DEF OrderDrops, DropSession, StopWrapper, Blank
<1>8. CASE OrderRaises(c)
  BY <1>8 DEF OrderRaises
<1> QED
  BY <1>1, <1>2, <1>3, <1>4, <1>5, <1>6, <1>7, <1>8 DEF OrderOwnStep

LEMMA ReadKeeps ==
  ASSUME CancelInv, NEW c \in Readers, ReadIssued(c) \/ ReadLocks(c) \/ ReadSnapshot(c)
  PROVE  CancelInv'
<1> USE DEF CancelInv, TypeOK, LockDiscipline, CancellationContained, NoSessionLeaks,
            QuietButStopping, ConnectedOrTaken, FailedIsStopping, Stopping, OneStops,
            HeldOrTaken, SupShown, StagedOnce, Goto, Finish
<1>1. CASE ReadIssued(c)
  BY <1>1 DEF ReadIssued
<1>2. CASE ReadLocks(c)
  BY <1>2 DEF ReadLocks, RequireLive
<1>3. CASE ReadSnapshot(c)
  BY <1>3, SMTT(60) DEF ReadSnapshot, Healthy
<1> QED
  BY <1>1, <1>2, <1>3

LEMMA OperatorKeeps ==
  ASSUME CancelInv, NEW o \in Operators,
         \/ ConnectCalled(o) \/ Connect(o) \/ ConnectReturns(o)
         \/ DisconnectCalled(o) \/ Disconnect(o) \/ OpOwnStep(o)
  PROVE  CancelInv'
<1> USE DEF CancelInv, TypeOK, LockDiscipline, CancellationContained, NoSessionLeaks,
            QuietButStopping, ConnectedOrTaken, FailedIsStopping, Stopping, OneStops,
            HeldOrTaken, SupShown, StagedOnce, OpGoto, OpOwnsLock
<1>1. CASE ConnectCalled(o) \/ ConnectReturns(o) \/ DisconnectCalled(o)
  BY <1>1 DEF ConnectCalled, ConnectReturns, DisconnectCalled
<1>2. CASE Connect(o)
  <2>1. TypeOK'
    BY <1>2, ZenonT(60) DEF Connect
  <2>2. LockDiscipline' /\ CancellationContained' /\ OneStops'
    BY <1>2 DEF Connect
  <2>3. HeldOrTaken' /\ SupShown' /\ StagedOnce'
    BY <1>2 DEF Connect
  <2> QED
    BY <2>1, <2>2, <2>3
<1>3. CASE Disconnect(o)
  BY <1>3 DEF Disconnect
<1>4. CASE SupCancelled(o)
  <2>1. TypeOK'
    BY <1>4, ZenonT(60) DEF SupCancelled
  <2>2. LockDiscipline' /\ CancellationContained' /\ OneStops'
    BY <1>4 DEF SupCancelled
  <2>3. HeldOrTaken' /\ SupShown' /\ StagedOnce'
    BY <1>4 DEF SupCancelled
  <2> QED
    BY <2>1, <2>2, <2>3
<1>5. CASE CancelSwallowed(o)
  <2>1. TypeOK'
    BY <1>5, ZenonT(60) DEF CancelSwallowed
  <2>2. LockDiscipline' /\ CancellationContained' /\ OneStops'
    BY <1>5 DEF CancelSwallowed
  <2>3. HeldOrTaken' /\ SupShown' /\ StagedOnce'
    BY <1>5 DEF CancelSwallowed
  <2> QED
    BY <2>1, <2>2, <2>3
<1>6. CASE SupervisorAwaited(o)
  BY <1>6 DEF SupervisorAwaited
<1>7. CASE TeardownDrop(o)
  BY <1>7 DEF TeardownDrop, DropSession, StopWrapper, Blank
<1>8. CASE TeardownShow(o)
  BY <1>8 DEF TeardownShow
<1> QED
  BY <1>1, <1>2, <1>3, <1>4, <1>5, <1>6, <1>7, <1>8 DEF OpOwnStep

\* The cancellation itself releases the lock if the call owned it.
LEMMA CancelKeeps ==
  ASSUME CancelInv, NEW c \in Clients, Cancelled(c)
  PROVE  CancelInv'
<1> USE DEF CancelInv, TypeOK, LockDiscipline, CancellationContained, NoSessionLeaks,
            QuietButStopping, ConnectedOrTaken, FailedIsStopping, Stopping, OneStops,
            HeldOrTaken, SupShown, StagedOnce, Goto
<1>1. TypeOK'
  BY DEF Cancelled
<1>2. LockDiscipline'
  BY DEF Cancelled
<1>3. \A d \in Clients : /\ pc'[d] = "lateStop" <=> pc[d] = "lateStop"
                         /\ pc'[d] = "lateStop" => held'[d] = held[d]
  BY DEF Cancelled
<1>4. Stopping' = Stopping
  BY <1>3
<1>5. UNCHANGED <<linkVars, sup, op, live, engaged, staged, written>>
  BY DEF Cancelled
<1>6. NoSessionLeaks' /\ QuietButStopping' /\ ConnectedOrTaken' /\ OneStops' /\ SupShown'
  BY <1>3, <1>4, <1>5
<1>7. \A d \in Clients : d # c => pc'[d] = pc[d] /\ held'[d] = held[d]
  BY DEF Cancelled
<1>8. /\ pc[c] \in {"lock"} \cup OwnsLock
      /\ pc'[c] \in {"lateStage", "lateDrop", "cancelled"}
      /\ pc[c] = "lock" => pc'[c] = "cancelled"
      /\ pc'[c] = "lateStage" => pc[c] = "stage"
      /\ pc'[c] = "lateDrop" => pc[c] = "drop"
      /\ pc'[c] # "cancelled" => held'[c] = held[c]
  BY DEF Cancelled
<1>9. HeldOrTaken'
  BY <1>5, <1>7, <1>8
<1>10. FailedIsStopping' /\ StagedOnce'
  BY <1>4, <1>5, <1>7, <1>8
<1> QED
  BY <1>1, <1>2, <1>6, <1>9, <1>10

\* The threads that run on.
LEMMA LateKeeps ==
  ASSUME CancelInv, NEW c \in Orders, LateStep(c)
  PROVE  CancelInv'
<1> USE DEF CancelInv, TypeOK, LockDiscipline, CancellationContained, NoSessionLeaks,
            QuietButStopping, ConnectedOrTaken, FailedIsStopping, Stopping, OneStops,
            HeldOrTaken, SupShown, StagedOnce, Goto, LateEnds
<1>1. CASE LateStage(c)
  <2>0. held[c] \in Sessions /\ staged' \in [Sessions -> SUBSET Orders]
    BY <1>1 DEF LateStage, StageOrder, SameControl
  <2>1. TypeOK'
    BY <1>1, <2>0 DEF LateStage
  <2>2. LockDiscipline' /\ OneStops' /\ HeldOrTaken' /\ SupShown'
    BY <1>1 DEF LateStage
  <2>3. NoSessionLeaks' /\ QuietButStopping' /\ ConnectedOrTaken'
    BY <1>1 DEF LateStage
  <2>4. \A d \in Orders, s \in live : d \in staged'[s] => d \in staged[s] \/ d = c
    BY <1>1 DEF LateStage, StageOrder, SameControl
  <2>5. FailedIsStopping' /\ StagedOnce'
    BY <1>1, <2>4 DEF LateStage
  <2> QED
    BY <2>1, <2>2, <2>3, <2>5
<1>2. CASE LateDrop(c)
  <2>1. TypeOK'
    BY <1>2 DEF LateDrop
  <2>2. LockDiscipline' /\ HeldOrTaken' /\ SupShown' /\ StagedOnce'
    BY <1>2 DEF LateDrop
  <2>3. Stopping' = Stopping \cup ({wrapper} \ {NoSession})
    BY <1>2 DEF LateDrop
  <2>4. OneStops'
    <3>1. CASE wrapper = NoSession
      BY <1>2, <2>3, <3>1 DEF LateDrop
    <3>2. CASE wrapper # NoSession
      <4>1. \A d \in Orders : pc[d] # "lateStop"
        BY <3>2, SMTT(60)
      <4>2. \A d \in Orders : pc'[d] = "lateStop" => d = c
        BY <1>2, <4>1 DEF LateDrop
      <4> QED
        BY <1>2, <2>3, <3>2, <4>1, <4>2 DEF LateDrop
    <3> QED
      BY <3>1, <3>2
  <2>5. CancellationContained'
    BY <1>2, <2>3 DEF LateDrop
  <2> QED
    BY <2>1, <2>2, <2>4, <2>5
<1>3. CASE LateStop(c)
  BY <1>3 DEF LateStop, StopWrapper, Blank
<1> QED
  BY <1>1, <1>2, <1>3 DEF LateStep

\* CancelInv holds in every state, whichever calls are cancelled and when.
THEOREM CancelInductive == CancelSpec => []CancelInv
<1>1. Init => CancelInv
  <2> SUFFICES ASSUME Init PROVE CancelInv
    OBVIOUS
  <2> USE DEF Init
  <2>1. TypeOK
    <3>1. retryNow \in BOOLEAN /\ simUp \in BOOLEAN /\ faulty \in BOOLEAN
      OBVIOUS
    <3>2. seen \in [Clients -> 0 .. DeliveryFrames]
      OBVIOUS
    <3> QED
      BY <3>1, <3>2 DEF TypeOK
  <2>2. LockDiscipline
    BY DEF LockDiscipline, OpOwnsLock
  <2>3. CancellationContained /\ OneStops
    BY DEF CancellationContained, NoSessionLeaks, QuietButStopping, ConnectedOrTaken,
           FailedIsStopping, Stopping, OneStops
  <2>4. HeldOrTaken /\ SupShown /\ StagedOnce
    BY DEF HeldOrTaken, SupShown, StagedOnce
  <2> QED
    BY <2>1, <2>2, <2>3, <2>4 DEF CancelInv
<1>2. CancelInv /\ [CancelNext]_vars => CancelInv'
  <2> SUFFICES ASSUME CancelInv, [CancelNext]_vars PROVE CancelInv'
    OBVIOUS
  <2>1. CASE Next
    BY <2>1, EnvironmentKeeps, SupervisorKeeps, OrderKeeps, ReadKeeps, OperatorKeeps DEF Next
  <2>2. CASE (\E c \in Clients : Cancelled(c)) \/ \E c \in Orders : LateStep(c)
    BY <2>2, CancelKeeps, LateKeeps
  <2>3. CASE UNCHANGED vars
    BY <2>3 DEF vars, CancelInv, TypeOK, LockDiscipline, CancellationContained,
                NoSessionLeaks, QuietButStopping, ConnectedOrTaken, FailedIsStopping,
                Stopping, OneStops, HeldOrTaken, SupShown, StagedOnce
  <2> QED
    BY <2>1, <2>2, <2>3 DEF CancelNext
<1> QED
  BY <1>1, <1>2, PTL DEF CancelSpec

\* With calls cancelled at any await every state is well typed, and the lock still
\* has one owner, which is the one task in a locked section.
THEOREM CancelExclusive == CancelSpec => [](TypeOK /\ LockDiscipline)
<1>1. CancelInv => TypeOK /\ LockDiscipline
  BY DEF CancelInv
<1> QED
  BY <1>1, CancelInductive, PTL

\* What cancelled calls leave behind loses no session, reopens nothing after a
\* disconnect, and keeps a failed order only in a session that is being stopped.
THEOREM Contained == CancelSpec => []CancellationContained
<1>1. CancelInv => CancellationContained
  BY DEF CancelInv
<1> QED
  BY <1>1, CancelInductive, PTL

\* An order that was reported failed moves the ship only from a session that a late
\* thread is stopping.
THEOREM GhostsAreStopping == CancelSpec => GhostOnlyWhileStopping
<1> DEFINE Explained ==
      \A c \in Orders :
        pc[c] \in {"refused", "undelivered"} /\ c \notin executed /\ c \in executed' =>
          \E s \in Stopping : c \in written[s]
<1>1. CancelInv /\ [CancelNext]_vars => [Explained]_vars
  <2> SUFFICES ASSUME CancelInv, CancelNext PROVE Explained
    OBVIOUS
  <2>1. ASSUME NEW s \in Sessions, Frame(s) PROVE Explained
    BY <2>1 DEF Frame, CancelInv, CancellationContained, FailedIsStopping
  <2>2. CASE executed' = executed
    BY <2>2
  <2>3. (\E s \in Sessions : Frame(s)) \/ executed' = executed
    <3>1. CASE Next
      BY <3>1 DEF Next, Environment, SimToggles, WrapperToggles, Engage, GoesQuiet,
             SupLockStep, SupOwnStep, SupTick, SupFailLock, SupBuild, SupBuildFails,
             SupSeesHealthy, SupSeesQuiet, SupSeesNothing, SupSnapshotRaises, SupDrop,
             SupWakes, SupFailDrop, SupFailShow, SupBackoffEnds, OrderIssued, OrderLocks,
             OrderOwnStep, OrderSnapshot, OrderStages, OrderConfirmed, OrderTimesOut,
             OrderDrops, OrderRaises, ReadIssued, ReadLocks, ReadSnapshot, ConnectCalled,
             Connect, ConnectReturns, DisconnectCalled, Disconnect, OpOwnStep,
             SupCancelled, CancelSwallowed, SupervisorAwaited, TeardownDrop, TeardownShow
    <3>2. CASE (\E c \in Clients : Cancelled(c)) \/ \E c \in Orders : LateStep(c)
      BY <3>2 DEF Cancelled, LateStep, LateStage, LateDrop, LateStop
    <3> QED
      BY <3>1, <3>2 DEF CancelNext
  <2> QED
    BY <2>1, <2>2, <2>3
<1> QED
  BY <1>1, CancelInductive, PTL DEF CancelSpec, GhostOnlyWhileStopping

\* An acknowledgment is given over a link shown as up, and never on another session
\* than the one the order was given to.
THEOREM AcksAreOwn == CancelSpec => AckNeverOnAnother
<1> DEFINE Own ==
      \A c \in Orders :
        pc[c] # "acked" /\ pc'[c] = "acked" =>
          state = "connected" /\ wrapper \in {held[c], NoSession}
<1>1. CancelInv /\ [CancelNext]_vars => [Own]_vars
  <2> SUFFICES ASSUME CancelInv, CancelNext PROVE Own
    OBVIOUS
  <2>1. ASSUME NEW d \in Orders, OrderConfirmed(d) PROVE Own
    BY <2>1 DEF OrderConfirmed, Finish, Goto, CancelInv, TypeOK, HeldOrTaken
  <2>2. ASSUME \A c \in Orders : pc'[c] = "acked" => pc[c] = "acked" PROVE Own
    BY <2>2
  <2>3. \/ \E d \in Orders : OrderConfirmed(d)
        \/ \A c \in Orders : pc'[c] = "acked" => pc[c] = "acked"
    <3>1. CASE Environment \/ SupLockStep \/ SupOwnStep
      BY <3>1 DEF Environment, SimToggles, WrapperToggles, Frame, Engage, GoesQuiet,
             SupLockStep, SupOwnStep, SupTick, SupFailLock, SupBuild, SupBuildFails,
             SupSeesHealthy, SupSeesQuiet, SupSeesNothing, SupSnapshotRaises, SupDrop,
             SupWakes, SupFailDrop, SupFailShow, SupBackoffEnds
    <3>2. CASE \E o \in Operators : \/ ConnectCalled(o) \/ Connect(o) \/ ConnectReturns(o)
                                     \/ DisconnectCalled(o) \/ Disconnect(o) \/ OpOwnStep(o)
      BY <3>2 DEF ConnectCalled, Connect, ConnectReturns, DisconnectCalled, Disconnect,
             OpOwnStep, SupCancelled, CancelSwallowed, SupervisorAwaited, TeardownDrop,
             TeardownShow
    <3>3. CASE \E c \in Readers : ReadIssued(c) \/ ReadLocks(c) \/ ReadSnapshot(c)
      BY <3>3 DEF ReadIssued, ReadLocks, ReadSnapshot, Finish, Goto, CancelInv, TypeOK
    <3>4. CASE \E c \in Orders : OrderIssued(c) \/ OrderLocks(c) \/ OrderOwnStep(c)
      BY <3>4 DEF OrderIssued, OrderLocks, OrderOwnStep, OrderSnapshot, OrderStages,
             OrderTimesOut, OrderDrops, OrderRaises, Finish, Goto, CancelInv, TypeOK
    <3>5. CASE (\E c \in Clients : Cancelled(c)) \/ \E c \in Orders : LateStep(c)
      BY <3>5 DEF Cancelled, LateStep, LateStage, LateDrop, LateStop, LateEnds, Goto,
             CancelInv, TypeOK
    <3> QED
      BY <3>1, <3>2, <3>3, <3>4, <3>5 DEF CancelNext, Next
  <2> QED
    BY <2>1, <2>2, <2>3
<1> QED
  BY <1>1, CancelInductive, PTL DEF CancelSpec, AckNeverOnAnother

-----------------------------------------------------------------------------
(* The link implements what HelmService promises to callers that may be    *)
(* cancelled.                                                              *)

\* Steps that only change the shown state, as in Links.
LEMMA LateLinks ==
  ASSUME CancelInv, \A c \in Orders : pc'[c] = pc[c], executed' = executed,
         state' \in ConnectionState, state = "disconnected" => state' # "connected"
  PROVE  [Helm!LateNext]_(Helm!helmVars)
<1>1. UNCHANGED <<AnswerShown, executed>>
  BY DEF AnswerShown
<1>2. CASE LinkShown' \in {"off", "down"}
  BY <1>1, <1>2 DEF Helm!LateNext, Helm!LinkChanges
<1>3. CASE LinkShown' = "up" /\ LinkShown = "down"
  BY <1>1, <1>3 DEF Helm!LateNext, Helm!LinkChanges
<1>4. CASE LinkShown' = LinkShown
  BY <1>1, <1>4 DEF Helm!helmVars
<1> QED
  BY <1>2, <1>3, <1>4 DEF LinkShown, CancelInv, TypeOK

\* One step of an order, of its cancellation or of the thread that outlives it.
LEMMA OrderRefinesLate ==
  ASSUME CancelInv, NEW c \in Orders,
         \/ OrderIssued(c) \/ OrderLocks(c) \/ OrderOwnStep(c)
         \/ Cancelled(c) \/ LateStep(c)
  PROVE  [Helm!LateNext]_(Helm!helmVars)
<1> USE DEF Goto, Finish
<1>0. c \in Clients /\ pc \in [Clients -> {"idle", "lock"} \cup OwnsLock \cup Late \cup Ended]
  BY DEF CancelInv, TypeOK
<1> DEFINE Told(a) == AnswerShown' = [AnswerShown EXCEPT ![c] = a]
<1>1. CASE OrderIssued(c)
  <2>1. AnswerShown[c] = "none" /\ Told("waiting")
    BY <1>0, <1>1 DEF OrderIssued, AnswerShown
  <2>2. UNCHANGED <<LinkShown, executed>>
    BY <1>1 DEF OrderIssued, LinkShown
  <2> QED
    BY <2>1, <2>2 DEF Helm!LateNext, Helm!Issue
<1>2. ASSUME pc[c] \in {"lock"} \cup OwnsLock, state' = state, executed' = executed,
             NEW how \in {"acked", "refused", "undelivered", "error", "cancelled",
                          "lateStage", "lateDrop"},
             Goto(c, how), how = "acked" => state = "connected"
      PROVE  Helm!LateNext
  <2> DEFINE a == CASE how = "acked" -> "acked"
                    [] how \in {"refused", "undelivered"} -> "failed"
                    [] OTHER -> "unknown"
  <2>1. AnswerShown[c] = "waiting" /\ Told(a)
    BY <1>0, <1>2, ZenonT(60) DEF AnswerShown
  <2>2. UNCHANGED <<LinkShown, executed>> /\ (a = "acked" => LinkShown = "up")
    BY <1>2 DEF LinkShown
  <2>3. a \in {"acked", "failed", "unknown"}
    BY <1>2
  <2> QED
    BY <2>1, <2>2, <2>3 DEF Helm!LateNext, Helm!Reply
<1>3. ASSUME pc[c] \in {"lock"} \cup OwnsLock, executed' = executed,
             NEW to \in OwnsLock, Goto(c, to),
             state' = state \/ state' = "stale"
      PROVE  [Helm!LateNext]_(Helm!helmVars)
  <2>1. UNCHANGED <<AnswerShown, executed>>
    BY <1>0, <1>3 DEF AnswerShown
  <2>2. LinkShown' = LinkShown \/ LinkShown' = "down"
    BY <1>3 DEF LinkShown
  <2> QED
    BY <2>1, <2>2 DEF Helm!LateNext, Helm!LinkChanges, Helm!helmVars
<1>4. ASSUME pc[c] \in Late, executed' = executed, state' = state,
             NEW to \in Late \cup {"cancelled"}, Goto(c, to)
      PROVE  UNCHANGED Helm!helmVars
  BY <1>0, <1>4 DEF AnswerShown, LinkShown, Helm!helmVars
<1>5. CASE OrderLocks(c) \/ OrderSnapshot(c) \/ OrderStages(c) \/ OrderTimesOut(c)
  BY <1>2, <1>3, <1>5 DEF OrderLocks, OrderSnapshot, OrderStages, OrderTimesOut
<1>6. CASE OrderConfirmed(c)
  BY <1>2, <1>6 DEF OrderConfirmed, CancelInv, HeldOrTaken
<1>7. CASE OrderDrops(c) \/ OrderRaises(c)
  BY <1>2, <1>7 DEF OrderDrops, OrderRaises
<1>8. CASE Cancelled(c)
  BY <1>2, <1>8 DEF Cancelled
<1>9. CASE LateStep(c)
  BY <1>4, <1>9 DEF LateStep, LateStage, LateDrop, LateStop, LateEnds
<1> QED
  BY <1>1, <1>5, <1>6, <1>7, <1>8, <1>9 DEF OrderOwnStep

\* A frame carries out orders that were issued.
LEMMA FrameRefinesLate ==
  ASSUME CancelInv, NEW s \in Sessions, Frame(s)
  PROVE  Helm!LateNext
<1>1. written[s] \in SUBSET Orders
  BY DEF CancelInv, TypeOK
<1>2. \A c \in written[s] : AnswerShown[c] # "none"
  BY <1>1 DEF AnswerShown, CancelInv, StagedOnce, Frame
<1>3. executed' = executed \cup written[s] /\ UNCHANGED <<LinkShown, AnswerShown>>
  BY DEF Frame, LinkShown, AnswerShown
<1> QED
  BY <1>1, <1>2, <1>3 DEF Helm!LateNext, Helm!ShipMovesLate

\* The link implements the helm service of callers that may be cancelled: one answer
\* per order, acknowledgments while the link is up, no link without connect.
THEOREM LateRefinement == CancelSpec => ImplementsLateHelm
<1>1. Init => Helm!HelmInit
  BY DEF Init, Helm!HelmInit, LinkShown, AnswerShown
<1>2. CancelInv /\ [CancelNext]_vars => [Helm!LateNext]_(Helm!helmVars)
  <2> SUFFICES ASSUME CancelInv, [CancelNext]_vars PROVE [Helm!LateNext]_(Helm!helmVars)
    OBVIOUS
  <2>1. CASE Environment
    <3>1. CASE \E s \in Sessions : Frame(s)
      BY <3>1, FrameRefinesLate
    <3>2. CASE SimToggles \/ WrapperToggles \/ \E s \in Sessions : Engage(s) \/ GoesQuiet(s)
      BY <3>2, Stutters DEF SimToggles, WrapperToggles, Engage, GoesQuiet
    <3> QED
      BY <2>1, <3>1, <3>2 DEF Environment
  <2>2. CASE SupLockStep \/ SupOwnStep
    <3>1. UNCHANGED <<pc, executed>>
      BY <2>2 DEF SupLockStep, SupOwnStep, SupTick, SupFailLock, SupBuild, SupBuildFails,
             SupSeesHealthy, SupSeesQuiet, SupSeesNothing, SupSnapshotRaises, SupDrop,
             SupWakes, SupFailDrop, SupFailShow, SupBackoffEnds
    <3>2. state' \in ConnectionState
      BY <2>2, SupervisorKeeps DEF CancelInv, TypeOK
    <3>3. state # "disconnected"
      BY <2>2 DEF CancelInv, CancellationContained, QuietButStopping, SupLockStep,
             SupOwnStep, SupTick, SupFailLock, SupBuild, SupBuildFails, SupSeesHealthy,
             SupSeesQuiet, SupSeesNothing, SupSnapshotRaises, SupDrop, SupWakes,
             SupFailDrop, SupFailShow, SupBackoffEnds
    <3> QED
      BY <3>1, <3>2, <3>3, LateLinks
  <2>3. CASE \E c \in Orders : \/ OrderIssued(c) \/ OrderLocks(c) \/ OrderOwnStep(c)
                               \/ Cancelled(c) \/ LateStep(c)
    BY <2>3, OrderRefinesLate
  <2>4. CASE \E c \in Readers : \/ ReadIssued(c) \/ ReadLocks(c) \/ ReadSnapshot(c)
                                \/ Cancelled(c)
    <3>1. UNCHANGED <<state, executed>> /\ \A c \in Orders : pc'[c] = pc[c]
      BY <2>4 DEF ReadIssued, ReadLocks, ReadSnapshot, Cancelled, Finish, Goto, CancelInv,
             TypeOK
    <3> QED
      BY <3>1, Stutters
  <2>5. CASE \E o \in Operators : \/ ConnectCalled(o) \/ Connect(o) \/ ConnectReturns(o)
                                   \/ DisconnectCalled(o) \/ Disconnect(o) \/ OpOwnStep(o)
    <3>1. UNCHANGED <<pc, executed>> /\ state' \in {state, "connecting", "disconnected"}
      BY <2>5 DEF ConnectCalled, Connect, ConnectReturns, DisconnectCalled, Disconnect,
             OpOwnStep, SupCancelled, CancelSwallowed, SupervisorAwaited, TeardownDrop,
             TeardownShow
    <3> QED
      BY <3>1, LateLinks DEF CancelInv, TypeOK
  <2>6. CASE UNCHANGED vars
    BY <2>6, Stutters DEF vars
  <2> QED
    BY <2>1, <2>2, <2>3, <2>4, <2>5, <2>6 DEF CancelNext, Next
<1> QED
  BY <1>1, <1>2, CancelInductive, PTL DEF CancelSpec, ImplementsLateHelm, Helm!LateSpec
=============================================================================
