------------------------------ MODULE SimLink ------------------------------
(***************************************************************************)
(* The link to the ship simulator: RealSimulatorClient                     *)
(* (voice_agent/backends/simulator/real.py) over one vendored wrapper      *)
(* session at a time (wrapper_api.py).                                     *)
(*                                                                         *)
(* The processes are asyncio tasks that meet at one asyncio.Lock: the      *)
(* supervisor (_supervise), helm and engine orders (_stage_and_confirm),   *)
(* state reads (get_state) and the operator's connect and disconnect.      *)
(* Everything a task does between two awaits is one step; a call made      *)
(* through asyncio.to_thread is one step taken in its thread. The session  *)
(* itself is external: it receives frames from a simulator that comes and  *)
(* goes, and hands its staged setpoints over on the frames it receives.    *)
(*                                                                         *)
(* Frame ages are reduced to fresh or stale, frame counts to the frames    *)
(* received since a command read the counter, and sleeps, backoffs and     *)
(* deadlines to steps that may happen at any moment.                       *)
(***************************************************************************)
EXTENDS Naturals

CONSTANTS
  RudderOrders,    \* set_rudder calls
  EngineOrders,    \* set_engine_telegraph calls
  Readers,         \* get_state calls (telemetry, state questions)
  Operators,       \* connect / disconnect calls (start-up, dashboard, close)
  Sessions,        \* names of wrapper sessions; a stopped one's name is reused
  Supervisor,      \* the supervisor task, as an owner of the lock
  Nobody,          \* owner of the lock when it is free
  NoSession,       \* _wrapper is None
  DeliveryFrames,  \* _DELIVERY_FRAMES
  WaitForSwallows  \* asyncio.wait_for may lose a cancellation: Python 3.11, not later

Orders == RudderOrders \cup EngineOrders
Clients == Orders \cup Readers

ASSUME TasksAreDistinct ==
  /\ RudderOrders \cap EngineOrders = {}
  /\ Orders \cap Readers = {}
  /\ Clients \cap Operators = {}
  /\ Supervisor \notin Clients \cup Operators
  /\ Nobody \notin Clients \cup Operators \cup {Supervisor}

ASSUME NoSessionIsNone == NoSession \notin Sessions

ASSUME DeliveryFramesPositive == DeliveryFrames \in Nat \ {0}

ASSUME WaitForIsEither == WaitForSwallows \in BOOLEAN

VARIABLES
  state,      \* _state, the ConnectionState shown to everyone
  wrapper,    \* _wrapper, the current session
  lock,       \* owner of _lock
  retryNow,   \* _retry_now is set
  sup,        \* where the supervisor task is; "off": there is none
  pc,         \* where each client call is, or how it ended
  held,       \* the session a client call works on
  seen,       \* frames an order's session received since its first snapshot
  op,         \* where each operator call is
  live,       \* sessions started and not stopped: they own the local port
  fresh,      \* sessions whose frame_age_s is within the stale threshold
  engaged,    \* initialized sessions: scenario published, controls engaged
  staged,     \* the setpoints each session re-asserts on every tick
  written,    \* those handed to the transport, which the next frame flushes
  executed,   \* orders that reached the ship (history)
  simUp,      \* the simulator is broadcasting frames
  faulty      \* the wrapper's calls may fail or raise

linkVars == <<state, wrapper, retryNow>>
mirrorVars == <<fresh, engaged, staged, written>>
sessionVars == <<live, mirrorVars, executed>>
envVars == <<simUp, faulty>>
clientVars == <<pc, held, seen>>
vars == <<linkVars, lock, sup, clientVars, op, sessionVars, envVars>>

ConnectionState == {"disconnected", "connecting", "connected", "stale"}

\* Steps of a client call that own the lock.
OwnsLock == {"before", "stage", "confirm", "drop", "read"}

\* Steps at which the frames since the first snapshot count.
Counting == {"stage", "confirm"}

\* Threads that outlive a cancelled call.
Late == {"lateStage", "lateDrop", "lateStop"}

\* How a call can end. "refused" and "undelivered" are SimulatorErrors raised by
\* the link itself, "error" is any other exception turned into a SimulatorError.
Ended == {"acked", "answered", "refused", "undelivered", "error", "cancelled"}

Init ==
  /\ state = "disconnected"
  /\ wrapper = NoSession
  /\ lock = Nobody
  /\ retryNow = FALSE
  /\ sup = "off"
  /\ pc = [c \in Clients |-> "idle"]
  /\ held = [c \in Clients |-> NoSession]
  /\ seen = [c \in Clients |-> 0]
  /\ op = [o \in Operators |-> "idle"]
  /\ live = {}
  /\ fresh = {}
  /\ engaged = {}
  /\ staged = [s \in Sessions |-> {}]
  /\ written = [s \in Sessions |-> {}]
  /\ executed = {}
  /\ simUp = FALSE
  /\ faulty = FALSE

-----------------------------------------------------------------------------
(* The simulator and the wrapper sessions (external).                      *)

SimToggles ==
  /\ simUp' = ~simUp
  /\ UNCHANGED <<linkVars, lock, sup, clientVars, op, sessionVars, faulty>>

WrapperToggles ==
  /\ faulty' = ~faulty
  /\ UNCHANGED <<linkVars, lock, sup, clientVars, op, sessionVars, simUp>>

\* A frame reaches a session: the setpoints written during the previous frame
\* go out, the staged ones are written, and the frame counter advances.
Frame(s) ==
  /\ simUp
  /\ s \in live
  /\ fresh' = fresh \cup {s}
  /\ executed' = executed \cup written[s]
  /\ written' = [written EXCEPT ![s] = staged[s]]
  /\ seen' = [c \in Clients |->
                IF held[c] = s /\ pc[c] \in Counting /\ seen[c] < DeliveryFrames
                  THEN seen[c] + 1 ELSE seen[c]]
  /\ UNCHANGED <<linkVars, lock, sup, pc, held, op, live, engaged, staged, envVars>>

\* The scenario is published and the controls are engaged.
Engage(s) ==
  /\ s \in live
  /\ s \in fresh
  /\ engaged' = engaged \cup {s}
  /\ UNCHANGED <<linkVars, lock, sup, clientVars, op, live, fresh, staged, written,
                 executed, envVars>>

\* The newest frame grows older than the stale threshold.
GoesQuiet(s) ==
  /\ ~simUp
  /\ s \in fresh
  /\ fresh' = fresh \ {s}
  /\ UNCHANGED <<linkVars, lock, sup, clientVars, op, live, engaged, staged, written,
                 executed, envVars>>

-----------------------------------------------------------------------------
(* Session helpers.                                                        *)

\* Variant, not in Next: a drop that forgets the session without stopping it.
DropSessionUnstopped == wrapper' = NoSession /\ UNCHANGED <<live, mirrorVars>>

\* A wrapper object that has received and staged nothing.
Blank(s) ==
  /\ fresh' = fresh \ {s}
  /\ engaged' = engaged \ {s}
  /\ staged' = [t \in Sessions |-> IF t = s THEN {} ELSE staged[t]]
  /\ written' = [t \in Sessions |-> IF t = s THEN {} ELSE written[t]]

\* _stop_wrapper: the session's thread ends, with everything staged in it.
StopWrapper(s) == live' = live \ {s} /\ Blank(s)

\* _drop_session: forget the session, then stop it.
DropSession == wrapper' = NoSession /\ StopWrapper(wrapper)

\* What the supervisor and get_state take for a live link.
Healthy(s) == s \in engaged \cap fresh

\* _require_live.
RequireLive == state = "connected" /\ wrapper # NoSession

\* A session name that nothing refers to any more.
Unused(s) == s # wrapper /\ s \notin live /\ \A c \in Clients : held[c] # s

\* The setpoint slot an order writes: the rudder angle or the engine lever.
SameControl(c) == IF c \in RudderOrders THEN RudderOrders ELSE EngineOrders

\* order_rudder / order_engine_lever: the setpoint replaces the one staged before.
StageOrder(c) ==
  staged' = [staged EXCEPT ![held[c]] = (@ \ SameControl(c)) \cup {c}]

-----------------------------------------------------------------------------
(* The supervisor: _supervise.                                             *)

\* Variant, not in Next: look at the session without owning the lock.
SupTickUnlocked ==
  /\ sup = "tick"
  /\ IF wrapper = NoSession THEN state' = "connecting" /\ sup' = "build"
                            ELSE sup' = "snapshot" /\ UNCHANGED state
  /\ UNCHANGED <<lock, wrapper, retryNow, clientVars, op, sessionVars, envVars>>

SupTick ==
  /\ sup = "tick"
  /\ lock = Nobody
  /\ lock' = Supervisor
  /\ IF wrapper = NoSession THEN state' = "connecting" /\ sup' = "build"
                            ELSE sup' = "snapshot" /\ UNCHANGED state
  /\ UNCHANGED <<wrapper, retryNow, clientVars, op, sessionVars, envVars>>

\* _build_guarded: the factory returns a session that started. The local port
\* admits one session at a time.
SupBuild ==
  /\ sup = "build"
  /\ live = {}
  /\ \E s \in Sessions :
       /\ Unused(s)
       /\ wrapper' = s
       /\ live' = live \cup {s}
       /\ Blank(s)
  /\ sup' = "snapshot"
  /\ UNCHANGED <<state, retryNow, lock, clientVars, op, executed, envVars>>

\* The factory raises, or start() reports that the session did not come up
\* (and that wrapper is stopped at once).
SupBuildFails ==
  /\ sup = "build"
  /\ faulty \/ live # {}
  /\ sup' = "failed"
  /\ lock' = Nobody
  /\ UNCHANGED <<linkVars, clientVars, op, sessionVars, envVars>>

SupSeesHealthy ==
  /\ sup = "snapshot"
  /\ wrapper # NoSession
  /\ Healthy(wrapper)
  /\ state' = "connected"
  /\ retryNow' = FALSE
  /\ sup' = "sleep"
  /\ lock' = Nobody
  /\ UNCHANGED <<wrapper, clientVars, op, sessionVars, envVars>>

\* Variant, not in Next: take the link down only once something else has noticed.
SupSeesQuietIgnored ==
  /\ sup = "snapshot"
  /\ wrapper # NoSession
  /\ ~Healthy(wrapper)
  /\ sup' = "sleep"
  /\ lock' = Nobody
  /\ UNCHANGED <<linkVars, clientVars, op, sessionVars, envVars>>

\* The link was up and went quiet: give up this session.
SupSeesQuiet ==
  /\ sup = "snapshot"
  /\ wrapper # NoSession
  /\ ~Healthy(wrapper)
  /\ state = "connected"
  /\ state' = "stale"
  /\ sup' = "drop"
  /\ UNCHANGED <<wrapper, retryNow, lock, clientVars, op, sessionVars, envVars>>

\* The link has not come up yet: keep the session and look again later.
SupSeesNothing ==
  /\ sup = "snapshot"
  /\ wrapper # NoSession
  /\ ~Healthy(wrapper)
  /\ state # "connected"
  /\ sup' = "sleep"
  /\ lock' = Nobody
  /\ UNCHANGED <<linkVars, clientVars, op, sessionVars, envVars>>

\* snapshot() raises, or the session was taken away: _snapshot_sync raises.
SupSnapshotRaises ==
  /\ sup = "snapshot"
  /\ faulty \/ wrapper = NoSession
  /\ sup' = "failed"
  /\ lock' = Nobody
  /\ UNCHANGED <<linkVars, clientVars, op, sessionVars, envVars>>

SupDrop ==
  /\ sup = "drop"
  /\ DropSession
  /\ sup' = "sleep"
  /\ lock' = Nobody
  /\ UNCHANGED <<state, retryNow, clientVars, op, executed, envVars>>

\* disconnect has cancelled the supervisor, which has yet to hear of it: whatever
\* it was waiting for, its next step is the CancelledError.
CancelPending == \E o \in Operators : op[o] = "cancelling"

SupWakes ==
  /\ sup = "sleep"
  /\ ~CancelPending
  /\ sup' = "tick"
  /\ UNCHANGED <<linkVars, lock, clientVars, op, sessionVars, envVars>>

SupFailLock ==
  /\ sup = "failed"
  /\ lock = Nobody
  /\ lock' = Supervisor
  /\ sup' = "failDrop"
  /\ UNCHANGED <<linkVars, clientVars, op, sessionVars, envVars>>

\* The except branch: a thread drops what is left, then the task says CONNECTING
\* and backs off.
SupFailDrop ==
  /\ sup = "failDrop"
  /\ DropSession
  /\ sup' = "failShow"
  /\ UNCHANGED <<state, retryNow, lock, clientVars, op, executed, envVars>>

SupFailShow ==
  /\ sup = "failShow"
  /\ state' = "connecting"
  /\ sup' = "backoff"
  /\ lock' = Nobody
  /\ UNCHANGED <<wrapper, retryNow, clientVars, op, sessionVars, envVars>>

\* _sleep_backoff ends, by its timeout or by an operator's kick.
SupBackoffEnds ==
  /\ sup = "backoff"
  /\ ~CancelPending
  /\ retryNow' = FALSE
  /\ sup' = "tick"
  /\ UNCHANGED <<state, wrapper, lock, clientVars, op, sessionVars, envVars>>

SupLockStep == SupTick \/ SupFailLock

SupOwnStep ==
  \/ SupBuild \/ SupBuildFails
  \/ SupSeesHealthy \/ SupSeesQuiet \/ SupSeesNothing \/ SupSnapshotRaises
  \/ SupDrop \/ SupWakes \/ SupFailDrop \/ SupFailShow \/ SupBackoffEnds

-----------------------------------------------------------------------------
(* Helm and engine orders: set_rudder and set_engine_telegraph, through    *)
(* _stage_and_confirm. Every way out of it releases the lock.              *)

Goto(c, to) == pc' = [pc EXCEPT ![c] = to]

\* Client call c ends: it lets go of its session and of the lock.
Finish(c, how) ==
  /\ Goto(c, how)
  /\ held' = [held EXCEPT ![c] = NoSession]
  /\ seen' = [seen EXCEPT ![c] = 0]
  /\ lock' = Nobody

OrderIssued(c) ==
  /\ pc[c] = "idle"
  /\ Goto(c, "lock")
  /\ UNCHANGED <<linkVars, lock, sup, held, seen, op, sessionVars, envVars>>

\* Own the lock, then _require_live: refused at once when the link is down.
OrderLocks(c) ==
  /\ pc[c] = "lock"
  /\ lock = Nobody
  /\ IF RequireLive
       THEN /\ Goto(c, "before")
            /\ held' = [held EXCEPT ![c] = wrapper]
            /\ lock' = c
            /\ UNCHANGED seen
       ELSE Finish(c, "refused")
  /\ UNCHANGED <<linkVars, sup, op, sessionVars, envVars>>

\* The snapshot the delivery count starts from.
OrderSnapshot(c) ==
  /\ pc[c] = "before"
  /\ IF held[c] \in fresh THEN Goto(c, "stage") /\ UNCHANGED <<lock, held, seen>>
                       ELSE Finish(c, "refused")
  /\ UNCHANGED <<linkVars, sup, op, sessionVars, envVars>>

\* Variant, not in Next: count the staging itself as a received frame.
OrderStagesCounted(c) ==
  /\ pc[c] = "stage"
  /\ StageOrder(c)
  /\ seen' = [seen EXCEPT ![c] = @ + 1]
  /\ Goto(c, "confirm")
  /\ UNCHANGED <<linkVars, lock, sup, held, op, live, fresh, engaged, written, executed,
                 envVars>>

OrderStages(c) ==
  /\ pc[c] = "stage"
  /\ StageOrder(c)
  /\ Goto(c, "confirm")
  /\ UNCHANGED <<linkVars, lock, sup, held, seen, op, live, fresh, engaged, written,
                 executed, envVars>>

OrderConfirmed(c) ==
  /\ pc[c] = "confirm"
  /\ seen[c] >= DeliveryFrames
  /\ Finish(c, "acked")
  /\ UNCHANGED <<linkVars, sup, op, sessionVars, envVars>>

\* Variant, not in Next: report the order undelivered and leave the session to the supervisor.
OrderTimesOutUndropped(c) ==
  /\ pc[c] = "confirm"
  /\ seen[c] < DeliveryFrames
  /\ state' = "stale"
  /\ Finish(c, "undelivered")
  /\ UNCHANGED <<wrapper, retryNow, sup, op, sessionVars, envVars>>

\* Variant, not in Next: keep showing the old state while the session is dropped.
OrderTimesOutSilently(c) ==
  /\ pc[c] = "confirm"
  /\ seen[c] < DeliveryFrames
  /\ Goto(c, "drop")
  /\ UNCHANGED <<linkVars, lock, sup, held, seen, op, sessionVars, envVars>>

\* The confirmation budget is spent without the frames.
OrderTimesOut(c) ==
  /\ pc[c] = "confirm"
  /\ seen[c] < DeliveryFrames
  /\ state' = "stale"
  /\ Goto(c, "drop")
  /\ UNCHANGED <<wrapper, retryNow, lock, sup, held, seen, op, sessionVars, envVars>>

\* Variant, not in Next: raise without releasing the lock.
OrderDropsLocked(c) ==
  /\ pc[c] = "drop"
  /\ DropSession
  /\ Goto(c, "undelivered")
  /\ UNCHANGED <<state, retryNow, lock, held, seen, sup, op, executed, envVars>>

OrderDrops(c) ==
  /\ pc[c] = "drop"
  /\ DropSession
  /\ Finish(c, "undelivered")
  /\ UNCHANGED <<state, retryNow, sup, op, executed, envVars>>

\* snapshot() or order_*() raises: "set_rudder failed", the session is kept.
OrderRaises(c) ==
  /\ pc[c] \in {"before", "stage", "confirm"}
  /\ faulty
  /\ Finish(c, "error")
  /\ UNCHANGED <<linkVars, sup, op, sessionVars, envVars>>

OrderOwnStep(c) ==
  \/ OrderSnapshot(c) \/ OrderStages(c) \/ OrderConfirmed(c) \/ OrderTimesOut(c)
  \/ OrderDrops(c) \/ OrderRaises(c)

-----------------------------------------------------------------------------
(* State reads: get_state.                                                 *)

ReadIssued(c) ==
  /\ pc[c] \in {"idle"} \cup Ended
  /\ Goto(c, "lock")
  /\ UNCHANGED <<linkVars, lock, sup, held, seen, op, sessionVars, envVars>>

ReadLocks(c) ==
  /\ pc[c] = "lock"
  /\ lock = Nobody
  /\ IF RequireLive
       THEN /\ Goto(c, "read")
            /\ held' = [held EXCEPT ![c] = wrapper]
            /\ lock' = c
            /\ UNCHANGED seen
       ELSE Finish(c, "refused")
  /\ UNCHANGED <<linkVars, sup, op, sessionVars, envVars>>

\* The snapshot, and after the lock is released the check of its freshness.
ReadSnapshot(c) ==
  /\ pc[c] = "read"
  /\ \/ Finish(c, IF Healthy(held[c]) THEN "answered" ELSE "refused")
     \/ faulty /\ Finish(c, "error")
  /\ UNCHANGED <<linkVars, sup, op, sessionVars, envVars>>

-----------------------------------------------------------------------------
(* The operator: connect and disconnect (close is disconnect).             *)

OpGoto(o, to) == op' = [op EXCEPT ![o] = to]

ConnectCalled(o) ==
  /\ op[o] = "idle"
  /\ OpGoto(o, "connect")
  /\ UNCHANGED <<linkVars, lock, sup, clientVars, sessionVars, envVars>>

\* A running supervisor is kicked, otherwise one is started.
Connect(o) ==
  /\ op[o] = "connect"
  /\ lock = Nobody
  /\ OpGoto(o, "waitConnected")
  /\ IF sup # "off" THEN retryNow' = TRUE /\ UNCHANGED <<state, sup>>
                    ELSE state' = "connecting" /\ sup' = "tick" /\ UNCHANGED retryNow
  /\ UNCHANGED <<wrapper, lock, clientVars, sessionVars, envVars>>

\* connect returns once the link is up or its timeout expires.
ConnectReturns(o) ==
  /\ op[o] = "waitConnected"
  /\ OpGoto(o, "idle")
  /\ UNCHANGED <<linkVars, lock, sup, clientVars, sessionVars, envVars>>

DisconnectCalled(o) ==
  /\ op[o] = "idle"
  /\ OpGoto(o, "disconnect")
  /\ UNCHANGED <<linkVars, lock, sup, clientVars, sessionVars, envVars>>

\* Variant, not in Next: leave the supervisor running.
DisconnectUncancelled(o) ==
  /\ op[o] = "disconnect"
  /\ lock = Nobody
  /\ lock' = o
  /\ OpGoto(o, "teardown")
  /\ UNCHANGED <<linkVars, sup, clientVars, sessionVars, envVars>>

\* Own the lock and cancel the supervisor, if there is one.
Disconnect(o) ==
  /\ op[o] = "disconnect"
  /\ lock = Nobody
  /\ lock' = o
  /\ OpGoto(o, IF sup = "off" THEN "awaiting" ELSE "cancelling")
  /\ UNCHANGED <<linkVars, sup, clientVars, sessionVars, envVars>>

\* The supervisor ends by the CancelledError. It owns the lock during a build, so
\* there is never a pending build to reap; out of its backoff it clears the kick.
SupCancelled(o) ==
  /\ op[o] = "cancelling"
  /\ sup' = "off"
  /\ retryNow' = (retryNow /\ sup # "backoff")
  /\ OpGoto(o, "awaiting")
  /\ UNCHANGED <<state, wrapper, lock, clientVars, sessionVars, envVars>>

\* The wait inside wait_for is over, by a kick, when the CancelledError arrives:
\* wait_for returns its result instead, and the supervisor goes on.
CancelSwallowed(o) ==
  /\ op[o] = "cancelling"
  /\ WaitForSwallows
  /\ sup = "backoff" /\ retryNow
  /\ sup' = "tick"
  /\ retryNow' = FALSE
  /\ OpGoto(o, "awaiting")
  /\ UNCHANGED <<state, wrapper, lock, clientVars, sessionVars, envVars>>

\* await supervisor returns when the task is done.
SupervisorAwaited(o) ==
  /\ op[o] = "awaiting"
  /\ sup = "off"
  /\ OpGoto(o, "teardown")
  /\ UNCHANGED <<linkVars, lock, sup, clientVars, sessionVars, envVars>>

\* The thread that drops the session, then the task that shows the result.
TeardownDrop(o) ==
  /\ op[o] = "teardown"
  /\ DropSession
  /\ OpGoto(o, "tornDown")
  /\ UNCHANGED <<state, retryNow, lock, sup, clientVars, executed, envVars>>

\* Variant, not in Next: return without releasing the lock.
TeardownShowLocked(o) ==
  /\ op[o] = "tornDown"
  /\ state' = "disconnected"
  /\ OpGoto(o, "idle")
  /\ UNCHANGED <<wrapper, retryNow, lock, sup, clientVars, sessionVars, envVars>>

TeardownShow(o) ==
  /\ op[o] = "tornDown"
  /\ state' = "disconnected"
  /\ OpGoto(o, "idle")
  /\ lock' = Nobody
  /\ UNCHANGED <<wrapper, retryNow, sup, clientVars, sessionVars, envVars>>

OpOwnStep(o) ==
  \/ SupCancelled(o) \/ CancelSwallowed(o) \/ SupervisorAwaited(o)
  \/ TeardownDrop(o) \/ TeardownShow(o)

-----------------------------------------------------------------------------
(* A call is cancelled when the pipeline that awaits it is torn down: the   *)
(* coroutine unwinds and releases the lock, a thread it started runs on.    *)

Cancelled(c) ==
  /\ pc[c] \in {"lock"} \cup OwnsLock
  /\ IF pc[c] \in {"stage", "drop"}
       THEN /\ Goto(c, IF pc[c] = "stage" THEN "lateStage" ELSE "lateDrop")
            /\ lock' = Nobody
            /\ UNCHANGED <<held, seen>>
       ELSE /\ Goto(c, "cancelled")
            /\ held' = [held EXCEPT ![c] = NoSession]
            /\ seen' = [seen EXCEPT ![c] = 0]
            /\ lock' = IF pc[c] = "lock" THEN lock ELSE Nobody
  /\ UNCHANGED <<linkVars, sup, op, sessionVars, envVars>>

LateEnds(c) ==
  /\ Goto(c, "cancelled")
  /\ held' = [held EXCEPT ![c] = NoSession]
  /\ seen' = [seen EXCEPT ![c] = 0]

\* The thread stages the order into the session the call was working on.
LateStage(c) ==
  /\ pc[c] = "lateStage"
  /\ StageOrder(c)
  /\ LateEnds(c)
  /\ UNCHANGED <<linkVars, lock, sup, op, live, fresh, engaged, written, executed,
                 envVars>>

\* Variant, not in Next: the thread forgets the session and ends.
LateDropUnstopped(c) ==
  /\ pc[c] = "lateDrop"
  /\ wrapper' = NoSession
  /\ LateEnds(c)
  /\ UNCHANGED <<state, retryNow, lock, sup, op, sessionVars, envVars>>

\* The thread takes whatever session is current by now, and stops it.
LateDrop(c) ==
  /\ pc[c] = "lateDrop"
  /\ wrapper' = NoSession
  /\ IF wrapper = NoSession
       THEN LateEnds(c)
       ELSE Goto(c, "lateStop") /\ held' = [held EXCEPT ![c] = wrapper] /\ UNCHANGED seen
  /\ UNCHANGED <<state, retryNow, lock, sup, op, sessionVars, envVars>>

LateStop(c) ==
  /\ pc[c] = "lateStop"
  /\ StopWrapper(held[c])
  /\ LateEnds(c)
  /\ UNCHANGED <<linkVars, lock, sup, op, executed, envVars>>

LateStep(c) == LateStage(c) \/ LateDrop(c) \/ LateStop(c)

-----------------------------------------------------------------------------
Environment ==
  \/ SimToggles \/ WrapperToggles
  \/ \E s \in Sessions : Frame(s) \/ Engage(s) \/ GoesQuiet(s)

Next ==
  \/ Environment
  \/ SupLockStep \/ SupOwnStep
  \/ \E c \in Orders : OrderIssued(c) \/ OrderLocks(c) \/ OrderOwnStep(c)
  \/ \E c \in Readers : ReadIssued(c) \/ ReadLocks(c) \/ ReadSnapshot(c)
  \/ \E o \in Operators : \/ ConnectCalled(o) \/ Connect(o) \/ ConnectReturns(o)
                          \/ DisconnectCalled(o) \/ Disconnect(o) \/ OpOwnStep(o)

Spec == Init /\ [][Next]_vars

\* Every task and thread makes progress, the lock is granted first come first
\* served (asyncio.Lock), a running simulator sends frames and engages the
\* controls, and the frames of a stopped one grow old. What operators, clients
\* and the simulator decide to do is left open.
Fairness ==
  /\ WF_vars(SupOwnStep)
  /\ SF_vars(SupLockStep)
  /\ \A c \in Orders : WF_vars(OrderOwnStep(c)) /\ SF_vars(OrderLocks(c))
  /\ \A c \in Readers : WF_vars(ReadSnapshot(c)) /\ SF_vars(ReadLocks(c))
  /\ \A c \in Orders : WF_vars(LateStep(c))
  /\ \A o \in Operators : /\ WF_vars(ConnectReturns(o)) /\ WF_vars(OpOwnStep(o))
                          /\ SF_vars(Connect(o)) /\ SF_vars(Disconnect(o))
  /\ \A s \in Sessions : WF_vars(Frame(s)) /\ WF_vars(Engage(s)) /\ WF_vars(GoesQuiet(s))

\* Clients may be cancelled.
CancelNext ==
  \/ Next
  \/ \E c \in Clients : Cancelled(c)
  \/ \E c \in Orders : LateStep(c)

CancelSpec == Init /\ [][CancelNext]_vars

FairSpec == CancelSpec /\ Fairness

-----------------------------------------------------------------------------
(* Safety.                                                                 *)

\* Every variable has its type: the ConnectionState, the lock's owner, the
\* place of each task and the state of each session.
TypeOK ==
  /\ state \in ConnectionState
  /\ wrapper \in Sessions \cup {NoSession}
  /\ lock \in Clients \cup Operators \cup {Supervisor, Nobody}
  /\ retryNow \in BOOLEAN
  /\ sup \in {"off", "tick", "build", "snapshot", "drop", "sleep", "failed",
              "failDrop", "failShow", "backoff"}
  /\ pc \in [Clients -> {"idle", "lock"} \cup OwnsLock \cup Late \cup Ended]
  /\ held \in [Clients -> Sessions \cup {NoSession}]
  /\ seen \in [Clients -> 0 .. DeliveryFrames]
  /\ op \in [Operators -> {"idle", "connect", "waitConnected", "disconnect",
                           "cancelling", "awaiting", "teardown", "tornDown"}]
  /\ live \subseteq Sessions
  /\ fresh \subseteq Sessions
  /\ engaged \subseteq Sessions
  /\ staged \in [Sessions -> SUBSET Orders]
  /\ written \in [Sessions -> SUBSET Orders]
  /\ executed \subseteq Orders
  /\ simUp \in BOOLEAN
  /\ faulty \in BOOLEAN

\* An order that the link refused or reported undelivered, and that had not
\* reached the ship by then, never reaches it afterwards: _stage_and_confirm
\* stops the session before it reports, and a refused order is never staged.
NoGhostOrder ==
  [][\A c \in Orders :
       pc[c] \in {"refused", "undelivered"} /\ c \notin executed => c \notin executed']_vars

\* An order is acknowledged only while the link is up and the session that
\* holds its setpoint is the current, running one: no other task replaced the
\* session between staging and confirmation.
AckOnLiveSession ==
  [][\A c \in Orders :
       pc[c] # "acked" /\ pc'[c] = "acked" =>
         /\ state = "connected"
         /\ held[c] = wrapper
         /\ wrapper \in live
         /\ c \in staged[wrapper]]_vars

\* No started session is lost track of: what runs is the session _wrapper
\* names. An orphan would keep the local port and block every later connect.
NoOrphanSession == live \subseteq {wrapper}

\* The owner of the lock has dropped the session and is about to say so.
TearingDown == sup = "failShow" \/ \E o \in Operators : op[o] = "tornDown"

\* CONNECTED is never shown without a running session whose controls have been
\* engaged, whatever the interleaving of drops, rebuilds and disconnects, except
\* between the thread that drops the session and the task that awaits it.
ConnectedIsLive ==
  state = "connected" /\ ~TearingDown => wrapper \in live /\ wrapper \in engaged

\* Once disconnect has shown DISCONNECTED, nothing is left behind that could
\* reopen the link or move the ship: no supervisor, no running session.
DisconnectedIsQuiet ==
  state = "disconnected" => sup = "off" /\ wrapper = NoSession /\ live = {}

\* What real.py:29-33 says of a failure: an order reported failed, for whatever
\* reason, never fires later.
FailedOrderNeverFires ==
  [][\A c \in Orders :
       pc[c] \in {"refused", "undelivered", "error"} /\ c \notin executed
         => c \notin executed']_vars

-----------------------------------------------------------------------------
(* The link implements the promise of HelmService.                         *)

LinkShown ==
  CASE state = "connected" -> "up"
    [] state = "disconnected" -> "off"
    [] OTHER -> "down"

AnswerShown ==
  [c \in Orders |->
     CASE pc[c] = "idle" -> "none"
       [] pc[c] = "acked" -> "acked"
       [] pc[c] \in {"refused", "undelivered"} -> "failed"
       [] pc[c] \in {"error", "cancelled"} \cup Late -> "unknown"
       [] OTHER -> "waiting"]

Helm == INSTANCE HelmService WITH link <- LinkShown, answer <- AnswerShown, moved <- executed

\* The client keeps the SimulatorClient protocol's promises: orders reported
\* failed by the link never fire later, acknowledgments are given over a link
\* that is up, and a disconnected link comes up only through connect.
ImplementsHelm == Helm!HelmSpec

\* With calls cancelled at any await, orders are still issued once and answered at
\* most once, acknowledged only while the link is up, and the link comes up only
\* through connect.
ImplementsLateHelm == Helm!LateSpec

-----------------------------------------------------------------------------
(* The inductive invariant of Spec behind the safety properties.           *)

SupOwnsLock == {"build", "snapshot", "drop", "failDrop", "failShow"}
OpOwnsLock == {"cancelling", "awaiting", "teardown", "tornDown"}

\* The lock's owner is the one task inside a locked section.
LockDiscipline ==
  /\ lock = Supervisor <=> sup \in SupOwnsLock
  /\ \A c \in Clients : lock = c <=> pc[c] \in OwnsLock
  /\ \A o \in Operators : lock = o <=> op[o] \in OpOwnsLock

\* Calls run to their end, and a disconnect gets its supervisor cancelled.
NothingLeftOver ==
  /\ \A c \in Clients : pc[c] \notin Late
  /\ \A o \in Operators :
       /\ op[o] \in {"teardown", "tornDown"} => sup = "off"
       /\ op[o] = "tornDown" => wrapper = NoSession

\* A client call inside its locked section works on the current session.
HeldIsCurrent ==
  \A c \in Clients :
    /\ pc[c] \in OwnsLock => held[c] = wrapper /\ wrapper \in live
    /\ pc[c] \in OwnsLock \ {"drop"} => state = "connected"
    /\ pc[c] = "drop" => state = "stale"

\* The running session is the one _wrapper names.
SessionTracked == live = {wrapper} \ {NoSession}

\* What the shown state says of the supervisor and of the session.
StateShown ==
  /\ ConnectedIsLive
  /\ state = "disconnected" => sup = "off" /\ wrapper = NoSession
  /\ sup = "drop" => state = "stale"

\* An order is in a session only while that session runs, and only while the
\* order is being confirmed or has been acknowledged, or ended in an error.
StagedIsOwed ==
  \A c \in Orders :
    /\ \A s \in Sessions : c \in staged[s] \cup written[s] =>
         s \in live /\ pc[c] \in {"confirm", "drop", "acked", "error"}
    /\ pc[c] = "confirm" => c \in staged[wrapper]

IInv ==
  /\ TypeOK
  /\ LockDiscipline
  /\ NothingLeftOver
  /\ HeldIsCurrent
  /\ SessionTracked
  /\ StateShown
  /\ StagedIsOwed

-----------------------------------------------------------------------------
(* What remains of the safety properties when calls are cancelled.         *)

\* Sessions that a thread of a cancelled call has taken away and will stop.
Stopping == {held[c] : c \in {d \in Orders : pc[d] = "lateStop"}}

\* Every running session is the one _wrapper names, or a thread that outlived its
\* call is about to stop it (_drop_session).
NoSessionLeaks == live \subseteq {wrapper} \cup Stopping

\* After disconnect nothing can reopen the link, and what still runs ends.
QuietButStopping ==
  state = "disconnected" => sup = "off" /\ wrapper = NoSession /\ live \subseteq Stopping

\* A session that is shown as CONNECTED runs and has its controls engaged; it may
\* have been taken away, in which case _require_live refuses every order.
ConnectedOrTaken == state = "connected" /\ wrapper # NoSession => wrapper \in live \cap engaged

\* An order that was refused or reported undelivered is in no running session,
\* unless that session is being stopped.
FailedIsStopping ==
  \A c \in Orders, s \in live :
    pc[c] \in {"refused", "undelivered"} /\ c \in staged[s] \cup written[s] => s \in Stopping

\* However calls are cancelled, the threads they leave behind (real.py:436, 451)
\* lose no session, reopen nothing, and let a failed order live no longer than
\* the session they are stopping.
CancellationContained ==
  NoSessionLeaks /\ QuietButStopping /\ ConnectedOrTaken /\ FailedIsStopping

\* The one way in which an order reported failed can still move the ship: a frame
\* reaches its session between the two halves of a late _drop_session.
GhostOnlyWhileStopping ==
  [][\A c \in Orders :
       pc[c] \in {"refused", "undelivered"} /\ c \notin executed /\ c \in executed' =>
         \E s \in Stopping : c \in written[s]]_vars

\* An order is acknowledged over a link shown as up, and on the session it was
\* given to: that session may have been taken away, never replaced by another.
AckNeverOnAnother ==
  [][\A c \in Orders :
       pc[c] # "acked" /\ pc'[c] = "acked" =>
         state = "connected" /\ wrapper \in {held[c], NoSession}]_vars

\* A late thread stops a session that runs, that _wrapper no longer names, and
\* that no other thread stops.
OneStops ==
  /\ Stopping \subseteq live \ {wrapper}
  /\ \A s, t \in live : s = t
  /\ \A c, d \in Orders : pc[c] = "lateStop" /\ pc[d] = "lateStop" => c = d
  /\ wrapper # NoSession => wrapper \in live

\* The owner of the lock keeps the session it was given, unless a late thread took it.
HeldOrTaken ==
  \A c \in Clients :
    /\ pc[c] \in OwnsLock => wrapper \in {held[c], NoSession}
    /\ pc[c] \in OwnsLock \ {"drop"} => state = "connected"
    /\ pc[c] = "drop" => state = "stale"
    /\ pc[c] \in OwnsLock \cup Late => held[c] \in Sessions
    /\ c \in Readers => pc[c] \in {"idle", "lock", "read"} \cup Ended

\* Where the supervisor is, and what is shown meanwhile.
SupShown ==
  /\ sup = "build" => state = "connecting" /\ wrapper = NoSession
  /\ sup = "drop" => state = "stale"
  /\ sup = "failShow" => wrapper = NoSession
  /\ \A o \in Operators :
       /\ op[o] \in {"teardown", "tornDown"} => sup = "off"
       /\ op[o] = "tornDown" => wrapper = NoSession

\* An order is in a running session only after it was staged, and while it is
\* being confirmed it is in no session but its own.
StagedOnce ==
  \A c \in Orders, s \in live :
    c \in staged[s] \cup written[s] =>
      /\ pc[c] \in {"confirm", "drop", "acked", "error", "undelivered"} \cup
                    {"lateDrop", "lateStop", "cancelled"}
      /\ pc[c] \in {"confirm", "drop"} => s = held[c]

\* The inductive invariant of CancelSpec.
CancelInv ==
  /\ TypeOK
  /\ LockDiscipline
  /\ CancellationContained
  /\ OneStops
  /\ HeldOrTaken
  /\ SupShown
  /\ StagedOnce

-----------------------------------------------------------------------------
(* Liveness.                                                               *)

\* Every helm or engine order that was issued is answered, or its caller is
\* gone: nothing under the lock waits forever.
OrdersAnswered == \A c \in Orders : pc[c] = "lock" ~> pc[c] \in Ended

\* disconnect always returns (real.py:155-156: everything held under the lock
\* is bounded), though it awaits the supervisor while it owns the lock that the
\* supervisor may be waiting for.
DisconnectReturns == \A o \in Operators : op[o] = "disconnect" ~> op[o] = "idle"

\* A link whose simulator fell silent for good stops being shown as CONNECTED.
SilenceNoticed == <>[](~simUp) => <>[](state # "connected")

\* With a supervisor running, a simulator that broadcasts and a wrapper that
\* works, the link comes up and stays up, whatever happened before: failed
\* builds, lost links, cancelled calls.
LinkRecovers ==
  <>[](simUp /\ ~faulty /\ sup # "off") => <>[](state = "connected")
=============================================================================
