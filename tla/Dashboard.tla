----------------------------- MODULE Dashboard ------------------------------
(***************************************************************************)
(* What the operator is shown of the ship and of its link: the link state  *)
(* listener, the telemetry publisher and the orders publish on the         *)
(* EventBus (voice_agent/api/events.py), one /ws/events handler per        *)
(* connection (voice_agent/api/app.py) forwards its queue, and every open  *)
(* dashboard (frontend/src/lib/api/events.ts, liveState.svelte.ts) applies *)
(* the stream and the REST snapshot it asks for when a stream opens.       *)
(*                                                                         *)
(* One event loop runs the server: what happens between two awaits is one  *)
(* action. Events are named by their place in the log of everything that   *)
(* was published, link states by the number of changes that led to them,   *)
(* ship states by the order in which they were read off the simulator. The *)
(* reply and the action of a turn, published back to back, are one event.  *)
(***************************************************************************)
EXTENDS Naturals, Sequences

CONSTANTS
  Dashboards,   \* browser tabs
  QueueSize,    \* per_subscriber_queue_size
  MaxChanges,   \* bound: link state changes
  MaxSamples,   \* bound: ship states read
  MaxTurns,     \* bound: orders and status queries
  MaxOpens      \* bound: connections a tab opens

ASSUME BoundsArePositive ==
  /\ QueueSize \in Nat \ {0}
  /\ MaxChanges \in Nat
  /\ MaxSamples \in Nat
  /\ MaxTurns \in Nat
  /\ MaxOpens \in Nat

VARIABLES
  link,      \* number of the link's current state
  lock,      \* who owns the simulator's lock
  reader,    \* where telemetry and the order under way are
  sample,    \* the ship state each of them has read
  samples,   \* ship states read so far
  log,       \* every event that was published
  handler,   \* where the ws_events call of a connection is
  queue,     \* its queue on the bus
  hand,      \* the event it is sending, 0 if none
  missed,    \* connections the bus dropped an event of
  page,      \* state of a tab's event stream
  opens,     \* connections the tab has opened
  pos,       \* the last event the tab applied from a connection
  fetch,     \* where the snapshot request of a connection is
  snap,      \* the link state it was answered with
  shown,     \* link state on the tab
  ship,      \* ship state on the tab
  gap,       \* connections whose snapshot was read, and became old, before
             \* their handler subscribed (history)
  known      \* the newest link state the tab was ever told of (history)

simVars == <<link, lock, reader, sample, samples>>
busVars == <<log, handler, queue, hand, missed, gap>>
netVars == <<page, opens, fetch, snap>>
tabVars == <<pos, shown, ship, known>>
vars == <<simVars, busVars, netVars, tabVars>>

Readers == {"telemetry", "order"}

Connections == Dashboards \X (1 .. MaxOpens)

\* The link comes up and goes down in turn.
Connected == link % 2 = 1

Newer(m, n) == IF m < n THEN n ELSE m

Current(d) == <<d, opens[d]>>

\* The browser still has this connection.
Alive(k) == k = Current(k[1]) /\ page[k[1]] \in {"connecting", "open"}

\* EventBus._subscribers.
Subscribed(k) == handler[k] \in {"waiting", "sending"}

Init ==
  /\ link = 0
  /\ lock = "free" /\ samples = 0
  /\ reader = [p \in Readers |-> "idle"]
  /\ sample = [p \in Readers |-> 0]
  /\ log = <<>> /\ missed = {}
  /\ handler = [k \in Connections |-> "none"]
  /\ queue = [k \in Connections |-> <<>>]
  /\ hand = [k \in Connections |-> 0]
  /\ page = [d \in Dashboards |-> "closed"]
  /\ opens = [d \in Dashboards |-> 0]
  /\ pos = [k \in Connections |-> 0]
  /\ fetch = [k \in Connections |-> "none"]
  /\ snap = [k \in Connections |-> 0]
  /\ shown = [d \in Dashboards |-> 0]
  /\ ship = [d \in Dashboards |-> 0]
  /\ gap = {}
  /\ known = [d \in Dashboards |-> 0]

-----------------------------------------------------------------------------
(* EventBus.                                                               *)

Event(kind, number) == [kind |-> kind, number |-> number]

\* How many of n events published in one go find room in a queue.
Room(k, n) == IF QueueSize - Len(queue[k]) < n THEN QueueSize - Len(queue[k]) ELSE n

\* Variant, not in Next: a full queue of one subscriber ends the fan-out.
PublishOrRaise(events) ==
  LET n == Len(events)
      stuck == \E k \in Connections : Subscribed(k) /\ Room(k, n) < n
  IN  /\ log' = log \o events
      /\ queue' = [k \in Connections |->
           IF Subscribed(k) /\ ~stuck
           THEN queue[k] \o [i \in 1 .. n |-> Len(log) + i] ELSE queue[k]]
      /\ missed' = missed \cup {k \in Connections : Subscribed(k) /\ Room(k, n) < n}

\* publish: a full queue loses the event for that subscriber only.
Publish(events) ==
  LET n == Len(events)
  IN  /\ log' = log \o events
      /\ queue' = [k \in Connections |->
           IF Subscribed(k)
           THEN queue[k] \o [i \in 1 .. Room(k, n) |-> Len(log) + i] ELSE queue[k]]
      /\ missed' = missed \cup {k \in Connections : Subscribed(k) /\ Room(k, n) < n}

-----------------------------------------------------------------------------
(* The simulator link and its readers.                                     *)

\* _set_state with the listener of build_shared_backends.
LinkChanges ==
  /\ link < MaxChanges
  /\ link' = link + 1
  /\ Publish(<<Event("link", link + 1)>>)
  /\ UNCHANGED <<lock, reader, sample, samples, handler, hand, gap, netVars, tabVars>>

\* A tick of run_ship_state_publisher, or an order or status query dispatched:
\* a free lock is taken without waiting.
Asks(p) ==
  /\ reader[p] = "idle"
  /\ samples < MaxSamples
  /\ CASE p = "telemetry" -> Connected
       [] p = "order" -> Len(SelectSeq(log, LAMBDA e : e.kind = "turn")) < MaxTurns
  /\ reader' = [reader EXCEPT ![p] = IF lock = "free" THEN "locked" ELSE "waiting"]
  /\ lock' = IF lock = "free" THEN p ELSE lock
  /\ UNCHANGED <<link, sample, samples, busVars, netVars, tabVars>>

\* Variant, not in Next: the ship is read without the lock.
LocksNothing(p) ==
  /\ reader[p] = "waiting"
  /\ lock' = lock
  /\ reader' = [reader EXCEPT ![p] = "locked"]
  /\ UNCHANGED <<link, sample, samples, busVars, netVars, tabVars>>

Locks(p) ==
  /\ reader[p] = "waiting"
  /\ lock = "free"
  /\ lock' = p
  /\ reader' = [reader EXCEPT ![p] = "locked"]
  /\ UNCHANGED <<link, sample, samples, busVars, netVars, tabVars>>

\* wrapper.snapshot in a thread; an order reads until its delivery is proven.
Samples(p) ==
  /\ reader[p] = "locked" \/ (p = "order" /\ reader[p] = "sampled")
  /\ samples < MaxSamples
  /\ samples' = samples + 1
  /\ sample' = [sample EXCEPT ![p] = samples + 1]
  /\ reader' = [reader EXCEPT ![p] = "sampled"]
  /\ UNCHANGED <<link, lock, busVars, netVars, tabVars>>

\* The lock is released and the state published in one run of the loop, after
\* the reply and the action of an order.
Returns(p) ==
  /\ reader[p] = "sampled"
  /\ reader' = [reader EXCEPT ![p] = "idle"]
  /\ lock' = IF lock = p THEN "free" ELSE lock
  /\ Publish(IF p = "order"
             THEN <<Event("turn", 0), Event("ship", sample[p])>>
             ELSE <<Event("ship", sample[p])>>)
  /\ UNCHANGED <<link, sample, samples, handler, hand, gap, netVars, tabVars>>

\* SimulatorError: telemetry skips the tick, an order is refused.
Fails(p) ==
  /\ reader[p] \in {"locked", "sampled"}
  /\ reader' = [reader EXCEPT ![p] = "idle"]
  /\ lock' = IF lock = p THEN "free" ELSE lock
  /\ IF p = "order" THEN Publish(<<Event("turn", 0)>>)
                    ELSE UNCHANGED <<log, queue, missed>>
  /\ UNCHANGED <<link, sample, samples, handler, hand, gap, netVars, tabVars>>

-----------------------------------------------------------------------------
(* ws_events.                                                              *)

\* Nothing published so far is for the new queue.
Subscribes(k) ==
  /\ handler[k] = "accepted"
  /\ handler' = [handler EXCEPT ![k] = "waiting"]
  /\ pos' = [pos EXCEPT ![k] = Len(log)]
  /\ gap' = IF fetch[k] \in {"answered", "done"} /\ snap[k] < link THEN gap \cup {k} ELSE gap
  /\ UNCHANGED <<simVars, log, queue, hand, missed, netVars, shown, ship, known>>

Takes(k) ==
  /\ handler[k] = "waiting"
  /\ queue[k] # <<>>
  /\ handler' = [handler EXCEPT ![k] = "sending"]
  /\ hand' = [hand EXCEPT ![k] = Head(queue[k])]
  /\ queue' = [queue EXCEPT ![k] = Tail(queue[k])]
  /\ UNCHANGED <<simVars, log, missed, gap, netVars, tabVars>>

\* send_text and onEvent: the tab applies the event.
Sends(k) ==
  LET d == k[1]
      event == log[hand[k]]
  IN  /\ handler[k] = "sending"
      /\ k = Current(d) /\ page[d] = "open"
      /\ handler' = [handler EXCEPT ![k] = "waiting"]
      /\ hand' = [hand EXCEPT ![k] = 0]
      /\ pos' = [pos EXCEPT ![k] = hand[k]]
      /\ shown' = [shown EXCEPT ![d] = IF event.kind = "link" THEN event.number ELSE @]
      /\ ship' = [ship EXCEPT ![d] = IF event.kind = "ship" THEN event.number ELSE @]
      /\ known' = [known EXCEPT ![d] = Newer(@, shown'[d])]
      /\ UNCHANGED <<simVars, log, queue, missed, gap, netVars>>

\* Only a send tells that the browser is gone; then the queue leaves the bus.
SendFails(k) ==
  /\ handler[k] = "sending"
  /\ ~Alive(k)
  /\ handler' = [handler EXCEPT ![k] = "gone"]
  /\ hand' = [hand EXCEPT ![k] = 0]
  /\ queue' = [queue EXCEPT ![k] = <<>>]
  /\ missed' = missed \ {k}
  /\ UNCHANGED <<simVars, log, gap, netVars, tabVars>>

-----------------------------------------------------------------------------
(* The browser tab: EventStream and liveState.                             *)

\* connect, and the retry a second after a close; the server accepts.
Opens(d) ==
  LET k == <<d, opens[d] + 1>>
  IN  /\ page[d] = "closed"
      /\ opens[d] < MaxOpens
      /\ page' = [page EXCEPT ![d] = "connecting"]
      /\ opens' = [opens EXCEPT ![d] = @ + 1]
      /\ handler' = [handler EXCEPT ![k] = "accepted"]
      /\ UNCHANGED <<simVars, log, queue, hand, missed, gap, fetch, snap, tabVars>>

\* Variant, not in Next: the snapshot is fetched on the first open only.
SeesOpenOnce(d) ==
  /\ page[d] = "connecting"
  /\ page' = [page EXCEPT ![d] = "open"]
  /\ fetch' = IF opens[d] = 1 THEN [fetch EXCEPT ![Current(d)] = "asked"] ELSE fetch
  /\ UNCHANGED <<simVars, busVars, opens, snap, tabVars>>

\* The stream is open: refreshSnapshots.
SeesOpen(d) ==
  /\ page[d] = "connecting"
  /\ page' = [page EXCEPT ![d] = "open"]
  /\ fetch' = [fetch EXCEPT ![Current(d)] = "asked"]
  /\ UNCHANGED <<simVars, busVars, opens, snap, tabVars>>

\* GET /api/control/simulator reads the link state.
Answers(k) ==
  /\ fetch[k] = "asked"
  /\ fetch' = [fetch EXCEPT ![k] = "answered"]
  /\ snap' = [snap EXCEPT ![k] = link]
  /\ UNCHANGED <<simVars, busVars, page, opens, tabVars>>

\* The response is applied, whatever arrived in the meantime.
SnapshotArrives(k) ==
  /\ fetch[k] = "answered"
  /\ fetch' = [fetch EXCEPT ![k] = "done"]
  /\ shown' = [shown EXCEPT ![k[1]] = snap[k]]
  /\ known' = [known EXCEPT ![k[1]] = Newer(@, snap[k])]
  /\ UNCHANGED <<simVars, busVars, page, opens, snap, pos, ship>>

\* The request or its response is lost.
SnapshotFails(k) ==
  /\ fetch[k] = "asked"
  /\ fetch' = [fetch EXCEPT ![k] = "failed"]
  /\ UNCHANGED <<simVars, busVars, page, opens, snap, tabVars>>

\* The connection is lost with what was sent on it, or the tab is closed.
Breaks(d) ==
  /\ page[d] \in {"connecting", "open"}
  /\ \/ page' = [page EXCEPT ![d] = "closed"] /\ opens[d] < MaxOpens
     \/ page' = [page EXCEPT ![d] = "left"]
  /\ UNCHANGED <<simVars, busVars, opens, fetch, snap, tabVars>>

-----------------------------------------------------------------------------

ReaderStep(p) == Locks(p) \/ Samples(p) \/ Returns(p) \/ Fails(p)

HandlerStep(k) == Subscribes(k) \/ Takes(k) \/ Sends(k) \/ SendFails(k)

BrowserStep(d) == Opens(d) \/ SeesOpen(d)

FetchStep(k) == Answers(k) \/ SnapshotArrives(k) \/ SnapshotFails(k)

Next ==
  \/ LinkChanges
  \/ \E p \in Readers : Asks(p) \/ ReaderStep(p)
  \/ \E k \in Connections : HandlerStep(k) \/ FetchStep(k)
  \/ \E d \in Dashboards : BrowserStep(d) \/ Breaks(d)

Spec == Init /\ [][Next]_vars

-----------------------------------------------------------------------------
(* Properties.                                                             *)

TypeOK ==
  /\ link \in 0 .. MaxChanges
  /\ lock \in Readers \cup {"free"}
  /\ reader \in [Readers -> {"idle", "waiting", "locked", "sampled"}]
  /\ samples \in 0 .. MaxSamples
  /\ sample \in [Readers -> 0 .. MaxSamples]
  /\ log \in Seq([kind : {"link", "ship", "turn"}, number : Nat])
  /\ handler \in [Connections ->
       {"none", "accepted", "waiting", "sending", "gone"}]
  /\ queue \in [Connections -> Seq(DOMAIN log)]
  /\ hand \in [Connections -> DOMAIN log \cup {0}]
  /\ missed \subseteq Connections
  /\ page \in [Dashboards -> {"connecting", "open", "closed", "left"}]
  /\ opens \in [Dashboards -> 0 .. MaxOpens]
  /\ pos \in [Connections -> DOMAIN log \cup {0}]
  /\ fetch \in [Connections -> {"none", "asked", "answered", "done", "failed"}]
  /\ snap \in [Connections -> 0 .. MaxChanges]
  /\ shown \in [Dashboards -> 0 .. MaxChanges]
  /\ ship \in [Dashboards -> 0 .. MaxSamples]
  /\ gap \subseteq Connections
  /\ known \in [Dashboards -> 0 .. MaxChanges]

\* The events a subscriber has not applied yet, oldest first.
Pending(k) ==
  IF hand[k] = 0 THEN queue[k] ELSE <<hand[k]>> \o queue[k]

\* The stream of a live subscriber is in order and without repetition whatever
\* else happens on the bus, and as long as its own queue never ran full it has
\* lost nothing published since it subscribed: one subscriber's full queue is
\* no other's loss (EventBus.publish, ws_events).
StreamIntact ==
  \A k \in Connections : Subscribed(k) /\ Alive(k) =>
    /\ \A i \in DOMAIN Pending(k) :
         Pending(k)[i] > IF i = 1 THEN pos[k] ELSE Pending(k)[i - 1]
    /\ k \notin missed => Pending(k) = [i \in 1 .. Len(log) - pos[k] |-> pos[k] + i]

\* The ship panel never goes back in time, not across a reconnect either,
\* although telemetry and orders read and publish ship states independently
\* (run_ship_state_publisher, _publish_turn_events, the lock of get_state).
ShipPanelMonotone == [][\A d \in Dashboards : ship'[d] >= ship[d]]_vars

\* Nothing is on its way to the tab.
Settled(d) ==
  /\ page[d] = "open"
  /\ Subscribed(Current(d))
  /\ Pending(Current(d)) = <<>>
  /\ \A n \in 1 .. opens[d] : fetch[<<d, n>>] \notin {"asked", "answered"}

\* A tab that has received everything shows the link as it is, unless its queue
\* ran full, its snapshot failed, or was answered before the handler had
\* subscribed to the changes that followed, or a snapshot arrived after a newer
\* event: there is no other way to be shown a stale link (refreshSnapshots,
\* onEvent, ws_events, _set_state).
SettledIsExplained ==
  \A d \in Dashboards : Settled(d) =>
    LET k == Current(d) IN
      \/ shown[d] = link
      \/ k \in missed
      \/ shown[d] < known[d]
      \/ fetch[k] = "failed"
      \/ k \in gap

=============================================================================
