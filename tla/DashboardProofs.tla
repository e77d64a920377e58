-------------------------- MODULE DashboardProofs ---------------------------
(***************************************************************************)
(* Proofs about Dashboard, for any number of tabs and connections and any  *)
(* queue size: every connection's stream is ordered and, until its queue   *)
(* overflows, complete; the ship panel never goes back in time; a settled  *)
(* tab with a stale link has one of the four known reasons.                *)
(***************************************************************************)
EXTENDS Dashboard, SequenceTheorems, TLAPS

Events == [kind : {"link", "ship", "turn"}, number : Nat]

\* The last event a connection took off its queue.
Taken(k) == IF hand[k] = 0 THEN pos[k] ELSE hand[k]

-----------------------------------------------------------------------------
(* The inductive invariant.                                                *)

\* The reader inside a call owns the lock.
LockOwned == \A p \in Readers : reader[p] \in {"locked", "sampled"} <=> lock = p

\* Ship states are published in the order in which they were read.
ShipsInOrder ==
  /\ \A p \in Readers : sample[p] <= samples
  /\ \A i \in DOMAIN log : log[i].kind = "ship" =>
       /\ log[i].number <= samples
       /\ \A p \in Readers : reader[p] = "sampled" => log[i].number <= sample[p]
       /\ \A j \in DOMAIN log : log[j].kind = "ship" /\ i <= j => log[i].number <= log[j].number

\* Every change of the link is published, with its number.
LinksPublished ==
  /\ \A i \in DOMAIN log : log[i].kind = "link" => log[i].number <= link
  /\ link = 0 \/ \E i \in DOMAIN log : log[i] = Event("link", link)

\* A handler holds an event exactly while it sends; only a subscriber has a queue.
HandlerHolds ==
  \A k \in Connections :
    /\ hand[k] # 0 <=> handler[k] = "sending"
    /\ ~Subscribed(k) => queue[k] = <<>>
    /\ Len(queue[k]) <= QueueSize

\* A queue is in order and behind what was taken from it ...
QueueInOrder ==
  \A k \in Connections :
    /\ hand[k] # 0 => pos[k] < hand[k]
    /\ \A i \in DOMAIN queue[k] :
         /\ Taken(k) < queue[k][i]
         /\ \A j \in DOMAIN queue[k] : i < j => queue[k][i] < queue[k][j]

\* ... and without a hole if the bus never dropped an event of it.
QueueWhole ==
  \A k \in Connections : Subscribed(k) /\ k \notin missed =>
    /\ hand[k] # 0 => hand[k] = pos[k] + 1
    /\ Len(queue[k]) = Len(log) - Taken(k)
    /\ \A i \in DOMAIN queue[k] : queue[k][i] = Taken(k) + i

\* The ship state on a tab was published, and not after what the tab's stream
\* has come to.
ShipWasPublished ==
  \A d \in Dashboards : ship[d] = 0 \/
    \E i \in DOMAIN log :
      /\ log[i] = Event("ship", ship[d])
      /\ \A k \in Connections : k = Current(d) /\ Subscribed(k) => i <= pos[k]

\* What a tab shows it was told, and what it was told was once so.
TabWasTold ==
  /\ \A d \in Dashboards : shown[d] <= known[d] /\ known[d] <= link
  /\ \A k \in Connections :
       /\ snap[k] <= link
       /\ fetch[k] = "done" => snap[k] <= known[k[1]]

\* A tab whose stream is open has asked for a snapshot on it.
OpenHasAsked ==
  \A d \in Dashboards :
    /\ page[d] \in {"connecting", "open"} => opens[d] # 0
    /\ page[d] = "open" => fetch[Current(d)] # "none"

\* A snapshot that was not answered too early, and the stream up to where the
\* tab has applied it, leave no change of the link out.
SnapshotBridges ==
  \A k \in Connections : \A i \in DOMAIN log :
    /\ Subscribed(k) /\ k \notin missed /\ k \notin gap
    /\ i <= pos[k] /\ log[i].kind = "link"
    => /\ fetch[k] = "answered" => log[i].number <= Newer(known[k[1]], snap[k])
       /\ fetch[k] = "done" => log[i].number <= known[k[1]]

\* A connection that the tab has not opened has no handler.
UnopenedHasNone ==
  \A d \in Dashboards, n \in 1 .. MaxOpens : n > opens[d] => handler[<<d, n>>] = "none"

SimInv == LockOwned /\ ShipsInOrder /\ LinksPublished
BusInv == HandlerHolds /\ QueueInOrder /\ QueueWhole
TabInv == ShipWasPublished /\ TabWasTold /\ OpenHasAsked /\ SnapshotBridges /\ UnopenedHasNone

IInv == TypeOK /\ SimInv /\ BusInv /\ TabInv

-----------------------------------------------------------------------------
(* Sequences.                                                              *)

\* Two sequences one behind the other.
LEMMA Joined ==
  ASSUME NEW S, NEW s \in Seq(S), NEW t \in Seq(S)
  PROVE  /\ s \o t \in Seq(S)
         /\ Len(s) \in Nat /\ Len(t) \in Nat
         /\ Len(s \o t) = Len(s) + Len(t)
         /\ DOMAIN s = 1 .. Len(s) /\ DOMAIN t = 1 .. Len(t)
         /\ DOMAIN (s \o t) = 1 .. Len(s) + Len(t)
         /\ \A i \in 1 .. Len(s) : (s \o t)[i] = s[i]
         /\ \A i \in 1 .. Len(t) : (s \o t)[Len(s) + i] = t[i]
  OBVIOUS

\* A sequence without its first element.
LEMMA Rest ==
  ASSUME NEW S, NEW s \in Seq(S), s # <<>>
  PROVE  /\ Tail(s) \in Seq(S) /\ Head(s) \in S /\ Head(s) = s[1]
         /\ Len(s) \in Nat \ {0} /\ Len(Tail(s)) = Len(s) - 1
         /\ DOMAIN s = 1 .. Len(s) /\ DOMAIN Tail(s) = 1 .. Len(s) - 1
         /\ \A i \in 1 .. Len(s) - 1 : Tail(s)[i] = s[i + 1]
  OBVIOUS

\* A queue that the bus puts the next m events behind.
LEMMA Queued ==
  ASSUME NEW n \in Nat, NEW m \in Nat, NEW top \in Nat, n + m <= top,
         NEW q \in Seq(1 .. n)
  PROVE  LET r == q \o [i \in 1 .. m |-> n + i]
         IN  /\ r \in Seq(1 .. top)
             /\ Len(r) = Len(q) + m /\ DOMAIN r = 1 .. Len(q) + m
             /\ \A i \in 1 .. Len(q) : r[i] = q[i]
             /\ \A i \in 1 .. m : r[Len(q) + i] = n + i
<1> DEFINE new == [i \in 1 .. m |-> n + i]
           S == 1 .. top
<1>1. new \in Seq(S) /\ Len(new) = m /\ \A i \in 1 .. m : new[i] = n + i
  OBVIOUS
<1>2. q \in Seq(S)
  <2>1. 1 .. n \subseteq 1 .. top
    OBVIOUS
  <2> QED
    BY <2>1, SeqMonotonic
<1>3. SUFFICES
        /\ q \o new \in Seq(S)
        /\ Len(q \o new) = Len(q) + m /\ DOMAIN (q \o new) = 1 .. Len(q) + m
        /\ \A i \in 1 .. Len(q) : (q \o new)[i] = q[i]
        /\ \A i \in 1 .. m : (q \o new)[Len(q) + i] = n + i
  BY Zenon
<1> HIDE DEF new, S
<1>4. q \o new \in Seq(S) /\ Len(q \o new) = Len(q) + Len(new)
  BY <1>1, <1>2, ConcatProperties
<1>5. DOMAIN (q \o new) = 1 .. Len(q) + Len(new)
  BY <1>4, LenProperties
<1>6. /\ \A i \in 1 .. Len(q) : (q \o new)[i] = q[i]
      /\ \A i \in 1 .. Len(new) : (q \o new)[Len(q) + i] = new[i]
  BY <1>1, <1>2, Joined
<1> QED
  BY <1>1, <1>4, <1>5, <1>6

\* The first l elements of q are in order and beyond t ...
InOrder(q, l, t) ==
  \A i \in 1 .. l : t < q[i] /\ \A j \in 1 .. l : i < j => q[i] < q[j]

\* ... and are the ones that follow t.
Follow(q, l, t) == \A i \in 1 .. l : q[i] = t + i

\* r is q with the m events after the n-th behind it.
IsQueued(r, q, l, m, n) ==
  /\ \A i \in 1 .. l : r[i] = q[i] /\ q[i] \in 1 .. n
  /\ \A i \in 1 .. m : r[l + i] = n + i

\* Such a queue stays in order, and whole.
LEMMA StaysInOrder ==
  ASSUME NEW n \in Nat, NEW l \in Nat, NEW m \in Nat, NEW t \in 0 .. n, NEW q, NEW r,
         IsQueued(r, q, l, m, n), InOrder(q, l, t)
  PROVE  /\ InOrder(r, l + m, t)
         /\ l = n - t /\ Follow(q, l, t) => Follow(r, l + m, t)
<1>1. ASSUME NEW i \in 1 .. l + m, i \notin 1 .. l PROVE r[i] = n + (i - l)
  <2>1. i - l \in 1 .. m /\ l + (i - l) = i
    BY <1>1
  <2> QED
    BY <2>1 DEF IsQueued
<1>2. InOrder(r, l + m, t)
  BY <1>1 DEF IsQueued, InOrder
<1>3. l = n - t /\ Follow(q, l, t) => Follow(r, l + m, t)
  BY <1>1 DEF IsQueued, Follow
<1> QED
  BY <1>2, <1>3

LEMMA OneEvent ==
  ASSUME NEW e \in Events
  PROVE  <<e>> \in Seq(Events) /\ Len(<<e>>) = 1 /\ <<e>>[1] = e
  OBVIOUS

LEMMA TwoEvents ==
  ASSUME NEW e \in Events, NEW f \in Events
  PROVE  <<e, f>> \in Seq(Events) /\ Len(<<e, f>>) = 2 /\ <<e, f>>[1] = e /\ <<e, f>>[2] = f
  OBVIOUS

-----------------------------------------------------------------------------
(* The bus.                                                                *)

\* What a publication does to the log.
LEMMA LogGrows ==
  ASSUME TypeOK, NEW events \in Seq(Events), Publish(events)
  PROVE  /\ log' \in Seq(Events) /\ Len(log) \in Nat /\ Len(events) \in Nat
         /\ Len(log') = Len(log) + Len(events)
         /\ DOMAIN log = 1 .. Len(log) /\ DOMAIN log' = 1 .. Len(log) + Len(events)
         /\ \A i \in DOMAIN log : log'[i] = log[i]
         /\ \A i \in 1 .. Len(events) : log'[Len(log) + i] = events[i]
<1>1. log' = log \o events /\ log \in Seq(Events)
  BY DEF Publish, TypeOK, Events
<1> QED
  BY <1>1, Joined

\* The commonest publication.
LEMMA LogGrowsByOne ==
  ASSUME TypeOK, NEW e \in Events, Publish(<<e>>)
  PROVE  /\ Len(log) \in Nat /\ DOMAIN log = 1 .. Len(log) /\ DOMAIN log' = 1 .. Len(log) + 1
         /\ \A i \in DOMAIN log : log'[i] = log[i]
         /\ log'[Len(log) + 1] = e
<1>1. <<e>> \in Seq(Events) /\ Len(<<e>>) = 1 /\ <<e>>[1] = e
  BY OneEvent
<1>2. /\ Len(log) \in Nat /\ DOMAIN log = 1 .. Len(log)
      /\ DOMAIN log' = 1 .. Len(log) + Len(<<e>>)
      /\ \A i \in DOMAIN log : log'[i] = log[i]
      /\ \A i \in 1 .. Len(<<e>>) : log'[Len(log) + i] = <<e>>[i]
  BY <1>1, LogGrows, Zenon
<1> QED
  BY <1>1, <1>2

\* The numbers in the log.
LEMMA LogTyped ==
  ASSUME TypeOK
  PROVE  \A i \in DOMAIN log :
           log[i].kind \in {"link", "ship", "turn"} /\ log[i].number \in Nat
<1>1. log \in Seq(Events)
  BY DEF TypeOK, Events
<1>2. \A i \in DOMAIN log : log[i] \in Events
  BY <1>1
<1> QED
  BY <1>2 DEF Events

\* What it does to the queue of one connection.
LEMMA QueueGrows ==
  ASSUME TypeOK, HandlerHolds, NEW events \in Seq(Events), Publish(events),
         NEW k \in Connections
  PROVE  \E m \in 0 .. Len(events) :
           /\ Subscribed(k) /\ k \notin missed' => m = Len(events)
           /\ queue'[k] \in Seq(DOMAIN log')
           /\ Len(queue[k]) \in Nat /\ Len(queue'[k]) = Len(queue[k]) + m
           /\ Len(queue[k]) + m <= QueueSize
           /\ DOMAIN queue[k] = 1 .. Len(queue[k])
           /\ DOMAIN queue'[k] = 1 .. Len(queue[k]) + m
           /\ \A i \in DOMAIN queue[k] : queue'[k][i] = queue[k][i]
           /\ \A i \in 1 .. m : queue'[k][Len(queue[k]) + i] = Len(log) + i
           /\ ~Subscribed(k) => queue'[k] = queue[k]
<1>1. /\ Len(log) \in Nat /\ Len(events) \in Nat /\ Len(log) + Len(events) \in Nat
      /\ DOMAIN log = 1 .. Len(log) /\ DOMAIN log' = 1 .. Len(log) + Len(events)
  BY LogGrows
<1>2. queue[k] \in Seq(1 .. Len(log))
  BY <1>1 DEF TypeOK
<1>3. Len(queue[k]) \in Nat /\ DOMAIN queue[k] = 1 .. Len(queue[k])
  BY <1>2
<1>4. CASE Subscribed(k)
  <2> DEFINE m == Room(k, Len(events))
  <2>1. Len(queue[k]) <= QueueSize /\ QueueSize \in Nat
    BY BoundsArePositive DEF HandlerHolds
  <2>2. m \in 0 .. Len(events) /\ Len(queue[k]) + m <= QueueSize
    <3> DEFINE l == Len(queue[k])
               n == Len(events)
    <3>1. m = IF QueueSize - l < n THEN QueueSize - l ELSE n
      BY DEF Room
    <3>2. l \in Nat /\ n \in Nat /\ l <= QueueSize
      BY <1>1, <1>3, <2>1
    <3> HIDE DEF l, n, m
    <3>3. m \in 0 .. n /\ l + m <= QueueSize
      BY <2>1, <3>1, <3>2
    <3> QED
      BY <3>3 DEF l, n
  <2>3. /\ queue'[k] = queue[k] \o [i \in 1 .. m |-> Len(log) + i]
        /\ k \notin missed' => ~(m < Len(events))
    BY <1>4 DEF Publish
  <2> HIDE DEF m
  <2>4. m \in Nat /\ Len(log) + m <= Len(log) + Len(events)
    BY <1>1, <2>2
  <2>5. /\ queue'[k] \in Seq(1 .. Len(log) + Len(events))
        /\ Len(queue'[k]) = Len(queue[k]) + m
        /\ DOMAIN queue'[k] = 1 .. Len(queue[k]) + m
        /\ \A i \in 1 .. Len(queue[k]) : queue'[k][i] = queue[k][i]
        /\ \A i \in 1 .. m : queue'[k][Len(queue[k]) + i] = Len(log) + i
    BY <1>1, <1>2, <2>3, <2>4, Queued, SMTT(60)
  <2>6. k \notin missed' => m = Len(events)
    BY <1>1, <2>2, <2>3
  <2> QED
    BY <1>1, <1>3, <1>4, <2>2, <2>5, <2>6
<1>5. CASE ~Subscribed(k)
  <2>1. queue'[k] = queue[k] /\ queue[k] = <<>> /\ Len(queue[k]) = 0
    BY <1>5 DEF Publish, HandlerHolds
  <2>2. queue'[k] \in Seq(1 .. Len(log) + Len(events))
    BY <2>1, EmptySeq
  <2> QED
    BY <1>1, <1>3, <1>5, <2>1, <2>2, BoundsArePositive
<1> QED
  BY <1>4, <1>5
\* A publication keeps every stream in order, and whole unless it is marked.
LEMMA PublishKeepsStreams ==
  ASSUME TypeOK, BusInv, NEW events \in Seq(Events), Publish(events),
         UNCHANGED <<handler, hand, pos>>
  PROVE  BusInv'
<1> USE DEF BusInv
<1>1. /\ Len(log) \in Nat /\ Len(events) \in Nat /\ Len(log') = Len(log) + Len(events)
      /\ DOMAIN log = 1 .. Len(log)
  BY LogGrows
<1>2. SUFFICES ASSUME NEW k \in Connections
               PROVE  /\ /\ hand'[k] # 0 <=> handler'[k] = "sending"
                         /\ ~Subscribed(k)' => queue'[k] = <<>>
                         /\ Len(queue'[k]) <= QueueSize
                      /\ /\ hand'[k] # 0 => pos'[k] < hand'[k]
                         /\ \A i \in DOMAIN queue'[k] :
                              /\ Taken(k)' < queue'[k][i]
                              /\ \A j \in DOMAIN queue'[k] : i < j => queue'[k][i] < queue'[k][j]
                      /\ Subscribed(k)' /\ k \notin missed' =>
                         /\ hand'[k] # 0 => hand'[k] = pos'[k] + 1
                         /\ Len(queue'[k]) = Len(log') - Taken(k)'
                         /\ \A i \in DOMAIN queue'[k] : queue'[k][i] = Taken(k)' + i
  <2>1. Connections' = Connections
    BY DEF Connections
  <2> QED
    BY <1>2, <2>1 DEF HandlerHolds, QueueInOrder, QueueWhole
<1>3. Taken(k)' = Taken(k) /\ (Subscribed(k)' <=> Subscribed(k)) /\ (k \in missed => k \in missed')
  BY DEF Taken, Subscribed, Publish
<1>4. Taken(k) \in 0 .. Len(log)
  BY <1>1 DEF TypeOK, Taken
<1>5. PICK m \in 0 .. Len(events) :
        /\ Subscribed(k) /\ k \notin missed' => m = Len(events)
        /\ Len(queue[k]) \in Nat /\ Len(queue'[k]) = Len(queue[k]) + m
        /\ Len(queue[k]) + m <= QueueSize
        /\ DOMAIN queue[k] = 1 .. Len(queue[k])
        /\ DOMAIN queue'[k] = 1 .. Len(queue[k]) + m
        /\ \A i \in DOMAIN queue[k] : queue'[k][i] = queue[k][i]
        /\ \A i \in 1 .. m : queue'[k][Len(queue[k]) + i] = Len(log) + i
        /\ ~Subscribed(k) => queue'[k] = queue[k]
  BY QueueGrows, Zenon
<1>6. IsQueued(queue'[k], queue[k], Len(queue[k]), m, Len(log))
  <2>1. queue[k] \in Seq(1 .. Len(log))
    BY <1>1 DEF TypeOK
  <2>2. \A i \in 1 .. Len(queue[k]) : queue[k][i] \in 1 .. Len(log)
    BY <2>1, <1>5, SMTT(60)
  <2> QED
    BY <1>5, <2>2 DEF IsQueued
<1>7. InOrder(queue[k], Len(queue[k]), Taken(k))
  BY <1>5 DEF QueueInOrder, InOrder
<1>8. m \in Nat
  BY <1>1, <1>5
<1>9. InOrder(queue'[k], Len(queue[k]) + m, Taken(k))
  BY <1>1, <1>4, <1>5, <1>6, <1>7, <1>8, StaysInOrder
<1>10. /\ hand'[k] # 0 <=> handler'[k] = "sending"
       /\ ~Subscribed(k)' => queue'[k] = <<>>
       /\ Len(queue'[k]) <= QueueSize
       /\ hand'[k] # 0 => pos'[k] < hand'[k]
  BY <1>3, <1>5 DEF HandlerHolds, QueueInOrder
<1>11. ASSUME Subscribed(k), k \notin missed'
       PROVE  /\ hand'[k] # 0 => hand'[k] = pos'[k] + 1
              /\ Len(queue'[k]) = Len(log') - Taken(k)'
              /\ \A i \in DOMAIN queue'[k] : queue'[k][i] = Taken(k)' + i
  <2>1. /\ hand[k] # 0 => hand[k] = pos[k] + 1
        /\ Len(queue[k]) = Len(log) - Taken(k)
        /\ Follow(queue[k], Len(queue[k]), Taken(k))
    BY <1>3, <1>5, <1>11 DEF QueueWhole, Follow
  <2>2. Follow(queue'[k], Len(queue[k]) + m, Taken(k))
    BY <1>1, <1>4, <1>5, <1>6, <1>7, <1>8, <2>1, StaysInOrder
  <2>3. Len(queue'[k]) = Len(log') - Taken(k)'
    <3>1. /\ Len(queue'[k]) = (Len(log) - Taken(k)) + Len(events)
          /\ Len(log') - Taken(k)' = (Len(log) + Len(events)) - Taken(k)
      BY <1>1, <1>3, <1>5, <1>11, <2>1, Zenon
    <3>2. (Len(log) - Taken(k)) + Len(events) = (Len(log) + Len(events)) - Taken(k)
      BY <1>1, <1>4
    <3> QED
      BY <3>1, <3>2
  <2> QED
    BY <1>3, <1>5, <2>1, <2>2, <2>3 DEF Follow
<1> QED
  BY <1>3, <1>5, <1>9, <1>10, <1>11 DEF InOrder

\* A publication leaves the tabs as they are.
LEMMA PublishKeepsTabs ==
  ASSUME TypeOK, TabInv, NEW events \in Seq(Events), Publish(events),
         link' \in Nat, link' >= link, UNCHANGED <<handler, hand, gap, netVars, tabVars>>
  PROVE  TabInv'
<1> USE DEF TabInv, netVars, tabVars
<1>1. /\ Len(log) \in Nat /\ Len(events) \in Nat
      /\ DOMAIN log = 1 .. Len(log) /\ DOMAIN log' = 1 .. Len(log) + Len(events)
      /\ \A i \in DOMAIN log : log'[i] = log[i]
  BY LogGrows
<1>2. Connections' = Connections /\ \A k : (Subscribed(k)' <=> Subscribed(k))
  BY DEF Connections, Subscribed
<1>3. \A d \in Dashboards : Current(d)' = Current(d)
  BY DEF Current
<1>4. ShipWasPublished'
  <2> SUFFICES ASSUME NEW d \in Dashboards, ship[d] # 0
               PROVE  \E i \in DOMAIN log' :
                        /\ log'[i] = Event("ship", ship[d])
                        /\ \A k \in Connections : k = Current(d) /\ Subscribed(k) => i <= pos[k]
    BY <1>2, <1>3 DEF ShipWasPublished, Event
  <2>1. PICK i \in DOMAIN log :
          /\ log[i] = Event("ship", ship[d])
          /\ \A k \in Connections : k = Current(d) /\ Subscribed(k) => i <= pos[k]
    BY DEF ShipWasPublished
  <2>2. i \in DOMAIN log' /\ log'[i] = log[i]
    BY <1>1
  <2> QED
    BY <2>1, <2>2
<1>5. TabWasTold'
  BY <1>2 DEF TabWasTold, TypeOK
<1>6. OpenHasAsked' /\ UnopenedHasNone'
  BY <1>3 DEF OpenHasAsked, UnopenedHasNone
<1>7. SnapshotBridges'
  <2> SUFFICES ASSUME NEW k \in Connections, NEW i \in DOMAIN log',
                      Subscribed(k), k \notin missed', k \notin gap,
                      i <= pos[k], log'[i].kind = "link"
               PROVE  /\ fetch[k] = "answered" => log'[i].number <= Newer(known[k[1]], snap[k])
                      /\ fetch[k] = "done" => log'[i].number <= known[k[1]]
    BY <1>2 DEF SnapshotBridges, Newer
  <2>1. k \notin missed
    BY DEF Publish
  <2>2. pos[k] \in 0 .. Len(log)
    BY <1>1 DEF TypeOK
  <2>3. i \in DOMAIN log
    BY <1>1, <2>2
  <2> QED
    BY <1>1, <2>1, <2>3 DEF SnapshotBridges
<1> QED
  BY <1>4, <1>5, <1>6, <1>7

LEMMA PublishKeepsTypes ==
  ASSUME TypeOK, BusInv, NEW events \in Seq(Events), Publish(events),
         UNCHANGED <<handler, hand, pos>>
  PROVE  /\ log' \in Seq([kind : {"link", "ship", "turn"}, number : Nat])
         /\ queue' \in [Connections -> Seq(DOMAIN log')]
         /\ hand' \in [Connections -> DOMAIN log' \cup {0}]
         /\ pos' \in [Connections -> DOMAIN log' \cup {0}]
         /\ missed' \subseteq Connections
<1>1. log' \in Seq([kind : {"link", "ship", "turn"}, number : Nat])
  BY LogGrows DEF Events
<1>2. DOMAIN log \subseteq DOMAIN log'
  <2>1. /\ Len(log) \in Nat /\ Len(events) \in Nat
        /\ DOMAIN log = 1 .. Len(log) /\ DOMAIN log' = 1 .. Len(log) + Len(events)
    BY LogGrows
  <2> QED
    BY <2>1
<1>3. queue' \in [Connections -> Seq(DOMAIN log')]
  <2>1. \A k \in Connections : queue'[k] \in Seq(DOMAIN log')
    BY QueueGrows DEF BusInv
  <2>2. queue' = [k \in Connections |-> queue'[k]]
    BY DEF Publish
  <2> QED
    BY <2>1, <2>2
<1>4. /\ hand' \in [Connections -> DOMAIN log' \cup {0}]
      /\ pos' \in [Connections -> DOMAIN log' \cup {0}]
  BY <1>2 DEF TypeOK
<1>5. missed' \subseteq Connections
  BY DEF TypeOK, Publish
<1> QED
  BY <1>1, <1>3, <1>4, <1>5

-----------------------------------------------------------------------------
(* What a step leaves alone.                                               *)

LEMMA SimStays ==
  ASSUME SimInv, UNCHANGED <<simVars, log>>
  PROVE  SimInv'
BY DEF SimInv, LockOwned, ShipsInOrder, LinksPublished, Event, simVars

LEMMA BusStays ==
  ASSUME BusInv, UNCHANGED <<log, handler, queue, hand, missed, pos>>
  PROVE  BusInv'
<1>1. /\ Connections' = Connections
      /\ \A k : Taken(k)' = Taken(k) /\ (Subscribed(k)' <=> Subscribed(k))
  BY DEF Connections, Taken, Subscribed
<1>2. HandlerHolds'
  BY <1>1 DEF BusInv, HandlerHolds
<1>3. QueueInOrder'
  BY <1>1 DEF BusInv, QueueInOrder
<1>4. QueueWhole'
  BY <1>1 DEF BusInv, QueueWhole
<1> QED
  BY <1>2, <1>3, <1>4 DEF BusInv

LEMMA TabsStay ==
  ASSUME TabInv, UNCHANGED <<link, log, handler, missed, gap, netVars, tabVars>>
  PROVE  TabInv'
<1> USE DEF TabInv, netVars, tabVars
<1>1. Connections' = Connections /\ \A k : Subscribed(k)' <=> Subscribed(k)
  BY DEF Connections, Subscribed
<1>2. \A d : Current(d)' = Current(d)
  BY DEF Current
<1>3. ShipWasPublished'
  BY <1>1, <1>2 DEF ShipWasPublished, Event
<1>4. TabWasTold' /\ OpenHasAsked' /\ UnopenedHasNone'
  BY <1>1, <1>2 DEF TabWasTold, OpenHasAsked, UnopenedHasNone
<1>5. SnapshotBridges'
  BY <1>1 DEF SnapshotBridges, Newer
<1> QED
  BY <1>3, <1>4, <1>5

-----------------------------------------------------------------------------
(* The simulator's side.                                                   *)

\* A change of the link.
LEMMA LinkChangesStep ==
  ASSUME IInv, LinkChanges
  PROVE  IInv'
<1> USE DEF IInv
<1> DEFINE e == Event("link", link + 1)
<1>1. link \in Nat /\ link' = link + 1 /\ link' \in 0 .. MaxChanges
  BY BoundsArePositive DEF TypeOK, LinkChanges
<1>2. /\ Publish(<<e>>)
      /\ UNCHANGED <<lock, reader, sample, samples, handler, hand, gap, netVars, tabVars, pos>>
  BY DEF LinkChanges, tabVars
<1>3. e \in Events /\ <<e>> \in Seq(Events) /\ Len(<<e>>) = 1 /\ <<e>>[1] = e
  <2>1. e \in Events
    BY <1>1 DEF Events, Event
  <2> QED
    BY <2>1, OneEvent, Zenon
<1>4. e.kind = "link" /\ e.number = link + 1
  BY DEF Event
<1> HIDE DEF e
<1>5. BusInv' /\ TabInv'
  <2>1. link' \in Nat /\ link' >= link
    BY <1>1
  <2> QED
    BY <1>2, <1>3, <2>1, PublishKeepsStreams, PublishKeepsTabs
<1>6. /\ Len(log) \in Nat /\ DOMAIN log = 1 .. Len(log) /\ DOMAIN log' = 1 .. Len(log) + 1
      /\ \A i \in DOMAIN log : log'[i] = log[i]
      /\ log'[Len(log) + 1] = e
  BY <1>2, <1>3, LogGrowsByOne
<1>7. LinksPublished'
  <2>1. \A i \in DOMAIN log' : log'[i].kind = "link" => log'[i].number <= link'
    BY <1>1, <1>4, <1>6, LogTyped DEF SimInv, LinksPublished
  <2>2. log'[Len(log) + 1] = Event("link", link')
    BY <1>1, <1>6 DEF e
  <2> QED
    BY <1>6, <2>1, <2>2 DEF LinksPublished, Event
<1>8. LockOwned' /\ ShipsInOrder'
  BY <1>2, <1>4, <1>6 DEF SimInv, LockOwned, ShipsInOrder
<1>9. TypeOK'
  BY <1>1, <1>2, <1>3, PublishKeepsTypes DEF TypeOK, netVars, tabVars, Connections
<1> QED
  BY <1>5, <1>7, <1>8, <1>9 DEF SimInv

\* A reader asks for the lock, or gets it.
LEMMA LockingStep ==
  ASSUME IInv, NEW p \in Readers, Asks(p) \/ Locks(p)
  PROVE  IInv'
<1> USE DEF IInv
<1>1. /\ reader[p] \in {"idle", "waiting"}
      /\ reader' = [reader EXCEPT ![p] = IF lock = "free" THEN "locked" ELSE "waiting"]
      /\ lock' = IF lock = "free" THEN p ELSE lock
      /\ UNCHANGED <<link, sample, samples, busVars, netVars, tabVars>>
  BY DEF Asks, Locks
<1>2. /\ reader \in [Readers -> {"idle", "waiting", "locked", "sampled"}]
      /\ lock \in Readers \cup {"free"} /\ "free" \notin Readers
  BY DEF TypeOK, Readers
<1>3. LockOwned'
  BY <1>1, <1>2 DEF SimInv, LockOwned
<1>4. ShipsInOrder' /\ LinksPublished'
  BY <1>1, <1>2 DEF SimInv, ShipsInOrder, LinksPublished, Event, busVars
<1>5. BusInv' /\ TabInv'
  BY <1>1, BusStays, TabsStay DEF busVars, tabVars
<1>6. TypeOK'
  BY <1>1, <1>2 DEF TypeOK, busVars, netVars, tabVars, Connections
<1> QED
  BY <1>3, <1>4, <1>5, <1>6 DEF SimInv

\* The owner of the lock reads the ship.
LEMMA SamplesStep ==
  ASSUME IInv, NEW p \in Readers, Samples(p)
  PROVE  IInv'
<1> USE DEF IInv
<1>1. /\ reader[p] \in {"locked", "sampled"} /\ samples < MaxSamples
      /\ samples' = samples + 1
      /\ sample' = [sample EXCEPT ![p] = samples + 1]
      /\ reader' = [reader EXCEPT ![p] = "sampled"]
      /\ UNCHANGED <<link, lock, busVars, netVars, tabVars>>
  BY DEF Samples
<1>2. /\ reader \in [Readers -> {"idle", "waiting", "locked", "sampled"}]
      /\ sample \in [Readers -> 0 .. MaxSamples] /\ samples \in 0 .. MaxSamples
      /\ MaxSamples \in Nat
  BY BoundsArePositive DEF TypeOK
<1>3. LockOwned'
  BY <1>1, <1>2 DEF SimInv, LockOwned
<1>4. ShipsInOrder'
  <2>1. \A q \in Readers : sample'[q] <= samples'
    BY <1>1, <1>2 DEF SimInv, ShipsInOrder
  <2>2. ASSUME NEW i \in DOMAIN log, log[i].kind = "ship"
        PROVE  /\ log[i].number <= samples'
               /\ \A q \in Readers : reader'[q] = "sampled" => log[i].number <= sample'[q]
    <3>1. log[i].number <= samples /\ log[i].number \in Nat
      BY <2>2, LogTyped DEF SimInv, ShipsInOrder
    <3>2. \A q \in Readers : reader[q] = "sampled" => log[i].number <= sample[q]
      BY <2>2 DEF SimInv, ShipsInOrder
    <3> QED
      BY <1>1, <1>2, <3>1, <3>2
  <2> QED
    BY <1>1, <2>1, <2>2 DEF SimInv, ShipsInOrder, busVars
<1>5. LinksPublished'
  BY <1>1 DEF SimInv, LinksPublished, Event, busVars
<1>6. BusInv' /\ TabInv'
  BY <1>1, BusStays, TabsStay DEF busVars, tabVars
<1>7. TypeOK'
  <2>1. samples' \in 0 .. MaxSamples /\ samples + 1 \in 0 .. MaxSamples
    BY <1>1, <1>2
  <2> QED
    BY <1>1, <1>2, <2>1 DEF TypeOK, busVars, netVars, tabVars, Connections
<1> QED
  BY <1>3, <1>4, <1>5, <1>6, <1>7 DEF SimInv

\* A reader gives the lock back: then nobody has a ship state in hand.
LEMMA NobodySampled ==
  ASSUME TypeOK, LockOwned, NEW p \in Readers, reader[p] \in {"locked", "sampled"},
         reader' = [reader EXCEPT ![p] = "idle"],
         lock' = IF lock = p THEN "free" ELSE lock
  PROVE  /\ LockOwned' /\ lock' \in Readers \cup {"free"}
         /\ reader' \in [Readers -> {"idle", "waiting", "locked", "sampled"}]
         /\ \A q \in Readers : reader'[q] # "sampled"
<1>1. /\ reader \in [Readers -> {"idle", "waiting", "locked", "sampled"}]
      /\ "free" \notin Readers
  BY DEF TypeOK, Readers
<1>2. lock = p /\ lock' = "free" /\ \A q \in Readers \ {p} : reader[q] \notin {"locked", "sampled"}
  BY DEF LockOwned
<1> QED
  BY <1>1, <1>2 DEF LockOwned

\* ... and what it publishes is no older than what was published before.
LEMMA LeavingStep ==
  ASSUME IInv, NEW p \in Readers, NEW events \in Seq(Events), Publish(events),
         \A i \in 1 .. Len(events) :
           \/ events[i] = Event("turn", 0)
           \/ reader[p] = "sampled" /\ events[i] = Event("ship", sample[p]),
         reader[p] \in {"locked", "sampled"},
         reader' = [reader EXCEPT ![p] = "idle"],
         lock' = IF lock = p THEN "free" ELSE lock,
         UNCHANGED <<link, sample, samples, handler, hand, gap, netVars, tabVars>>
  PROVE  IInv'
<1> USE DEF IInv
<1>1. /\ LockOwned' /\ lock' \in Readers \cup {"free"}
      /\ reader' \in [Readers -> {"idle", "waiting", "locked", "sampled"}]
      /\ \A q \in Readers : reader'[q] # "sampled"
  BY NobodySampled DEF SimInv
<1>2. UNCHANGED pos /\ link' \in Nat /\ link' >= link
  BY BoundsArePositive DEF tabVars, TypeOK
<1>3. BusInv' /\ TabInv'
  BY <1>2, PublishKeepsStreams, PublishKeepsTabs
<1>4. /\ Len(log) \in Nat /\ Len(events) \in Nat
      /\ DOMAIN log = 1 .. Len(log) /\ DOMAIN log' = 1 .. Len(log) + Len(events)
      /\ \A i \in DOMAIN log : log'[i] = log[i]
      /\ \A i \in 1 .. Len(events) : log'[Len(log) + i] = events[i]
  BY LogGrows
<1>5. ASSUME NEW i \in DOMAIN log', i \notin DOMAIN log
      PROVE  /\ i > Len(log)
             /\ \/ log'[i].kind = "turn"
                \/ log'[i].kind = "ship" /\ log'[i].number = sample[p] /\ reader[p] = "sampled"
  <2>1. i > Len(log) /\ i - Len(log) \in 1 .. Len(events) /\ Len(log) + (i - Len(log)) = i
    BY <1>4, <1>5
  <2>2. log'[i] = events[i - Len(log)]
    BY <1>4, <2>1
  <2> QED
    BY <2>1, <2>2 DEF Event
<1>6. ShipsInOrder'
  <2>1. \A q \in Readers : sample'[q] <= samples'
    BY DEF SimInv, ShipsInOrder
  <2>2. sample[p] \in Nat
    BY BoundsArePositive DEF TypeOK
  <2>3. ASSUME NEW i \in DOMAIN log', log'[i].kind = "ship"
        PROVE  log'[i].number <= samples
    BY <1>4, <1>5, <2>3 DEF SimInv, ShipsInOrder
  <2>4. ASSUME NEW i \in DOMAIN log', log'[i].kind = "ship",
               NEW j \in DOMAIN log', log'[j].kind = "ship", i <= j
        PROVE  log'[i].number <= log'[j].number
    <3>1. CASE j \in DOMAIN log
      <4>1. i \in DOMAIN log
        BY <1>4, <2>4, <3>1
      <4> QED
        BY <1>4, <2>4, <3>1, <4>1 DEF SimInv, ShipsInOrder
    <3>2. CASE i \in DOMAIN log /\ j \notin DOMAIN log
      <4>1. log'[j].number = sample[p] /\ reader[p] = "sampled"
        BY <1>5, <2>4, <3>2
      <4> QED
        BY <1>4, <2>4, <3>2, <4>1 DEF SimInv, ShipsInOrder
    <3>3. CASE i \notin DOMAIN log /\ j \notin DOMAIN log
      <4>1. log'[i].number = sample[p] /\ log'[j].number = sample[p]
        BY <1>5, <2>4, <3>3
      <4> QED
        BY <2>2, <4>1
    <3> QED
      BY <3>1, <3>2, <3>3
  <2> QED
    BY <1>1, <2>1, <2>3, <2>4 DEF ShipsInOrder
<1>7. LinksPublished'
  <2>1. \A i \in DOMAIN log' : log'[i].kind = "link" => log'[i].number <= link'
    BY <1>4, <1>5 DEF SimInv, LinksPublished
  <2>2. link' = 0 \/ \E i \in DOMAIN log' : log'[i] = Event("link", link')
    BY <1>4 DEF SimInv, LinksPublished
  <2> QED
    BY <2>1, <2>2 DEF LinksPublished, Event
<1>8. TypeOK'
  BY <1>1, <1>2, PublishKeepsTypes DEF TypeOK, netVars, tabVars, Connections
<1> QED
  BY <1>1, <1>3, <1>6, <1>7, <1>8 DEF SimInv

LEMMA ReturnsStep ==
  ASSUME IInv, NEW p \in Readers, Returns(p)
  PROVE  IInv'
<1> DEFINE e == Event("turn", 0)
           f == Event("ship", sample[p])
<1>1. e \in Events /\ f \in Events
  BY BoundsArePositive DEF IInv, TypeOK, Events, Event
<1>2. /\ reader[p] = "sampled"
      /\ reader' = [reader EXCEPT ![p] = "idle"]
      /\ lock' = IF lock = p THEN "free" ELSE lock
      /\ Publish(IF p = "order" THEN <<e, f>> ELSE <<f>>)
      /\ UNCHANGED <<link, sample, samples, handler, hand, gap, netVars, tabVars>>
  BY DEF Returns
<1> DEFINE events == IF p = "order" THEN <<e, f>> ELSE <<f>>
<1>3. events \in Seq(Events) /\ \A i \in 1 .. Len(events) : events[i] = e \/ events[i] = f
  <2> HIDE DEF e, f
  <2> QED
    BY <1>1, OneEvent, TwoEvents
<1> HIDE DEF events
<1> QED
  BY <1>2, <1>3, LeavingStep DEF events

LEMMA FailsStep ==
  ASSUME IInv, NEW p \in Readers, Fails(p)
  PROVE  IInv'
<1>1. /\ reader[p] \in {"locked", "sampled"}
      /\ reader' = [reader EXCEPT ![p] = "idle"]
      /\ lock' = IF lock = p THEN "free" ELSE lock
      /\ UNCHANGED <<link, sample, samples, handler, hand, gap, netVars, tabVars>>
  BY DEF Fails
<1>2. CASE p = "order"
  <2> DEFINE e == Event("turn", 0)
  <2>1. e \in Events
    BY DEF Events, Event
  <2>2. Publish(<<e>>)
    BY <1>2 DEF Fails
  <2>3. <<e>> \in Seq(Events) /\ \A i \in 1 .. Len(<<e>>) : <<e>>[i] = e
    <3> HIDE DEF e
    <3> QED
      BY <2>1, OneEvent
  <2> QED
    BY <1>1, <2>2, <2>3, LeavingStep
<1>3. CASE p # "order"
  <2> USE DEF IInv
  <2>1. UNCHANGED <<log, queue, missed>>
    BY <1>3 DEF Fails
  <2>2. /\ LockOwned' /\ lock' \in Readers \cup {"free"}
        /\ reader' \in [Readers -> {"idle", "waiting", "locked", "sampled"}]
        /\ \A q \in Readers : reader'[q] # "sampled"
    BY <1>1, NobodySampled DEF SimInv
  <2>3. ShipsInOrder' /\ LinksPublished'
    BY <1>1, <2>1, <2>2 DEF SimInv, ShipsInOrder, LinksPublished, Event
  <2>4. BusInv' /\ TabInv'
    BY <1>1, <2>1, BusStays, TabsStay DEF tabVars
  <2>5. TypeOK'
    BY <1>1, <2>1, <2>2 DEF TypeOK, netVars, tabVars, Connections
  <2> QED
    BY <2>2, <2>3, <2>4, <2>5 DEF SimInv
<1> QED
  BY <1>2, <1>3

-----------------------------------------------------------------------------
(* The handlers of ws_events.                                              *)

\* The bus's invariant, one connection at a time.
Stream(k) ==
  /\ hand[k] # 0 <=> handler[k] = "sending"
  /\ ~Subscribed(k) => queue[k] = <<>>
  /\ Len(queue[k]) <= QueueSize
  /\ hand[k] # 0 => pos[k] < hand[k]
  /\ \A i \in DOMAIN queue[k] :
       /\ Taken(k) < queue[k][i]
       /\ \A j \in DOMAIN queue[k] : i < j => queue[k][i] < queue[k][j]
  /\ Subscribed(k) /\ k \notin missed =>
       /\ hand[k] # 0 => hand[k] = pos[k] + 1
       /\ Len(queue[k]) = Len(log) - Taken(k)
       /\ \A i \in DOMAIN queue[k] : queue[k][i] = Taken(k) + i

LEMMA BusIsStreams == BusInv <=> \A k \in Connections : Stream(k)
BY DEF BusInv, HandlerHolds, QueueInOrder, QueueWhole, Stream

\* A step of one connection's handler is no business of the others.
LEMMA OtherStreamsStay ==
  ASSUME BusInv, NEW k \in Connections, log' = log, Stream(k)',
         \A c \in Connections \ {k} :
           /\ handler'[c] = handler[c] /\ queue'[c] = queue[c] /\ hand'[c] = hand[c]
           /\ pos'[c] = pos[c] /\ (c \in missed' <=> c \in missed)
  PROVE  BusInv'
<1>1. Connections' = Connections
  BY DEF Connections
<1>2. ASSUME NEW c \in Connections \ {k} PROVE Stream(c)'
  <2>1. Taken(c)' = Taken(c) /\ (Subscribed(c)' <=> Subscribed(c))
    BY <1>2 DEF Taken, Subscribed
  <2> QED
    BY <1>2, <2>1, BusIsStreams DEF Stream
<1>3. \A c \in Connections : Stream(c)'
  BY <1>2
<1> QED
  BY <1>1, <1>3 DEF BusInv, HandlerHolds, QueueInOrder, QueueWhole, Stream

\* What is known of the events of a connection.
LEMMA StreamTyped ==
  ASSUME TypeOK, NEW k \in Connections
  PROVE  /\ Len(log) \in Nat /\ DOMAIN log = 1 .. Len(log)
         /\ pos[k] \in 0 .. Len(log) /\ hand[k] \in 0 .. Len(log)
         /\ queue[k] \in Seq(1 .. Len(log))
<1>1. log \in Seq(Events)
  BY DEF TypeOK, Events
<1>2. Len(log) \in Nat /\ DOMAIN log = 1 .. Len(log)
  BY <1>1
<1> QED
  BY <1>2 DEF TypeOK

\* A handler that runs belongs to an opened connection.
LEMMA UnopenedStays ==
  ASSUME TypeOK, UnopenedHasNone, NEW k \in Connections, handler[k] # "none", NEW v,
         handler' = [handler EXCEPT ![k] = v], opens' = opens
  PROVE  UnopenedHasNone'
<1> SUFFICES ASSUME NEW d \in Dashboards, NEW n \in 1 .. MaxOpens, n > opens[d]
             PROVE  handler'[<<d, n>>] = "none"
  BY DEF UnopenedHasNone
<1>1. handler[<<d, n>>] = "none" /\ <<d, n>> \in Connections
  BY DEF UnopenedHasNone, Connections
<1> QED
  BY <1>1 DEF TypeOK

\* To hand an event on, or to end, changes nothing for the tabs.
LEMMA TabsStayBehind ==
  ASSUME TabInv, UNCHANGED <<link, log, gap, netVars, tabVars>>, UnopenedHasNone',
         \A c \in Connections : Subscribed(c)' => Subscribed(c) /\ (c \in missed => c \in missed')
  PROVE  TabInv'
<1> USE DEF TabInv, netVars, tabVars
<1>1. Connections' = Connections /\ \A d : Current(d)' = Current(d)
  BY DEF Connections, Current
<1>2. ShipWasPublished'
  BY <1>1 DEF ShipWasPublished, Event
<1>3. TabWasTold' /\ OpenHasAsked'
  BY <1>1 DEF TabWasTold, OpenHasAsked
<1>4. SnapshotBridges'
  BY <1>1 DEF SnapshotBridges, Newer
<1> QED
  BY <1>2, <1>3, <1>4

LEMMA SubscribesStep ==
  ASSUME IInv, NEW k \in Connections, Subscribes(k)
  PROVE  IInv'
<1> USE DEF IInv
<1>1. /\ handler[k] = "accepted"
      /\ handler' = [handler EXCEPT ![k] = "waiting"]
      /\ pos' = [pos EXCEPT ![k] = Len(log)]
      /\ gap' = IF fetch[k] \in {"answered", "done"} /\ snap[k] < link THEN gap \cup {k} ELSE gap
      /\ UNCHANGED <<simVars, log, queue, hand, missed, netVars, shown, ship, known>>
  BY DEF Subscribes
<1>2. /\ Len(log) \in Nat /\ DOMAIN log = 1 .. Len(log)
      /\ \A c \in Connections : pos[c] \in 0 .. Len(log)
  BY StreamTyped
<1>3. /\ handler \in [Connections -> {"none", "accepted", "waiting", "sending", "gone"}]
      /\ pos \in [Connections -> DOMAIN log \cup {0}]
      /\ pos'[k] = Len(log) /\ handler'[k] = "waiting"
  BY <1>1 DEF TypeOK
<1>4. BusInv'
  <2>1. hand[k] = 0 /\ queue[k] = <<>>
    BY <1>1 DEF BusInv, HandlerHolds, Subscribed
  <2>2. Taken(k)' = Len(log)
    BY <1>1, <1>3, <2>1 DEF Taken
  <2>3. Len(queue[k]) = 0 /\ DOMAIN queue[k] = {} /\ Len(log) - Len(log) = 0
    BY <1>2, <2>1
  <2>4. Stream(k)'
    BY <1>1, <1>2, <1>3, <2>1, <2>2, <2>3, BoundsArePositive DEF Stream
  <2>5. \A c \in Connections \ {k} : handler'[c] = handler[c] /\ pos'[c] = pos[c]
    BY <1>1, <1>3
  <2> QED
    BY <1>1, <2>4, <2>5, OtherStreamsStay
<1>5. ShipWasPublished'
  <2> SUFFICES ASSUME NEW d \in Dashboards, ship[d] # 0
               PROVE  \E i \in DOMAIN log :
                        /\ log[i] = Event("ship", ship[d])
                        /\ \A c \in Connections : c = Current(d) /\ Subscribed(c)' => i <= pos'[c]
    BY <1>1 DEF ShipWasPublished, Event, Connections, Current, netVars
  <2>1. PICK i \in DOMAIN log :
          /\ log[i] = Event("ship", ship[d])
          /\ \A c \in Connections : c = Current(d) /\ Subscribed(c) => i <= pos[c]
    BY DEF TabInv, ShipWasPublished
  <2>2. ASSUME NEW c \in Connections, c = Current(d), Subscribed(c)' PROVE i <= pos'[c]
    <3>1. CASE c = k
      BY <1>2, <1>3, <2>1, <3>1
    <3>2. CASE c # k
      BY <1>1, <1>3, <2>1, <2>2, <3>2 DEF Subscribed
    <3> QED
      BY <3>1, <3>2
  <2> QED
    BY <2>1, <2>2
<1>6. TabWasTold' /\ OpenHasAsked'
  BY <1>1 DEF TabInv, TabWasTold, OpenHasAsked, Connections, Current, simVars, netVars
<1>7. SnapshotBridges'
  <2> SUFFICES ASSUME NEW c \in Connections, NEW i \in DOMAIN log,
                      Subscribed(c)', c \notin missed, c \notin gap',
                      i <= pos'[c], log[i].kind = "link"
               PROVE  /\ fetch[c] = "answered" => log[i].number <= Newer(known[c[1]], snap[c])
                      /\ fetch[c] = "done" => log[i].number <= known[c[1]]
    BY <1>1 DEF SnapshotBridges, Newer, Connections, netVars
  <2>1. CASE c = k
    <3>1. log[i].number <= link /\ log[i].number \in Nat
      BY LogTyped DEF SimInv, LinksPublished
    <3>2. snap[k] \in Nat /\ link \in Nat /\ k[1] \in Dashboards /\ known[k[1]] \in Nat
      BY BoundsArePositive DEF TypeOK, Connections
    <3>3. fetch[k] \in {"answered", "done"} => ~(snap[k] < link)
      BY <1>1, <2>1
    <3>4. fetch[k] = "done" => snap[k] <= known[k[1]]
      BY DEF TabInv, TabWasTold
    <3> QED
      BY <2>1, <3>1, <3>2, <3>3, <3>4 DEF Newer
  <2>2. CASE c # k
    BY <1>1, <1>3, <2>2 DEF TabInv, SnapshotBridges, Subscribed
  <2> QED
    BY <2>1, <2>2
<1>8. UnopenedHasNone'
  BY <1>1, UnopenedStays DEF TabInv, netVars
<1>9. SimInv'
  BY <1>1, SimStays
<1>10. TypeOK'
  <2>1. /\ handler' \in [Connections -> {"none", "accepted", "waiting", "sending", "gone"}]
        /\ gap' \subseteq Connections
    BY <1>1, <1>3 DEF TypeOK
  <2>2. Len(log) \in DOMAIN log \cup {0}
    BY <1>2
  <2>3. pos' \in [Connections -> DOMAIN log \cup {0}]
    BY <1>1, <1>3, <2>2
  <2> QED
    BY <1>1, <2>1, <2>3 DEF TypeOK, simVars, netVars, Connections
<1> QED
  BY <1>4, <1>5, <1>6, <1>7, <1>8, <1>9, <1>10 DEF TabInv

LEMMA TakesStep ==
  ASSUME IInv, NEW k \in Connections, Takes(k)
  PROVE  IInv'
<1> USE DEF IInv
<1>1. /\ handler[k] = "waiting" /\ queue[k] # <<>>
      /\ handler' = [handler EXCEPT ![k] = "sending"]
      /\ hand' = [hand EXCEPT ![k] = Head(queue[k])]
      /\ queue' = [queue EXCEPT ![k] = Tail(queue[k])]
      /\ UNCHANGED <<simVars, log, missed, gap, netVars, tabVars>>
  BY DEF Takes
<1>2. /\ handler \in [Connections -> {"none", "accepted", "waiting", "sending", "gone"}]
      /\ hand \in [Connections -> DOMAIN log \cup {0}]
      /\ queue \in [Connections -> Seq(DOMAIN log)]
  BY DEF TypeOK
<1>3. /\ handler'[k] = "sending" /\ hand'[k] = Head(queue[k]) /\ queue'[k] = Tail(queue[k])
      /\ \A c \in Connections \ {k} :
           handler'[c] = handler[c] /\ hand'[c] = hand[c] /\ queue'[c] = queue[c]
  BY <1>1, <1>2
<1>4. /\ Len(log) \in Nat /\ DOMAIN log = 1 .. Len(log)
      /\ pos[k] \in 0 .. Len(log) /\ queue[k] \in Seq(1 .. Len(log))
  BY StreamTyped
<1>5. /\ Tail(queue[k]) \in Seq(1 .. Len(log)) /\ Head(queue[k]) \in 1 .. Len(log)
      /\ Head(queue[k]) = queue[k][1]
      /\ Len(queue[k]) \in Nat \ {0} /\ Len(Tail(queue[k])) = Len(queue[k]) - 1
      /\ DOMAIN queue[k] = 1 .. Len(queue[k]) /\ DOMAIN Tail(queue[k]) = 1 .. Len(queue[k]) - 1
      /\ \A i \in 1 .. Len(queue[k]) - 1 : Tail(queue[k])[i] = queue[k][i + 1]
  BY <1>1, <1>4, Rest
<1>6. BusInv'
  <2>1. Stream(k)
    BY BusIsStreams
  <2>2. /\ hand[k] = 0 /\ Taken(k) = pos[k] /\ Subscribed(k) /\ Subscribed(k)'
        /\ hand'[k] # 0 /\ Taken(k)' = queue[k][1]
    BY <1>1, <1>3, <1>5, <2>1 DEF Stream, Taken, Subscribed
  <2>3. pos[k] < queue[k][1] /\ 1 \in DOMAIN queue[k]
    BY <1>5, <2>1, <2>2, SMTT(60) DEF Stream
  <2>4. Len(queue'[k]) <= QueueSize
    BY <1>3, <1>5, <2>1, BoundsArePositive DEF Stream
  <2>5. ASSUME NEW i \in DOMAIN queue'[k]
        PROVE  /\ i + 1 \in DOMAIN queue[k] /\ queue'[k][i] = queue[k][i + 1]
               /\ queue[k][1] < queue[k][i + 1]
               /\ \A j \in DOMAIN queue'[k] : i < j => queue[k][i + 1] < queue[k][j + 1]
    <3>1. i \in 1 .. Len(queue[k]) - 1 /\ i + 1 \in DOMAIN queue[k] /\ 1 < i + 1
      BY <1>3, <1>5, <2>5
    <3>2. \A j \in DOMAIN queue'[k] : j + 1 \in DOMAIN queue[k] /\ (i < j => i + 1 < j + 1)
      BY <1>3, <1>5, <2>5
    <3> QED
      BY <1>3, <1>5, <2>1, <2>3, <3>1, <3>2 DEF Stream
  <2>6. \A i \in DOMAIN queue'[k] :
          /\ Taken(k)' < queue'[k][i]
          /\ \A j \in DOMAIN queue'[k] : i < j => queue'[k][i] < queue'[k][j]
    BY <2>2, <2>5
  <2>7. ASSUME k \notin missed
        PROVE  /\ hand'[k] = pos[k] + 1
               /\ Len(queue'[k]) = Len(log) - Taken(k)'
               /\ \A i \in DOMAIN queue'[k] : queue'[k][i] = Taken(k)' + i
    <3>1. /\ Len(queue[k]) = Len(log) - pos[k]
          /\ \A i \in DOMAIN queue[k] : queue[k][i] = pos[k] + i
      BY <2>1, <2>2, <2>7 DEF Stream
    <3>2. queue[k][1] = pos[k] + 1
      BY <2>3, <3>1
    <3>3. hand'[k] = pos[k] + 1
      BY <1>3, <1>5, <3>2
    <3>4. Len(queue[k]) - 1 = Len(log) - (pos[k] + 1)
      BY <1>4, <1>5, <3>1
    <3>5. ASSUME NEW i \in DOMAIN queue'[k] PROVE queue'[k][i] = (pos[k] + 1) + i
      <4>1. queue'[k][i] = pos[k] + (i + 1) /\ i \in Nat
        BY <1>3, <1>5, <2>5, <3>1, <3>5
      <4> QED
        BY <1>4, <4>1, SMTT(60)
    <3> QED
      BY <1>3, <1>5, <2>2, <3>2, <3>3, <3>4, <3>5
  <2>8. pos'[k] = pos[k] /\ pos' = pos /\ missed' = missed /\ log' = log
    BY <1>1 DEF tabVars
  <2>9. Stream(k)'
    BY <1>3, <1>5, <2>2, <2>3, <2>4, <2>6, <2>7, <2>8 DEF Stream
  <2> QED
    BY <1>3, <2>8, <2>9, OtherStreamsStay
<1>7. TabInv'
  <2>1. UnopenedHasNone'
    BY <1>1, UnopenedStays DEF TabInv, netVars
  <2>2. \A c \in Connections : Subscribed(c)' => Subscribed(c)
    BY <1>1, <1>3 DEF Subscribed
  <2> QED
    BY <1>1, <2>1, <2>2, TabsStayBehind DEF simVars
<1>8. SimInv'
  BY <1>1, SimStays
<1>9. TypeOK'
  <2>1. /\ handler' \in [Connections -> {"none", "accepted", "waiting", "sending", "gone"}]
        /\ hand' \in [Connections -> DOMAIN log \cup {0}]
        /\ queue' \in [Connections -> Seq(DOMAIN log)]
    BY <1>1, <1>2, <1>4, <1>5
  <2> QED
    BY <1>1, <2>1 DEF TypeOK, simVars, netVars, tabVars, Connections
<1> QED
  BY <1>6, <1>7, <1>8, <1>9

LEMMA SendFailsStep ==
  ASSUME IInv, NEW k \in Connections, SendFails(k)
  PROVE  IInv'
<1> USE DEF IInv
<1>1. /\ handler[k] = "sending"
      /\ handler' = [handler EXCEPT ![k] = "gone"]
      /\ hand' = [hand EXCEPT ![k] = 0]
      /\ queue' = [queue EXCEPT ![k] = <<>>]
      /\ missed' = missed \ {k}
      /\ UNCHANGED <<simVars, log, gap, netVars, tabVars>>
  BY DEF SendFails
<1>2. /\ handler \in [Connections -> {"none", "accepted", "waiting", "sending", "gone"}]
      /\ hand \in [Connections -> DOMAIN log \cup {0}]
      /\ queue \in [Connections -> Seq(DOMAIN log)]
  BY DEF TypeOK
<1>3. /\ handler'[k] = "gone" /\ hand'[k] = 0 /\ queue'[k] = <<>>
      /\ \A c \in Connections \ {k} :
           handler'[c] = handler[c] /\ hand'[c] = hand[c] /\ queue'[c] = queue[c]
  BY <1>1, <1>2
<1>4. BusInv'
  <2>1. Len(queue'[k]) = 0 /\ DOMAIN queue'[k] = {} /\ ~Subscribed(k)'
    BY <1>3 DEF Subscribed
  <2>2. Stream(k)'
    BY <1>3, <2>1, BoundsArePositive DEF Stream
  <2>3. pos' = pos /\ log' = log
    BY <1>1 DEF tabVars
  <2> QED
    BY <1>1, <1>3, <2>2, <2>3, OtherStreamsStay
<1>5. TabInv'
  <2>1. UnopenedHasNone'
    BY <1>1, UnopenedStays DEF TabInv, netVars
  <2>2. \A c \in Connections : Subscribed(c)' => Subscribed(c) /\ (c \in missed => c \in missed')
    BY <1>1, <1>3 DEF Subscribed
  <2> QED
    BY <1>1, <2>1, <2>2, TabsStayBehind DEF simVars
<1>6. SimInv'
  BY <1>1, SimStays
<1>7. TypeOK'
  <2>1. <<>> \in Seq(DOMAIN log)
    BY EmptySeq
  <2>2. /\ handler' \in [Connections -> {"none", "accepted", "waiting", "sending", "gone"}]
        /\ hand' \in [Connections -> DOMAIN log \cup {0}]
        /\ queue' \in [Connections -> Seq(DOMAIN log)]
    BY <1>1, <1>2, <2>1
  <2> QED
    BY <1>1, <2>2 DEF TypeOK, simVars, netVars, tabVars, Connections
<1> QED
  BY <1>4, <1>5, <1>6, <1>7

\* The tab applies an event: its stream moves on by that event.
LEMMA SendsStep ==
  ASSUME IInv, NEW k \in Connections, Sends(k)
  PROVE  IInv' /\ \A d \in Dashboards : ship'[d] >= ship[d]
<1> USE DEF IInv
<1> DEFINE d == k[1]
           event == log[hand[k]]
<1>1. /\ handler[k] = "sending" /\ k = Current(d)
      /\ handler' = [handler EXCEPT ![k] = "waiting"]
      /\ hand' = [hand EXCEPT ![k] = 0]
      /\ pos' = [pos EXCEPT ![k] = hand[k]]
      /\ shown' = [shown EXCEPT ![d] = IF event.kind = "link" THEN event.number ELSE @]
      /\ ship' = [ship EXCEPT ![d] = IF event.kind = "ship" THEN event.number ELSE @]
      /\ known' = [known EXCEPT ![d] = Newer(@, shown'[d])]
      /\ UNCHANGED <<simVars, log, queue, missed, gap, netVars>>
  BY DEF Sends
<1>2. /\ handler \in [Connections -> {"none", "accepted", "waiting", "sending", "gone"}]
      /\ hand \in [Connections -> DOMAIN log \cup {0}]
      /\ pos \in [Connections -> DOMAIN log \cup {0}]
      /\ shown \in [Dashboards -> 0 .. MaxChanges]
      /\ ship \in [Dashboards -> 0 .. MaxSamples]
      /\ known \in [Dashboards -> 0 .. MaxChanges]
      /\ link \in 0 .. MaxChanges /\ samples \in 0 .. MaxSamples
      /\ MaxChanges \in Nat /\ MaxSamples \in Nat
      /\ d \in Dashboards
  BY BoundsArePositive DEF TypeOK, Connections
<1>3. /\ handler'[k] = "waiting" /\ hand'[k] = 0 /\ pos'[k] = hand[k]
      /\ \A c \in Connections \ {k} :
           handler'[c] = handler[c] /\ hand'[c] = hand[c] /\ pos'[c] = pos[c]
  BY <1>1, <1>2
<1>4. /\ Len(log) \in Nat /\ DOMAIN log = 1 .. Len(log)
      /\ pos[k] \in 0 .. Len(log) /\ hand[k] \in 0 .. Len(log)
  BY StreamTyped
<1>5. Stream(k) /\ hand[k] # 0 /\ pos[k] < hand[k] /\ hand[k] \in DOMAIN log /\ Subscribed(k)
  <2>1. Stream(k)
    BY BusIsStreams
  <2> QED
    BY <1>1, <1>4, <2>1 DEF Stream, Subscribed
<1>6. event \in Events /\ event.number \in Nat
  <2>1. log \in Seq(Events)
    BY DEF TypeOK, Events
  <2>2. event \in Events
    BY <1>5, <2>1
  <2> QED
    BY <2>2 DEF Events
<1>7. /\ event.kind = "link" => event.number <= link
      /\ event.kind = "ship" => event.number <= samples
  BY <1>5 DEF SimInv, LinksPublished, ShipsInOrder
<1>8. BusInv'
  <2>1. Taken(k)' = hand[k] /\ Taken(k) = hand[k] /\ Subscribed(k)'
    BY <1>3, <1>5 DEF Taken, Subscribed
  <2>2. Stream(k)'
    BY <1>1, <1>3, <1>5, <2>1 DEF Stream
  <2> QED
    BY <1>1, <1>3, <2>2, OtherStreamsStay
<1>9. /\ shown'[d] = (IF event.kind = "link" THEN event.number ELSE shown[d])
      /\ ship'[d] = (IF event.kind = "ship" THEN event.number ELSE ship[d])
      /\ known'[d] = Newer(known[d], shown'[d])
      /\ \A c \in Dashboards \ {d} :
           shown'[c] = shown[c] /\ ship'[c] = ship[c] /\ known'[c] = known[c]
  BY <1>1, <1>2
<1>10. /\ shown'[d] \in 0 .. MaxChanges /\ known'[d] \in 0 .. MaxChanges
       /\ ship'[d] \in 0 .. MaxSamples
       /\ shown'[d] <= known'[d] /\ known'[d] <= link /\ known[d] <= known'[d]
       /\ event.kind = "link" => event.number <= known'[d]
  <2>1. shown[d] \in Nat /\ known[d] \in Nat /\ shown[d] <= known[d] /\ known[d] <= link
    BY <1>2 DEF TabInv, TabWasTold
  <2> HIDE DEF d, event
  <2>2. ship'[d] \in 0 .. MaxSamples
    BY <1>2, <1>6, <1>7, <1>9
  <2> QED
    BY <1>2, <1>6, <1>7, <1>9, <2>1, <2>2 DEF Newer
<1>11. ship'[d] >= ship[d]
  <2>1. CASE event.kind # "ship"
    BY <1>2, <1>9, <2>1
  <2>2. CASE event.kind = "ship" /\ ship[d] = 0
    BY <1>6, <1>9, <2>2
  <2>3. CASE event.kind = "ship" /\ ship[d] # 0
    <3>1. PICK i \in DOMAIN log : log[i] = Event("ship", ship[d]) /\ i <= pos[k]
      BY <1>1, <1>2, <1>5, <2>3 DEF TabInv, ShipWasPublished
    <3>2. log[i].kind = "ship" /\ log[i].number = ship[d] /\ i <= hand[k]
      BY <1>4, <1>5, <3>1 DEF Event
    <3>3. ship[d] <= event.number
      BY <1>5, <2>3, <3>1, <3>2 DEF SimInv, ShipsInOrder
    <3> QED
      BY <1>2, <1>6, <1>9, <2>3, <3>3
  <2> QED
    BY <2>1, <2>2, <2>3
<1>12. \A c \in Dashboards : ship'[c] >= ship[c]
  BY <1>2, <1>9, <1>11
<1>13. Connections' = Connections /\ \A c : Current(c)' = Current(c)
  BY <1>1 DEF Connections, Current, netVars
<1>14. ShipWasPublished'
  <2> SUFFICES ASSUME NEW c \in Dashboards, ship'[c] # 0
               PROVE  \E i \in DOMAIN log :
                        /\ log[i] = Event("ship", ship'[c])
                        /\ \A x \in Connections : x = Current(c) /\ Subscribed(x)' => i <= pos'[x]
    BY <1>1, <1>13 DEF ShipWasPublished, Event
  <2>1. CASE c = d /\ event.kind = "ship"
    <3>1. log[hand[k]] = Event("ship", ship'[c])
      BY <1>6, <1>9, <2>1 DEF Events, Event
    <3>2. \A x \in Connections : x = Current(c) => hand[k] <= pos'[x]
      BY <1>1, <1>3, <1>4, <2>1
    <3> QED
      BY <1>5, <3>1, <3>2
  <2>2. CASE ~(c = d /\ event.kind = "ship")
    <3>1. ship'[c] = ship[c]
      BY <1>9, <2>2
    <3>2. PICK i \in DOMAIN log :
            /\ log[i] = Event("ship", ship[c])
            /\ \A x \in Connections : x = Current(c) /\ Subscribed(x) => i <= pos[x]
      BY <3>1 DEF TabInv, ShipWasPublished
    <3>3. ASSUME NEW x \in Connections, x = Current(c), Subscribed(x)' PROVE i <= pos'[x]
      <4>1. CASE x = k
        BY <1>3, <1>4, <1>5, <3>2, <3>3, <4>1
      <4>2. CASE x # k
        BY <1>3, <3>2, <3>3, <4>2 DEF Subscribed
      <4> QED
        BY <4>1, <4>2
    <3> QED
      BY <3>1, <3>2, <3>3
  <2> QED
    BY <2>1, <2>2
<1>15. \A c \in Dashboards : known[c] <= known'[c] /\ known[c] \in Nat /\ known'[c] \in Nat
  BY <1>2, <1>9, <1>10
<1>16. TabWasTold'
  <2>1. \A c \in Dashboards : shown'[c] <= known'[c] /\ known'[c] <= link
    BY <1>9, <1>10 DEF TabInv, TabWasTold
  <2>2. ASSUME NEW x \in Connections
        PROVE  snap[x] <= link /\ (fetch[x] = "done" => snap[x] <= known'[x[1]])
    <3>1. x[1] \in Dashboards /\ snap[x] \in Nat
      BY <1>2 DEF Connections, TypeOK
    <3>2. snap[x] <= link /\ (fetch[x] = "done" => snap[x] <= known[x[1]])
      BY DEF TabInv, TabWasTold
    <3> QED
      BY <1>15, <3>1, <3>2
  <2> QED
    BY <1>1, <1>13, <2>1, <2>2 DEF TabWasTold, simVars, netVars
<1>17. OpenHasAsked'
  BY <1>1, <1>13 DEF TabInv, OpenHasAsked, netVars
<1>18. SnapshotBridges'
  <2> SUFFICES ASSUME NEW x \in Connections, NEW i \in DOMAIN log,
                      Subscribed(x)', x \notin missed, x \notin gap,
                      i <= pos'[x], log[i].kind = "link"
               PROVE  /\ fetch[x] = "answered" => log[i].number <= Newer(known'[x[1]], snap[x])
                      /\ fetch[x] = "done" => log[i].number <= known'[x[1]]
    BY <1>1, <1>13 DEF SnapshotBridges, Newer, netVars
  <2>1. /\ x[1] \in Dashboards /\ snap[x] \in Nat /\ log[i].number \in Nat
        /\ known[x[1]] <= known'[x[1]] /\ known[x[1]] \in Nat /\ known'[x[1]] \in Nat
    <3>1. x[1] \in Dashboards /\ snap[x] \in Nat
      BY <1>2 DEF Connections, TypeOK
    <3>2. log[i].number \in Nat
      BY LogTyped
    <3> QED
      BY <1>15, <3>1, <3>2
  <2>2. CASE x = k /\ i = hand[k]
    <3>1. log[i].number <= known'[x[1]]
      BY <1>10, <2>2
    <3> QED
      BY <2>1, <3>1 DEF Newer
  <2>3. CASE ~(x = k /\ i = hand[k])
    <3>1. Subscribed(x) /\ i <= pos[x]
      <4>1. CASE x # k
        BY <1>3, <4>1 DEF Subscribed
      <4>2. CASE x = k
        <5>1. hand[k] = pos[k] + 1
          BY <1>5, <4>2 DEF Stream
        <5> QED
          BY <1>3, <1>4, <1>5, <2>3, <4>2, <5>1
      <4> QED
        BY <4>1, <4>2
    <3>2. /\ fetch[x] = "answered" => log[i].number <= Newer(known[x[1]], snap[x])
          /\ fetch[x] = "done" => log[i].number <= known[x[1]]
      BY <3>1 DEF TabInv, SnapshotBridges
    <3> QED
      BY <2>1, <3>2 DEF Newer
  <2> QED
    BY <2>2, <2>3
<1>19. UnopenedHasNone'
  BY <1>1, UnopenedStays DEF TabInv, netVars
<1>20. SimInv'
  BY <1>1, SimStays
<1>21. TypeOK'
  <2>1. /\ handler' \in [Connections -> {"none", "accepted", "waiting", "sending", "gone"}]
        /\ hand' \in [Connections -> DOMAIN log \cup {0}]
        /\ pos' \in [Connections -> DOMAIN log \cup {0}]
    BY <1>1, <1>2
  <2>2. /\ shown' \in [Dashboards -> 0 .. MaxChanges]
        /\ ship' \in [Dashboards -> 0 .. MaxSamples]
        /\ known' \in [Dashboards -> 0 .. MaxChanges]
    <3>1. /\ shown' = [shown EXCEPT ![d] = shown'[d]]
          /\ ship' = [ship EXCEPT ![d] = ship'[d]]
          /\ known' = [known EXCEPT ![d] = known'[d]]
      BY <1>1, <1>2, <1>9
    <3> QED
      BY <1>2, <1>10, <3>1
  <2> QED
    BY <1>1, <2>1, <2>2 DEF TypeOK, simVars, netVars, Connections
<1> QED
  BY <1>8, <1>12, <1>14, <1>16, <1>17, <1>18, <1>19, <1>20, <1>21 DEF TabInv

-----------------------------------------------------------------------------
(* The browser tabs.                                                       *)

\* A new connection, which nobody has subscribed yet.
LEMMA OpensStep ==
  ASSUME IInv, NEW d \in Dashboards, Opens(d)
  PROVE  IInv'
<1> USE DEF IInv
<1>0. PICK k : k = <<d, opens[d] + 1>>
  OBVIOUS
<1>1. /\ opens[d] < MaxOpens
      /\ page' = [page EXCEPT ![d] = "connecting"]
      /\ opens' = [opens EXCEPT ![d] = @ + 1]
      /\ handler' = [handler EXCEPT ![k] = "accepted"]
      /\ UNCHANGED <<simVars, log, queue, hand, missed, gap, fetch, snap, tabVars>>
  BY <1>0 DEF Opens
<1>2. /\ opens \in [Dashboards -> 0 .. MaxOpens] /\ MaxOpens \in Nat
      /\ page \in [Dashboards -> {"connecting", "open", "closed", "left"}]
      /\ handler \in [Connections -> {"none", "accepted", "waiting", "sending", "gone"}]
  BY BoundsArePositive DEF TypeOK
<1>3. opens[d] + 1 \in 1 .. MaxOpens /\ opens[d] + 1 > opens[d] /\ opens[d] \in Nat
  BY <1>1, <1>2
<1>4. k \in Connections /\ handler[k] = "none" /\ k[1] = d
  BY <1>0, <1>3 DEF TabInv, UnopenedHasNone, Connections
<1>5. /\ opens'[d] = opens[d] + 1 /\ page'[d] = "connecting"
      /\ \A c \in Dashboards \ {d} : opens'[c] = opens[c] /\ page'[c] = page[c]
      /\ handler'[k] = "accepted" /\ \A c \in Connections \ {k} : handler'[c] = handler[c]
  BY <1>1, <1>2, <1>4
<1>6. Current(d)' = k /\ \A c \in Dashboards \ {d} : Current(c)' = Current(c)
  BY <1>0, <1>5 DEF Current
<1>7. \A c \in Connections : Subscribed(c)' <=> Subscribed(c)
  BY <1>4, <1>5 DEF Subscribed
<1>8. BusInv'
  <2>1. hand[k] = 0 /\ queue[k] = <<>> /\ ~Subscribed(k)
    BY <1>4 DEF BusInv, HandlerHolds, Subscribed
  <2>2. Stream(k)
    BY <1>4, BusIsStreams
  <2>3. Taken(k)' = Taken(k) /\ ~Subscribed(k)'
    BY <1>1, <1>4, <1>7, <2>1 DEF Taken, tabVars
  <2>4. Stream(k)'
    BY <1>1, <1>5, <2>1, <2>2, <2>3 DEF Stream, tabVars
  <2> QED
    BY <1>1, <1>4, <1>5, <2>4, OtherStreamsStay DEF tabVars
<1>9. ShipWasPublished'
  <2> SUFFICES ASSUME NEW c \in Dashboards, ship[c] # 0
               PROVE  \E i \in DOMAIN log :
                        /\ log[i] = Event("ship", ship[c])
                        /\ \A x \in Connections : x = Current(c)' /\ Subscribed(x)' => i <= pos[x]
    BY <1>1 DEF ShipWasPublished, Event, Connections, tabVars
  <2>1. PICK i \in DOMAIN log :
          /\ log[i] = Event("ship", ship[c])
          /\ \A x \in Connections : x = Current(c) /\ Subscribed(x) => i <= pos[x]
    BY DEF TabInv, ShipWasPublished
  <2>2. ~Subscribed(k)'
    BY <1>5 DEF Subscribed
  <2> QED
    BY <1>6, <1>7, <2>1, <2>2
<1>10. TabWasTold'
  BY <1>1 DEF TabInv, TabWasTold, Connections, simVars, tabVars
<1>11. OpenHasAsked'
  <2> SUFFICES ASSUME NEW c \in Dashboards
               PROVE  /\ page'[c] \in {"connecting", "open"} => opens'[c] # 0
                      /\ page'[c] = "open" => fetch[Current(c)'] # "none"
    BY <1>1 DEF OpenHasAsked
  <2>1. CASE c = d
    BY <1>3, <1>5, <2>1
  <2>2. CASE c # d
    BY <1>5, <1>6, <2>2 DEF TabInv, OpenHasAsked
  <2> QED
    BY <2>1, <2>2
<1>12. SnapshotBridges'
  BY <1>1, <1>7 DEF TabInv, SnapshotBridges, Newer, Connections, tabVars
<1>13. UnopenedHasNone'
  <2> SUFFICES ASSUME NEW c \in Dashboards, NEW n \in 1 .. MaxOpens, n > opens'[c]
               PROVE  handler'[<<c, n>>] = "none"
    BY DEF UnopenedHasNone
  <2>1. n > opens[c] /\ <<c, n>> \in Connections
    BY <1>2, <1>3, <1>5 DEF Connections
  <2>2. handler[<<c, n>>] = "none"
    BY <2>1 DEF TabInv, UnopenedHasNone
  <2>3. <<c, n>> # k
    BY <1>0, <1>3, <1>5
  <2> QED
    BY <1>5, <2>1, <2>2, <2>3
<1>14. SimInv'
  BY <1>1, SimStays
<1>15. TypeOK'
  <2>1. /\ handler' \in [Connections -> {"none", "accepted", "waiting", "sending", "gone"}]
        /\ page' \in [Dashboards -> {"connecting", "open", "closed", "left"}]
    BY <1>1, <1>2, <1>4
  <2>2. opens' \in [Dashboards -> 0 .. MaxOpens]
    BY <1>1, <1>2, <1>3
  <2> QED
    BY <1>1, <2>1, <2>2 DEF TypeOK, simVars, tabVars, Connections
<1> QED
  BY <1>8, <1>9, <1>10, <1>11, <1>12, <1>13, <1>14, <1>15 DEF TabInv

\* The stream is seen to open, or it breaks.
LEMMA PageStep ==
  ASSUME IInv, NEW d \in Dashboards, SeesOpen(d) \/ Breaks(d)
  PROVE  IInv'
<1> USE DEF IInv
<1>1. /\ page \in [Dashboards -> {"connecting", "open", "closed", "left"}]
      /\ opens \in [Dashboards -> 0 .. MaxOpens] /\ MaxOpens \in Nat
      /\ fetch \in [Connections -> {"none", "asked", "answered", "done", "failed"}]
  BY BoundsArePositive DEF TypeOK
<1>2. opens[d] # 0 /\ Current(d) \in Connections
  <2>1. opens[d] # 0
    BY DEF SeesOpen, Breaks, TabInv, OpenHasAsked
  <2> QED
    BY <1>1, <2>1 DEF Current, Connections
<1>3. UNCHANGED <<simVars, busVars, opens, snap, tabVars>>
  BY DEF SeesOpen, Breaks
<1>4. /\ page' \in [Dashboards -> {"connecting", "open", "closed", "left"}]
      /\ fetch' \in [Connections -> {"none", "asked", "answered", "done", "failed"}]
      /\ \A c \in Dashboards \ {d} : page'[c] = page[c]
      /\ page'[d] = "open" => fetch'[Current(d)] = "asked"
      /\ \A k \in Connections : fetch'[k] = fetch[k] \/ fetch'[k] = "asked"
  BY <1>1, <1>2 DEF SeesOpen, Breaks
<1>5. Connections' = Connections /\ \A k : Subscribed(k)' <=> Subscribed(k)
  BY <1>3 DEF Connections, Subscribed, busVars
<1>6. \A c : Current(c)' = Current(c)
  BY <1>3 DEF Current
<1>7. ShipWasPublished' /\ UnopenedHasNone'
  BY <1>3, <1>5, <1>6 DEF TabInv, ShipWasPublished, UnopenedHasNone, Event, busVars, tabVars
<1>8. TabWasTold'
  BY <1>3, <1>4, <1>5 DEF TabInv, TabWasTold, simVars, tabVars
<1>9. OpenHasAsked'
  <2> SUFFICES ASSUME NEW c \in Dashboards
               PROVE  /\ page'[c] \in {"connecting", "open"} => opens[c] # 0
                      /\ page'[c] = "open" => fetch'[Current(c)] # "none"
    BY <1>3, <1>6 DEF OpenHasAsked
  <2>1. CASE c = d
    BY <1>2, <1>4, <2>1
  <2>2. CASE c # d
    <3>1. page[c] \in {"connecting", "open"} => Current(c) \in Connections /\ opens[c] # 0
      BY <1>1 DEF TabInv, OpenHasAsked, Current, Connections
    <3> QED
      BY <1>4, <2>2, <3>1 DEF TabInv, OpenHasAsked
  <2> QED
    BY <2>1, <2>2
<1>10. SnapshotBridges'
  BY <1>3, <1>4, <1>5 DEF TabInv, SnapshotBridges, Newer, busVars, tabVars
<1>11. BusInv' /\ SimInv'
  BY <1>3, BusStays, SimStays DEF busVars, tabVars
<1>12. TypeOK'
  BY <1>3, <1>4 DEF TypeOK, simVars, busVars, tabVars, Connections
<1> QED
  BY <1>7, <1>8, <1>9, <1>10, <1>11, <1>12 DEF TabInv

\* The snapshot is answered or lost.
LEMMA AnswersStep ==
  ASSUME IInv, NEW k \in Connections, Answers(k) \/ SnapshotFails(k)
  PROVE  IInv'
<1> USE DEF IInv
<1>1. /\ fetch \in [Connections -> {"none", "asked", "answered", "done", "failed"}]
      /\ snap \in [Connections -> 0 .. MaxChanges] /\ link \in 0 .. MaxChanges
      /\ known \in [Dashboards -> 0 .. MaxChanges] /\ MaxChanges \in Nat
  BY BoundsArePositive DEF TypeOK
<1>2. UNCHANGED <<simVars, busVars, page, opens, tabVars>>
  BY DEF Answers, SnapshotFails
<1>3. /\ fetch' \in [Connections -> {"none", "asked", "answered", "done", "failed"}]
      /\ snap' \in [Connections -> 0 .. MaxChanges]
      /\ \A c \in Connections \ {k} : fetch'[c] = fetch[c] /\ snap'[c] = snap[c]
      /\ \/ fetch'[k] = "answered" /\ snap'[k] = link
         \/ fetch'[k] = "failed" /\ snap'[k] = snap[k]
  BY <1>1 DEF Answers, SnapshotFails
<1>4. Connections' = Connections /\ \A c : Subscribed(c)' <=> Subscribed(c)
  BY <1>2 DEF Connections, Subscribed, busVars
<1>5. \A c : Current(c)' = Current(c)
  BY <1>2 DEF Current
<1>6. ShipWasPublished' /\ UnopenedHasNone'
  BY <1>2, <1>4, <1>5 DEF TabInv, ShipWasPublished, UnopenedHasNone, Event, busVars, tabVars
<1>7. TabWasTold'
  <2>1. \A c \in Connections :
          snap'[c] <= link /\ (fetch'[c] = "done" => snap'[c] <= known[c[1]])
    BY <1>1, <1>3 DEF TabInv, TabWasTold
  <2> QED
    BY <1>2, <1>4, <2>1 DEF TabInv, TabWasTold, simVars, tabVars
<1>8. OpenHasAsked'
  <2> SUFFICES ASSUME NEW c \in Dashboards, page[c] = "open"
               PROVE  fetch'[Current(c)] # "none"
    BY <1>2, <1>5 DEF TabInv, OpenHasAsked
  <2>1. fetch[Current(c)] # "none" /\ Current(c) \in Connections
    <3>1. opens \in [Dashboards -> 0 .. MaxOpens] /\ MaxOpens \in Nat
      BY BoundsArePositive DEF TypeOK
    <3> QED
      BY <3>1 DEF TabInv, OpenHasAsked, Current, Connections
  <2> QED
    BY <1>3, <2>1
<1>9. SnapshotBridges'
  <2> SUFFICES ASSUME NEW x \in Connections, NEW i \in DOMAIN log,
                      Subscribed(x), x \notin missed, x \notin gap,
                      i <= pos[x], log[i].kind = "link"
               PROVE  /\ fetch'[x] = "answered" => log[i].number <= Newer(known[x[1]], snap'[x])
                      /\ fetch'[x] = "done" => log[i].number <= known[x[1]]
    BY <1>2, <1>4 DEF SnapshotBridges, Newer, busVars, tabVars
  <2>1. CASE x # k
    BY <1>3, <2>1 DEF TabInv, SnapshotBridges
  <2>2. CASE x = k
    <3>1. log[i].number <= link /\ log[i].number \in Nat
      BY LogTyped DEF SimInv, LinksPublished
    <3>2. known[k[1]] \in Nat /\ link \in Nat
      BY <1>1 DEF Connections
    <3> QED
      BY <1>3, <2>2, <3>1, <3>2 DEF Newer
  <2> QED
    BY <2>1, <2>2
<1>10. BusInv' /\ SimInv'
  BY <1>2, BusStays, SimStays DEF busVars, tabVars
<1>11. TypeOK'
  BY <1>2, <1>3 DEF TypeOK, simVars, busVars, tabVars, Connections
<1> QED
  BY <1>6, <1>7, <1>8, <1>9, <1>10, <1>11 DEF TabInv

\* The snapshot is applied.
LEMMA ArrivesStep ==
  ASSUME IInv, NEW k \in Connections, SnapshotArrives(k)
  PROVE  IInv'
<1> USE DEF IInv
<1> DEFINE d == k[1]
<1>1. /\ fetch[k] = "answered"
      /\ fetch' = [fetch EXCEPT ![k] = "done"]
      /\ shown' = [shown EXCEPT ![d] = snap[k]]
      /\ known' = [known EXCEPT ![d] = Newer(@, snap[k])]
      /\ UNCHANGED <<simVars, busVars, page, opens, snap, pos, ship>>
  BY DEF SnapshotArrives
<1>2. /\ fetch \in [Connections -> {"none", "asked", "answered", "done", "failed"}]
      /\ shown \in [Dashboards -> 0 .. MaxChanges]
      /\ known \in [Dashboards -> 0 .. MaxChanges]
      /\ snap \in [Connections -> 0 .. MaxChanges]
      /\ link \in 0 .. MaxChanges /\ MaxChanges \in Nat /\ d \in Dashboards
  BY BoundsArePositive DEF TypeOK, Connections
<1>3. /\ fetch'[k] = "done" /\ \A c \in Connections \ {k} : fetch'[c] = fetch[c]
      /\ shown'[d] = snap[k] /\ known'[d] = Newer(known[d], snap[k])
      /\ \A c \in Dashboards \ {d} : shown'[c] = shown[c] /\ known'[c] = known[c]
  BY <1>1, <1>2
<1>4. /\ known'[d] \in 0 .. MaxChanges /\ known[d] <= known'[d]
      /\ snap[k] <= known'[d] /\ known'[d] <= link
  <2>1. known[d] \in 0 .. MaxChanges /\ snap[k] \in 0 .. MaxChanges
        /\ known[d] <= link /\ snap[k] <= link
    BY <1>2 DEF TabInv, TabWasTold
  <2> QED
    BY <1>2, <1>3, <2>1 DEF Newer
<1>5. \A c \in Dashboards : known[c] <= known'[c] /\ known[c] \in Nat /\ known'[c] \in Nat
  BY <1>2, <1>3, <1>4
<1>6. Connections' = Connections /\ \A c : Subscribed(c)' <=> Subscribed(c)
  BY <1>1 DEF Connections, Subscribed, busVars
<1>7. \A c : Current(c)' = Current(c)
  BY <1>1 DEF Current
<1>8. ShipWasPublished' /\ UnopenedHasNone'
  BY <1>1, <1>6, <1>7 DEF TabInv, ShipWasPublished, UnopenedHasNone, Event, busVars
<1>9. TabWasTold'
  <2>1. \A c \in Dashboards : shown'[c] <= known'[c] /\ known'[c] <= link
    BY <1>3, <1>4 DEF TabInv, TabWasTold
  <2>2. ASSUME NEW x \in Connections
        PROVE  snap[x] <= link /\ (fetch'[x] = "done" => snap[x] <= known'[x[1]])
    <3>1. x[1] \in Dashboards /\ snap[x] \in Nat
      BY <1>2 DEF Connections
    <3>2. snap[x] <= link /\ (fetch[x] = "done" => snap[x] <= known[x[1]])
      BY DEF TabInv, TabWasTold
    <3>3. CASE x = k
      BY <1>4, <3>2, <3>3
    <3>4. CASE x # k
      BY <1>3, <1>5, <3>1, <3>2, <3>4
    <3> QED
      BY <3>3, <3>4
  <2> QED
    BY <1>1, <1>6, <2>1, <2>2 DEF TabWasTold, simVars
<1>10. OpenHasAsked'
  <2> SUFFICES ASSUME NEW c \in Dashboards, page[c] = "open"
               PROVE  fetch'[Current(c)] # "none"
    BY <1>1, <1>7 DEF TabInv, OpenHasAsked
  <2> QED
    BY <1>1, <1>2 DEF TabInv, OpenHasAsked
<1>11. SnapshotBridges'
  <2> SUFFICES ASSUME NEW x \in Connections, NEW i \in DOMAIN log,
                      Subscribed(x), x \notin missed, x \notin gap,
                      i <= pos[x], log[i].kind = "link"
               PROVE  /\ fetch'[x] = "answered" => log[i].number <= Newer(known'[x[1]], snap[x])
                      /\ fetch'[x] = "done" => log[i].number <= known'[x[1]]
    BY <1>1, <1>6 DEF SnapshotBridges, Newer, busVars
  <2>1. x[1] \in Dashboards /\ snap[x] \in Nat
    BY <1>2 DEF Connections
  <2>2. log[i].number \in Nat
    BY LogTyped
  <2>3. /\ fetch[x] = "answered" => log[i].number <= Newer(known[x[1]], snap[x])
        /\ fetch[x] = "done" => log[i].number <= known[x[1]]
    BY DEF TabInv, SnapshotBridges
  <2>4. CASE x = k
    BY <1>1, <1>3, <2>3, <2>4
  <2>5. CASE x # k
    BY <1>3, <1>5, <2>1, <2>2, <2>3, <2>5 DEF Newer
  <2> QED
    BY <2>4, <2>5
<1>12. BusInv' /\ SimInv'
  BY <1>1, BusStays, SimStays DEF busVars
<1>13. TypeOK'
  <2>1. /\ fetch' \in [Connections -> {"none", "asked", "answered", "done", "failed"}]
        /\ shown' \in [Dashboards -> 0 .. MaxChanges]
    BY <1>1, <1>2
  <2>2. known' \in [Dashboards -> 0 .. MaxChanges]
    <3>1. known' = [known EXCEPT ![d] = known'[d]]
      BY <1>1, <1>2, <1>3
    <3> QED
      BY <1>2, <1>4, <3>1
  <2> QED
    BY <1>1, <2>1, <2>2 DEF TypeOK, simVars, busVars, Connections
<1> QED
  BY <1>8, <1>9, <1>10, <1>11, <1>12, <1>13 DEF TabInv

-----------------------------------------------------------------------------
(* The theorems.                                                           *)

LEMMA Initially == Init => IInv
<1> SUFFICES ASSUME Init PROVE IInv
  OBVIOUS
<1>1. TypeOK
  <2>1. <<>> \in Seq([kind : {"link", "ship", "turn"}, number : Nat]) /\ <<>> \in Seq(DOMAIN log)
    BY EmptySeq
  <2> QED
    BY <2>1, BoundsArePositive DEF Init, TypeOK
<1>2. SimInv
  <2>1. DOMAIN log = {} /\ "free" \notin Readers
    BY DEF Init, Readers
  <2> QED
    BY <2>1 DEF Init, SimInv, LockOwned, ShipsInOrder, LinksPublished
<1>3. BusInv
  <2>1. \A k \in Connections :
          /\ hand[k] = 0 /\ handler[k] = "none" /\ queue[k] = <<>>
          /\ Len(queue[k]) = 0 /\ DOMAIN queue[k] = {} /\ ~Subscribed(k)
    BY DEF Init, Subscribed
  <2> QED
    BY <2>1, BoundsArePositive DEF BusInv, HandlerHolds, QueueInOrder, QueueWhole
<1>4. TabInv
  <2>1. \A k \in Connections : k[1] \in Dashboards
    BY DEF Connections
  <2>2. TabWasTold
    BY <2>1 DEF Init, TabWasTold
  <2>3. UnopenedHasNone
    BY DEF Init, UnopenedHasNone, Connections
  <2> QED
    BY <2>2, <2>3 DEF Init, TabInv, ShipWasPublished, OpenHasAsked, SnapshotBridges
<1> QED
  BY <1>1, <1>2, <1>3, <1>4 DEF IInv

LEMMA Stuttering ==
  ASSUME IInv, UNCHANGED vars
  PROVE  IInv'
<1> USE DEF IInv, vars, busVars, tabVars
<1>1. SimInv' /\ BusInv'
  BY SimStays, BusStays
<1>2. TabInv'
  BY TabsStay DEF simVars
<1>3. TypeOK'
  BY DEF TypeOK, simVars, netVars, Connections
<1> QED
  BY <1>1, <1>2, <1>3

LEMMA Steps ==
  ASSUME IInv, [Next]_vars
  PROVE  IInv'
<1>1. CASE LinkChanges
  BY <1>1, LinkChangesStep
<1>2. ASSUME NEW p \in Readers, Asks(p) \/ ReaderStep(p) PROVE IInv'
  BY <1>2, LockingStep, SamplesStep, ReturnsStep, FailsStep DEF ReaderStep
<1>3. ASSUME NEW k \in Connections, HandlerStep(k) PROVE IInv'
  BY <1>3, SubscribesStep, TakesStep, SendsStep, SendFailsStep DEF HandlerStep
<1>4. ASSUME NEW k \in Connections, FetchStep(k) PROVE IInv'
  BY <1>4, AnswersStep, ArrivesStep DEF FetchStep
<1>5. ASSUME NEW d \in Dashboards, BrowserStep(d) \/ Breaks(d) PROVE IInv'
  BY <1>5, OpensStep, PageStep DEF BrowserStep
<1>6. CASE UNCHANGED vars
  BY <1>6, Stuttering
<1> QED
  BY <1>1, <1>2, <1>3, <1>4, <1>5, <1>6 DEF Next

\* The invariant holds with any number of tabs and connections, any queue size
\* and any bound on what happens (Dashboard's Next).
THEOREM Inductive == Spec => []IInv
<1>1. Init => IInv
  BY Initially
<1>2. IInv /\ [Next]_vars => IInv'
  BY Steps
<1> QED
  BY <1>1, <1>2, PTL DEF Spec

\* Every variable keeps its type.
THEOREM TypeCorrect == Spec => []TypeOK
<1>1. IInv => TypeOK
  BY DEF IInv
<1> QED
  BY <1>1, Inductive, PTL

\* The events that wait for a connection, by their place.
LEMMA PendingEvents ==
  ASSUME TypeOK, BusInv, NEW k \in Connections
  PROVE  /\ hand[k] = 0 => Pending(k) = queue[k]
         /\ Pending(k) \in Seq(1 .. Len(log))
         /\ Len(queue[k]) \in Nat /\ DOMAIN queue[k] = 1 .. Len(queue[k])
         /\ hand[k] # 0 =>
              /\ Len(Pending(k)) = Len(queue[k]) + 1
              /\ Pending(k)[1] = hand[k]
              /\ \A i \in 1 .. Len(queue[k]) : Pending(k)[i + 1] = queue[k][i]
<1>1. /\ Len(log) \in Nat /\ hand[k] \in 0 .. Len(log) /\ queue[k] \in Seq(1 .. Len(log))
  BY StreamTyped
<1>2. Len(queue[k]) \in Nat /\ DOMAIN queue[k] = 1 .. Len(queue[k])
  BY <1>1
<1>3. CASE hand[k] = 0
  BY <1>1, <1>2, <1>3 DEF Pending
<1>4. CASE hand[k] # 0
  <2> DEFINE S == 1 .. Len(log)
             one == <<hand[k]>>
  <2>1. hand[k] \in S
    BY <1>1, <1>4
  <2>2. queue[k] \in Seq(S)
    BY <1>1
  <2>3. Pending(k) = one \o queue[k]
    BY <1>4 DEF Pending
  <2> HIDE DEF S
  <2>4. one \in Seq(S) /\ Len(one) = 1 /\ one[1] = hand[k]
    BY <2>1
  <2> HIDE DEF one
  <2>5. /\ one \o queue[k] \in Seq(S) /\ Len(one \o queue[k]) = Len(one) + Len(queue[k])
        /\ \A i \in 1 .. Len(one) + Len(queue[k]) : (one \o queue[k])[i] =
             IF i <= Len(one) THEN one[i] ELSE queue[k][i - Len(one)]
    BY <2>2, <2>4, ConcatProperties
  <2>6. Len(Pending(k)) = Len(queue[k]) + 1 /\ Pending(k)[1] = hand[k]
    BY <1>2, <2>3, <2>4, <2>5
  <2>7. ASSUME NEW i \in 1 .. Len(queue[k]) PROVE Pending(k)[i + 1] = queue[k][i]
    <3>1. i + 1 \in 1 .. 1 + Len(queue[k]) /\ ~(i + 1 <= 1) /\ (i + 1) - 1 = i
      BY <1>2
    <3> QED
      BY <2>3, <2>4, <2>5, <3>1
  <2> QED
    BY <1>2, <1>4, <2>3, <2>5, <2>6, <2>7 DEF S
<1> QED
  BY <1>3, <1>4

LEMMA StreamOfInv ==
  ASSUME IInv, NEW k \in Connections, Subscribed(k)
  PROVE  /\ \A i \in DOMAIN Pending(k) :
              Pending(k)[i] > IF i = 1 THEN pos[k] ELSE Pending(k)[i - 1]
         /\ k \notin missed => Pending(k) = [i \in 1 .. Len(log) - pos[k] |-> pos[k] + i]
<1>1. /\ Len(log) \in Nat /\ pos[k] \in 0 .. Len(log) /\ hand[k] \in 0 .. Len(log)
  BY StreamTyped DEF IInv
<1>2. Stream(k)
  BY BusIsStreams DEF IInv
<1>3. /\ hand[k] = 0 => Pending(k) = queue[k]
      /\ Pending(k) \in Seq(1 .. Len(log))
      /\ Len(queue[k]) \in Nat /\ DOMAIN queue[k] = 1 .. Len(queue[k])
      /\ hand[k] # 0 =>
           /\ Len(Pending(k)) = Len(queue[k]) + 1
           /\ Pending(k)[1] = hand[k]
           /\ \A i \in 1 .. Len(queue[k]) : Pending(k)[i + 1] = queue[k][i]
  BY PendingEvents DEF IInv
<1>4. /\ Len(Pending(k)) \in Nat /\ DOMAIN Pending(k) = 1 .. Len(Pending(k))
      /\ Pending(k) = [i \in 1 .. Len(Pending(k)) |-> Pending(k)[i]]
      /\ \A i \in 1 .. Len(Pending(k)) : Pending(k)[i] \in 1 .. Len(log)
  BY <1>3
<1>5. ASSUME NEW i \in 1 .. Len(Pending(k)), hand[k] # 0, i # 1
      PROVE  i - 1 \in 1 .. Len(queue[k]) /\ Pending(k)[i] = queue[k][i - 1]
  <2>1. i \in 1 .. Len(queue[k]) + 1 /\ Len(queue[k]) \in Nat
    BY <1>3, <1>5
  <2>2. i - 1 \in 1 .. Len(queue[k]) /\ (i - 1) + 1 = i
    BY <1>5, <2>1
  <2> QED
    BY <1>3, <1>5, <2>2
<1>6. ASSUME NEW i \in 1 .. Len(Pending(k))
      PROVE  Pending(k)[i] > IF i = 1 THEN pos[k] ELSE Pending(k)[i - 1]
  <2>1. CASE hand[k] = 0
    <3>1. Taken(k) = pos[k] /\ i \in DOMAIN queue[k]
      BY <1>3, <1>4, <2>1 DEF Taken
    <3>2. CASE i = 1
      BY <1>1, <1>2, <1>3, <1>4, <2>1, <3>1, <3>2 DEF Stream
    <3>3. CASE i # 1
      <4>1. i - 1 \in DOMAIN queue[k] /\ i - 1 < i
        BY <1>3, <3>1, <3>3
      <4>2. queue[k][i - 1] < queue[k][i]
        BY <1>2, <3>1, <4>1 DEF Stream
      <4>3. queue[k][i - 1] \in Nat /\ queue[k][i] \in Nat
        BY <1>1, <1>3, <1>4, <2>1, <4>1, SMTT(60)
      <4> QED
        BY <1>3, <2>1, <3>3, <4>2, <4>3
    <3> QED
      BY <3>2, <3>3
  <2>2. CASE hand[k] # 0
    <3>1. Taken(k) = hand[k] /\ pos[k] < hand[k]
      BY <1>2, <2>2 DEF Taken, Stream
    <3>2. CASE i = 1
      BY <1>1, <1>3, <2>2, <3>1, <3>2
    <3>3. CASE i # 1
      <4>1. i - 1 \in 1 .. Len(queue[k]) /\ Pending(k)[i] = queue[k][i - 1]
        BY <1>5, <2>2, <3>3
      <4>2. i - 1 \in 1 .. Len(Pending(k))
        <5>1. Len(Pending(k)) = Len(queue[k]) + 1 /\ Len(queue[k]) \in Nat
          BY <1>3, <2>2
        <5>2. i - 1 \in 1 .. Len(queue[k]) + 1
          BY <4>1, <5>1
        <5> QED
          BY <5>1, <5>2
      <4>3. Pending(k)[i] \in Nat /\ Pending(k)[i - 1] \in Nat
        BY <1>1, <1>4, <4>2
      <4>4. CASE i - 1 = 1
        <5>1. Pending(k)[i - 1] = hand[k] /\ hand[k] < queue[k][i - 1]
          BY <1>2, <1>3, <2>2, <3>1, <4>1, <4>4 DEF Stream
        <5> QED
          BY <3>3, <4>1, <4>3, <5>1
      <4>5. CASE i - 1 # 1
        <5>1. (i - 1) - 1 \in 1 .. Len(queue[k]) /\ Pending(k)[i - 1] = queue[k][(i - 1) - 1]
          BY <1>5, <2>2, <4>2, <4>5
        <5>2. (i - 1) - 1 < i - 1
          BY <4>1
        <5>3. queue[k][(i - 1) - 1] < queue[k][i - 1]
          BY <1>2, <1>3, <4>1, <5>1, <5>2 DEF Stream
        <5> QED
          BY <3>3, <4>1, <4>3, <5>1, <5>3
      <4> QED
        BY <4>4, <4>5
    <3> QED
      BY <3>2, <3>3
  <2> QED
    BY <2>1, <2>2
<1>7. ASSUME k \notin missed
      PROVE  /\ Len(Pending(k)) = Len(log) - pos[k]
             /\ \A i \in 1 .. Len(Pending(k)) : Pending(k)[i] = pos[k] + i
  <2>1. CASE hand[k] = 0
    BY <1>2, <1>3, <1>4, <1>7, <2>1 DEF Stream, Taken
  <2>2. CASE hand[k] # 0
    <3>1. /\ hand[k] = pos[k] + 1 /\ Len(queue[k]) = Len(log) - hand[k]
          /\ \A i \in 1 .. Len(queue[k]) : queue[k][i] = hand[k] + i
      BY <1>2, <1>3, <1>7, <2>2 DEF Stream, Taken
    <3>2. Len(Pending(k)) = Len(log) - pos[k]
      <4>1. Len(Pending(k)) = (Len(log) - (pos[k] + 1)) + 1
        BY <1>3, <2>2, <3>1, Zenon
      <4> QED
        BY <1>1, <4>1
    <3>3. ASSUME NEW i \in 1 .. Len(Pending(k)) PROVE Pending(k)[i] = pos[k] + i
      <4>1. CASE i = 1
        BY <1>3, <2>2, <3>1, <4>1
      <4>2. CASE i # 1
        <5>1. i - 1 \in 1 .. Len(queue[k]) /\ Pending(k)[i] = queue[k][i - 1]
          BY <1>5, <2>2, <4>2
        <5>2. Pending(k)[i] = (pos[k] + 1) + (i - 1)
          BY <3>1, <5>1
        <5> QED
          BY <1>1, <1>4, <5>2
      <4> QED
        BY <4>1, <4>2
    <3> QED
      BY <3>2, <3>3
  <2> QED
    BY <2>1, <2>2
<1>8. ASSUME k \notin missed
      PROVE  Pending(k) = [i \in 1 .. Len(log) - pos[k] |-> pos[k] + i]
  BY <1>4, <1>7, <1>8
<1> QED
  BY <1>4, <1>6, <1>8

\* Streams are ordered, free of repetitions and, while the queue never ran full,
\* complete, for every connection and whatever the other subscribers do
\* (EventBus.publish, ws_events).
THEOREM StreamsAreIntact == Spec => []StreamIntact
<1>1. IInv => StreamIntact
  BY StreamOfInv DEF StreamIntact
<1> QED
  BY <1>1, Inductive, PTL

\* No step of anyone takes a tab's ship panel back to an older ship state
\* (run_ship_state_publisher, _publish_turn_events, onEvent).
THEOREM PanelMonotone == Spec => ShipPanelMonotone
<1>1. ASSUME IInv, [Next]_vars
      PROVE  [\A d \in Dashboards : ship'[d] >= ship[d]]_vars
  <2>1. \A d \in Dashboards : ship[d] \in Nat
    BY <1>1, BoundsArePositive DEF IInv, TypeOK
  <2>2. CASE \E k \in Connections : Sends(k)
    BY <1>1, <2>2, SendsStep
  <2>3. CASE Next /\ ~\E k \in Connections : Sends(k)
    <3>1. ship' = ship
      BY <2>3 DEF Next, LinkChanges, Asks, ReaderStep, Locks, Samples, Returns, Fails,
                  HandlerStep, Subscribes, Takes, SendFails, FetchStep, Answers,
                  SnapshotArrives, SnapshotFails, BrowserStep, Opens, SeesOpen, Breaks, tabVars
    <3> QED
      BY <2>1, <3>1
  <2> QED
    BY <1>1, <2>2, <2>3
<1> QED
  BY <1>1, Inductive, PTL DEF Spec, ShipPanelMonotone

\* A tab that has received everything and shows a stale link was dropped an
\* event, had its snapshot fail, be answered too early, or arrive too late: the
\* four reasons are all there are (refreshSnapshots, onEvent, ws_events).
THEOREM StaleIsExplained == Spec => []SettledIsExplained
<1>1. ASSUME IInv, NEW d \in Dashboards, Settled(d),
             Current(d) \notin missed, ~(shown[d] < known[d]),
             fetch[Current(d)] # "failed", Current(d) \notin gap
      PROVE  shown[d] = link
  <2> USE DEF IInv
  <2>1. PICK k : k = Current(d)
    OBVIOUS
  <2>2. /\ opens \in [Dashboards -> 0 .. MaxOpens] /\ MaxOpens \in Nat
        /\ fetch \in [Connections -> {"none", "asked", "answered", "done", "failed"}]
        /\ shown[d] \in Nat /\ known[d] \in Nat /\ link \in Nat
    BY <1>1, BoundsArePositive DEF TypeOK
  <2>3. opens[d] \in 1 .. opens[d] /\ k = <<d, opens[d]>> /\ k \in Connections /\ k[1] = d
    <3>1. opens[d] # 0
      BY <1>1 DEF Settled, TabInv, OpenHasAsked
    <3> QED
      BY <2>1, <2>2, <3>1 DEF Current, Connections
  <2>4. fetch[k] = "done"
    <3>1. fetch[k] \notin {"none", "failed"}
      BY <1>1, <2>1 DEF Settled, TabInv, OpenHasAsked
    <3>2. fetch[k] \notin {"asked", "answered"}
      BY <1>1, <2>3 DEF Settled
    <3> QED
      BY <2>2, <2>3, <3>1, <3>2
  <2>5. pos[k] = Len(log) /\ Subscribed(k) /\ Len(log) \in Nat /\ DOMAIN log = 1 .. Len(log)
    <3>1. Subscribed(k) /\ Pending(k) = <<>> /\ k \notin missed
      BY <1>1, <2>1 DEF Settled
    <3>2. Len(log) \in Nat /\ DOMAIN log = 1 .. Len(log) /\ pos[k] \in 0 .. Len(log)
      BY <1>1, <2>3, StreamTyped
    <3>3. <<>> = [i \in 1 .. Len(log) - pos[k] |-> pos[k] + i]
      BY <1>1, <2>3, <3>1, StreamOfInv
    <3>4. 1 .. Len(log) - pos[k] = {}
      BY <3>3
    <3>5. pos[k] = Len(log)
      <4>1. pos[k] < Len(log) => 1 \in 1 .. Len(log) - pos[k]
        BY <3>2
      <4> QED
        BY <3>2, <3>4, <4>1
    <3> QED
      BY <3>1, <3>2, <3>5
  <2>6. shown[d] <= known[d] /\ known[d] <= link
    BY <1>1 DEF TabInv, TabWasTold
  <2>7. link <= known[d]
    <3>1. CASE link = 0
      BY <2>2, <3>1
    <3>2. CASE link # 0
      <4>1. PICK i \in DOMAIN log : log[i] = Event("link", link)
        BY <1>1, <3>2 DEF SimInv, LinksPublished
      <4>2. log[i].kind = "link" /\ log[i].number = link /\ i <= pos[k]
        BY <2>5, <4>1 DEF Event
      <4> QED
        BY <1>1, <2>1, <2>3, <2>4, <2>5, <4>1, <4>2 DEF TabInv, SnapshotBridges
    <3> QED
      BY <3>1, <3>2
  <2> QED
    BY <1>1, <2>2, <2>6, <2>7
<1>2. IInv => SettledIsExplained
  BY <1>1 DEF SettledIsExplained
<1> QED
  BY <1>2, Inductive, PTL
=============================================================================
