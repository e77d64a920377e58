---------------------------- MODULE VoiceProofs -----------------------------
(***************************************************************************)
(* Proofs about Voice, for every set of browser connections.               *)
(*                                                                         *)
(* Neither property is inductive. That the table is empty when the session *)
(* ends depends on the list that close() took: whoever is in the table     *)
(* while it is worked off is still on that list or is the one being        *)
(* cleaned up (TableIsListed), and nobody enters the table behind its back *)
(* because no request is under way any more (ClosedToOffers). That a       *)
(* record is never replaced by one without tasks under a running pipeline  *)
(* needs that a pc_id is registered once (FreshIsEmpty).                   *)
(***************************************************************************)
EXTENDS Voice, TLAPS

USE NoPeerIsNone

Shutdown == {"closing", "awaiting", "ended"}

TypeOK ==
  /\ stage \in {"serving", "stopping"} \cup Shutdown
  /\ offer \in [Peers -> {"none", "initializing", "renegotiating", "done"}]
  /\ peer \in [Peers -> {"none", "open", "gone"}]
  /\ table \in [Peers -> {"none", "bare", "wired"}]
  /\ pipe \in [Peers -> {"none", "running", "told", "ended"}]
  /\ heard \subseteq Peers
  /\ cleanup \subseteq Peers
  /\ todo \subseteq Peers
  /\ current \in Peers \cup {NoPeer}

\* A pipeline that nobody told to stop is in the table.
Attended == \A p \in Peers : pipe[p] = "running" => table[p] = "wired"

\* Until its first offer is through a peer has no record, no pipeline, no cleanup.
FreshIsEmpty ==
  \A p \in Peers : offer[p] \in {"none", "initializing"} =>
    table[p] = "none" /\ pipe[p] = "none" /\ p \notin cleanup

\* Once the lifespan handler runs, no offer is under way.
ClosedToOffers == stage \in Shutdown => InFlight = {}

\* What is left in the table is still to be closed.
TableIsListed ==
  /\ stage = "closing" => \A p \in Peers : table[p] # "none" => p \in todo \cup {current}
  /\ stage = "awaiting" => \A p \in Peers : table[p] # "none" => p \in todo
  /\ stage = "ended" => \A p \in Peers : table[p] = "none"

IInv == TypeOK /\ Attended /\ FreshIsEmpty /\ ClosedToOffers /\ TableIsListed

-----------------------------------------------------------------------------

\* What a handle_offer does: it registers the pipeline that it starts.
LEMMA OfferStep ==
  ASSUME IInv, NEW p \in Peers,
         OfferArrives(p) \/ InitializeFails(p) \/ Starts(p) \/ Renegotiates(p)
  PROVE  IInv'
<1> USE DEF IInv, OfferArrives, InitializeFails, Starts, Renegotiates
<1>1. TypeOK'
  BY DEF TypeOK
<1>2. Attended'
  <2>1. CASE Starts(p)
    BY <2>1 DEF TypeOK, Attended, FreshIsEmpty
  <2>2. CASE ~Starts(p)
    BY <2>2 DEF Attended
  <2> QED
    BY <2>1, <2>2
<1>3. stage' = stage /\ (stage \in Shutdown => UNCHANGED <<offer, table>>)
  BY DEF TypeOK, ClosedToOffers, InFlight, Shutdown
<1>4. ClosedToOffers'
  BY <1>3 DEF ClosedToOffers, InFlight, TypeOK, Shutdown
<1>5. TableIsListed'
  BY <1>3 DEF TableIsListed, Shutdown
<1>6. FreshIsEmpty'
  BY DEF FreshIsEmpty, TypeOK
<1> QED
  BY <1>1, <1>2, <1>4, <1>5, <1>6

\* What a peer, its pipeline and its cleanup do: the record goes with the pipeline.
LEMMA PeerOrCleanupStep ==
  ASSUME IInv, NEW p \in Peers,
         PeerLeaves(p) \/ PipelineEnds(p) \/ DisconnectHeard(p) \/ CleanupEnds(p)
  PROVE  IInv'
<1> USE DEF IInv, PeerLeaves, PipelineEnds, DisconnectHeard, CleanupEnds, CleanupBegins
<1>1. TypeOK'
  BY DEF TypeOK
<1>2. Attended'
  BY DEF TypeOK, Attended
<1>3. ClosedToOffers'
  BY DEF ClosedToOffers, InFlight
<1>4. TableIsListed'
  BY DEF TableIsListed, TypeOK
<1>5. FreshIsEmpty'
  BY DEF FreshIsEmpty, TypeOK
<1> QED
  BY <1>1, <1>2, <1>3, <1>4, <1>5

\* The interrupt, the list of close() and its way through it.
LEMMA SessionStep ==
  ASSUME IInv, FeedChanges \/ Interrupted \/ ServeStep
  PROVE  IInv'
<1> USE DEF IInv, CleanupBegins
<1>1. CASE FeedChanges \/ Interrupted
  BY <1>1 DEF FeedChanges, Interrupted, TypeOK, Attended, FreshIsEmpty, ClosedToOffers,
              TableIsListed, InFlight, Shutdown
<1>2. CASE Closes
  BY <1>2 DEF Closes, TypeOK, Attended, FreshIsEmpty, ClosedToOffers, TableIsListed,
              InFlight, Shutdown
<1>3. CASE ClosesNext
  BY <1>3 DEF ClosesNext, TypeOK, Attended, FreshIsEmpty, ClosedToOffers, TableIsListed,
              InFlight, Shutdown
<1>4. CASE CleansNext
  <2> USE <1>4 DEF CleansNext
  <2>1. current \in Peers
    BY DEF TypeOK
  <2>2. TypeOK'
    BY <2>1 DEF TypeOK, Shutdown
  <2>3. Attended'
    BY <2>1 DEF TypeOK, Attended
  <2>4. ClosedToOffers'
    BY DEF ClosedToOffers, InFlight, Shutdown
  <2>5. TableIsListed'
    BY <2>1 DEF TypeOK, TableIsListed
  <2>6. FreshIsEmpty'
    BY <2>1 DEF FreshIsEmpty, TypeOK
  <2> QED
    BY <2>2, <2>3, <2>4, <2>5, <2>6
<1>5. CASE CleanedNext \/ Ends
  BY <1>5 DEF CleanedNext, Ends, TypeOK, Attended, FreshIsEmpty, ClosedToOffers, TableIsListed,
              InFlight, Shutdown
<1> QED
  BY <1>1, <1>2, <1>3, <1>4, <1>5 DEF ServeStep

\* The inductive invariant holds throughout.
THEOREM Inductive == Spec => []IInv
<1>1. Init => IInv
  BY DEF Init, IInv, TypeOK, Attended, FreshIsEmpty, ClosedToOffers, TableIsListed, Shutdown
<1>2. IInv /\ [Next]_vars => IInv'
  <2> SUFFICES ASSUME IInv, [Next]_vars PROVE IInv'
    OBVIOUS
  <2>1. CASE Next
    BY <2>1, OfferStep, PeerOrCleanupStep, SessionStep DEF Next
  <2>2. CASE UNCHANGED vars
    BY <2>2 DEF vars, IInv, TypeOK, Attended, FreshIsEmpty, ClosedToOffers, TableIsListed,
                InFlight
  <2> QED
    BY <2>1, <2>2
<1> QED
  BY <1>1, <1>2, PTL DEF Spec

\* A running pipeline that was not told to stop has its record in the table, and
\* none is left when the session is over.
THEOREM PipelinesAttended == Spec => []NoPipelineUnattended
<1>1. IInv => NoPipelineUnattended
  BY DEF IInv, Attended, TableIsListed, NoPipelineUnattended
<1> QED
  BY <1>1, Inductive, PTL

\* The simulator is closed when no request is under way, the table is empty and
\* every pipeline was told to stop.
THEOREM ClosedLast == Spec => []SimulatorClosedLast
<1>1. IInv => SimulatorClosedLast
  BY DEF IInv, Attended, ClosedToOffers, TableIsListed, SimulatorClosedLast, Shutdown
<1> QED
  BY <1>1, Inductive, PTL
=============================================================================
