------------------------------- MODULE Voice --------------------------------
(***************************************************************************)
(* The life of the voice pipelines: a browser's offer starts one           *)
(* (voice_agent/api/webrtc.py WebRTCManager, pipeline.py assemble_task),   *)
(* its disconnect ends it, and the end of the session ends them all in the *)
(* order of main._serve: telemetry, the API server with its lifespan       *)
(* handler, the simulator.                                                 *)
(*                                                                         *)
(* What a call does between two awaits is one action. A pipeline that was  *)
(* told to cancel ends by itself; what the peer connection, the pipeline   *)
(* runner and uvicorn do is modelled as far as this code relies on it.     *)
(***************************************************************************)
CONSTANTS
  Peers,      \* browser connections, each with a pc_id of its own
  NoPeer

ASSUME NoPeerIsNone == NoPeer \notin Peers

VARIABLES
  stage,    \* where main._serve is
  feed,     \* a /ws/events call waits for the next event
  offer,    \* where the handle_offer of a peer is
  peer,     \* the peer connection: "none", "open", "gone"
  table,    \* _connections: "none", "bare" (no tasks yet) or "wired"
  pipe,     \* its pipeline: "none", "running", "told" to cancel, "ended"
  heard,    \* peers whose on_client_disconnected has fired
  cleanup,  \* peers whose _cleanup awaits pipeline_task.cancel()
  todo,     \* pc_ids that close() has yet to go through
  current   \* the one it is at

vars == <<stage, feed, offer, peer, table, pipe, heard, cleanup, todo, current>>

Init ==
  /\ stage = "serving"
  /\ feed = FALSE
  /\ offer = [p \in Peers |-> "none"]
  /\ peer = [p \in Peers |-> "none"]
  /\ table = [p \in Peers |-> "none"]
  /\ pipe = [p \in Peers |-> "none"]
  /\ heard = {} /\ cleanup = {}
  /\ todo = {} /\ current = NoPeer

-----------------------------------------------------------------------------
(* handle_offer.                                                           *)

\* A new connection: its initialize is awaited.
OfferArrives(p) ==
  /\ stage = "serving"
  /\ offer[p] = "none"
  /\ offer' = [offer EXCEPT ![p] = "initializing"]
  /\ UNCHANGED <<stage, feed, peer, table, pipe, heard, cleanup, todo, current>>

\* initialize raises: nothing was registered.
InitializeFails(p) ==
  /\ offer[p] = "initializing"
  /\ offer' = [offer EXCEPT ![p] = "done"]
  /\ UNCHANGED <<stage, feed, peer, table, pipe, heard, cleanup, todo, current>>

\* Variant, not in Next: the pipeline is started for a connection nobody knows of.
StartsUnregistered(p) ==
  /\ offer[p] = "initializing"
  /\ offer' = [offer EXCEPT ![p] = "done"]
  /\ peer' = [peer EXCEPT ![p] = "open"]
  /\ pipe' = [pipe EXCEPT ![p] = "running"]
  /\ UNCHANGED <<stage, feed, table, heard, cleanup, todo, current>>

\* The record is registered and _start_pipeline wires it, without an await;
\* assemble_task may raise, which leaves the record without its tasks.
Starts(p) ==
  /\ offer[p] = "initializing"
  /\ offer' = [offer EXCEPT ![p] = "done"]
  /\ peer' = [peer EXCEPT ![p] = "open"]
  /\ \/ table' = [table EXCEPT ![p] = "wired"] /\ pipe' = [pipe EXCEPT ![p] = "running"]
     \/ table' = [table EXCEPT ![p] = "bare"] /\ UNCHANGED pipe
  /\ UNCHANGED <<stage, feed, heard, cleanup, todo, current>>

\* An offer for a pc_id that is in the table awaits renegotiate, and is answered
\* whatever became of the record meanwhile.
Renegotiates(p) ==
  /\ \/ stage = "serving" /\ offer[p] = "done" /\ table[p] # "none"
        /\ offer' = [offer EXCEPT ![p] = "renegotiating"]
     \/ offer[p] = "renegotiating" /\ offer' = [offer EXCEPT ![p] = "done"]
  /\ UNCHANGED <<stage, feed, peer, table, pipe, heard, cleanup, todo, current>>

-----------------------------------------------------------------------------
(* Peers, pipelines, _cleanup.                                             *)

PeerLeaves(p) ==
  /\ peer[p] = "open"
  /\ peer' = [peer EXCEPT ![p] = "gone"]
  /\ UNCHANGED <<stage, feed, offer, table, pipe, heard, cleanup, todo, current>>

\* The runner returns: the pipeline was cancelled, or failed, which is logged.
\* The record stays.
PipelineEnds(p) ==
  /\ pipe[p] \in {"running", "told"}
  /\ pipe' = [pipe EXCEPT ![p] = "ended"]
  /\ UNCHANGED <<stage, feed, offer, peer, table, heard, cleanup, todo, current>>

\* _cleanup up to its first await: the one who pops the record cancels.
CleanupBegins(p) ==
  /\ table' = [table EXCEPT ![p] = "none"]
  /\ IF table[p] = "wired"
     THEN /\ pipe' = [pipe EXCEPT ![p] = IF @ = "running" THEN "told" ELSE @]
          /\ cleanup' = cleanup \cup {p}
     ELSE UNCHANGED <<pipe, cleanup>>

\* Variant, not in Next: only a peer whose offer was answered is cleaned up.
DisconnectIgnored(p) ==
  /\ peer[p] = "gone" /\ p \notin heard
  /\ heard' = heard \cup {p}
  /\ IF offer[p] = "renegotiating" THEN UNCHANGED <<table, pipe, cleanup>> ELSE CleanupBegins(p)
  /\ UNCHANGED <<stage, feed, offer, peer, todo, current>>

\* on_client_disconnected.
DisconnectHeard(p) ==
  /\ peer[p] = "gone" /\ p \notin heard
  /\ heard' = heard \cup {p}
  /\ CleanupBegins(p)
  /\ UNCHANGED <<stage, feed, offer, peer, todo, current>>

\* The cancel() is through and the runner's task is cancelled.
CleanupEnds(p) ==
  /\ p \in cleanup
  /\ cleanup' = cleanup \ {p}
  /\ pipe' = [pipe EXCEPT ![p] = "ended"]
  /\ UNCHANGED <<stage, feed, offer, peer, table, heard, todo, current>>

-----------------------------------------------------------------------------
(* The end of the session.                                                 *)

\* A dashboard connects, or is told of a change and found to be gone.
FeedChanges ==
  /\ stage \in {"serving", "stopping"}
  /\ stage = "stopping" => feed
  /\ feed' = ~feed
  /\ UNCHANGED <<stage, offer, peer, table, pipe, heard, cleanup, todo, current>>

\* SIGINT: the text pipeline ends, telemetry is cancelled, api.stop sets
\* should_exit. uvicorn takes no more requests.
Interrupted ==
  /\ stage = "serving"
  /\ stage' = "stopping"
  /\ UNCHANGED <<feed, offer, peer, table, pipe, heard, cleanup, todo, current>>

InFlight == {p \in Peers : offer[p] \in {"initializing", "renegotiating"}}

\* Variant, not in Next: the requests under way are not waited for.
ClosesAtOnce ==
  /\ stage = "stopping"
  /\ stage' = "closing"
  /\ todo' = {p \in Peers : table[p] # "none"}
  /\ UNCHANGED <<feed, offer, peer, table, pipe, heard, cleanup, current>>

\* Variant, not in Next: the pipelines are waited for too.
ClosesWhenQuiet ==
  /\ stage = "stopping"
  /\ InFlight = {} /\ ~feed
  /\ \A p \in Peers : pipe[p] \in {"none", "ended"}
  /\ stage' = "closing"
  /\ todo' = {p \in Peers : table[p] # "none"}
  /\ UNCHANGED <<feed, offer, peer, table, pipe, heard, cleanup, current>>

\* uvicorn runs the lifespan handler when every request and websocket call is
\* over: the http clients are closed and close() takes its list.
Closes ==
  /\ stage = "stopping"
  /\ InFlight = {} /\ ~feed
  /\ stage' = "closing"
  /\ todo' = {p \in Peers : table[p] # "none"}
  /\ UNCHANGED <<feed, offer, peer, table, pipe, heard, cleanup, current>>

\* close: the connection is told to disconnect, if it is still there; that may
\* raise.
ClosesNext ==
  /\ stage = "closing" /\ current = NoPeer
  /\ \E p \in todo :
       /\ todo' = todo \ {p}
       /\ current' = p
       /\ \/ UNCHANGED peer
          \/ table[p] # "none" /\ peer' = [peer EXCEPT ![p] = "gone"]
  /\ UNCHANGED <<stage, feed, offer, table, pipe, heard, cleanup>>

\* Then, also if that failed, it is cleaned up, unless its own event was faster.
CleansNext ==
  /\ stage = "closing" /\ current # NoPeer
  /\ CleanupBegins(current)
  /\ stage' = IF table[current] = "wired" THEN "awaiting" ELSE "closing"
  /\ current' = IF table[current] = "wired" THEN current ELSE NoPeer
  /\ UNCHANGED <<feed, offer, peer, heard, todo>>

CleanedNext ==
  /\ stage = "awaiting" /\ current \notin cleanup
  /\ stage' = "closing"
  /\ current' = NoPeer
  /\ UNCHANGED <<feed, offer, peer, table, pipe, heard, cleanup, todo>>

\* api.stop returns, simulator.close, the session is over.
Ends ==
  /\ stage = "closing" /\ current = NoPeer /\ todo = {}
  /\ stage' = "ended"
  /\ UNCHANGED <<feed, offer, peer, table, pipe, heard, cleanup, todo, current>>

PeerStep(p) ==
  \/ InitializeFails(p) \/ Starts(p) \/ (offer[p] = "renegotiating" /\ Renegotiates(p))

ServeStep == Closes \/ ClosesNext \/ CleansNext \/ CleanedNext \/ Ends

Next ==
  \/ \E p \in Peers :
       \/ OfferArrives(p) \/ InitializeFails(p) \/ Starts(p) \/ Renegotiates(p)
       \/ PeerLeaves(p) \/ PipelineEnds(p) \/ DisconnectHeard(p) \/ CleanupEnds(p)
  \/ FeedChanges \/ Interrupted \/ ServeStep

Spec == Init /\ [][Next]_vars

\* The loop goes on with every call that can, a lost peer is noticed, and what is
\* cancelled ends. Offers, disconnects, the interrupt and events come as they
\* please; a pipeline need not fail.
Fairness ==
  /\ \A p \in Peers : /\ WF_vars(PeerStep(p))
                      /\ WF_vars(DisconnectHeard(p))
                      /\ WF_vars(CleanupEnds(p))
  /\ WF_vars(ServeStep)

FairSpec == Spec /\ Fairness

-----------------------------------------------------------------------------
(* Properties.                                                             *)

\* A pipeline that runs and was not told to stop has its record in the table,
\* where the disconnect of its peer and the end of the session look for it,
\* whatever offer, renegotiation, disconnect and close do to each other
\* (handle_offer, _start_pipeline, _cleanup, close).
NoPipelineUnattended ==
  \A p \in Peers : pipe[p] = "running" => table[p] = "wired" /\ stage # "ended"

\* When the simulator is closed no request is under way, the table is empty and
\* every pipeline was told to stop: no order is given to a closed link by a
\* pipeline that does not know (main._serve, the lifespan handler, close).
SimulatorClosedLast ==
  stage = "ended" =>
    /\ InFlight = {}
    /\ \A p \in Peers : table[p] = "none" /\ pipe[p] # "running"

\* The pipeline of a peer that is gone ends, and so does its record, the one
\* without a pipeline too (on_client_disconnected, _cleanup).
PipelineFollowsPeer ==
  \A p \in Peers :
    (peer[p] = "gone") ~> (table[p] = "none" /\ pipe[p] \in {"none", "ended"})

\* An interrupt ends the session, unless a dashboard is connected that no event
\* is published for: its websocket call waits on its queue only, and uvicorn for
\* the call (main._serve, ApiServer.stop, ws_events).
InterruptEnds == (stage = "stopping") ~> (stage = "ended" \/ feed)

=============================================================================
