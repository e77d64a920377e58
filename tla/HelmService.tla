---------------------------- MODULE HelmService ----------------------------
(***************************************************************************)
(* What a simulator backend promises to the voice agent: the               *)
(* SimulatorClient protocol of voice_agent/backends/simulator/base.py.     *)
(*                                                                         *)
(* Orders are answered once. An order that was answered with a failure     *)
(* does not move the ship afterwards ("a helm order must never be executed *)
(* against a dead link (or, worse, minutes late once it revives)"), an     *)
(* acknowledgment is only given over a link that is up, and a link that is *)
(* off comes up only after somebody connected it.                          *)
(***************************************************************************)
EXTENDS Naturals

CONSTANT Orders   \* set_rudder and set_engine_telegraph calls

VARIABLES
  link,     \* "off": disconnected; "down": connecting or stale; "up": connected
  answer,   \* what the caller of each order was told
  moved     \* the orders the ship has executed

helmVars == <<link, answer, moved>>

\* "unknown" is an error that says nothing about the order, or no answer at all.
Answers == {"none", "waiting", "acked", "failed", "unknown"}

HelmInit ==
  /\ link = "off"
  /\ answer = [c \in Orders |-> "none"]
  /\ moved = {}

\* connect, link loss and recovery, disconnect.
LinkChanges ==
  /\ \/ link' \in {"off", "down"}
     \/ link = "down" /\ link' = "up"
  /\ UNCHANGED <<answer, moved>>

Issue(c) ==
  /\ answer[c] = "none"
  /\ answer' = [answer EXCEPT ![c] = "waiting"]
  /\ UNCHANGED <<link, moved>>

Reply(c, a) ==
  /\ answer[c] = "waiting"
  /\ a = "acked" => link = "up"
  /\ answer' = [answer EXCEPT ![c] = a]
  /\ UNCHANGED <<link, moved>>

\* The ship executes orders, never one whose caller was told it failed.
ShipMoves(S) ==
  /\ \A c \in S : answer[c] \in {"waiting", "acked", "unknown"}
  /\ moved' = moved \cup S
  /\ UNCHANGED <<link, answer>>

HelmNext ==
  \/ LinkChanges
  \/ \E c \in Orders : Issue(c) \/ \E a \in {"acked", "failed", "unknown"} : Reply(c, a)
  \/ \E S \in SUBSET Orders : ShipMoves(S)

HelmSpec == HelmInit /\ [][HelmNext]_helmVars

-----------------------------------------------------------------------------
(* What a backend still promises when its callers may be cancelled: a       *)
(* thread that outlives its caller can keep a session alive past the        *)
(* failure that was reported of it.                                         *)

\* The ship executes orders that were issued, whatever their callers were told.
ShipMovesLate(S) ==
  /\ \A c \in S : answer[c] # "none"
  /\ moved' = moved \cup S
  /\ UNCHANGED <<link, answer>>

LateNext ==
  \/ LinkChanges
  \/ \E c \in Orders : Issue(c) \/ \E a \in {"acked", "failed", "unknown"} : Reply(c, a)
  \/ \E S \in SUBSET Orders : ShipMovesLate(S)

LateSpec == HelmInit /\ [][LateNext]_helmVars
=============================================================================
