-------------------------------- MODULE Turn --------------------------------
(***************************************************************************)
(* One helmsman turn after another in the standing text pipeline           *)
(* (voice_agent/pipeline.py assemble_text_task): typed commands enter the  *)
(* shared LLMContext, LangGraphLLMService answers them, the                *)
(* JsonActionProcessor runs the action against the simulator, the          *)
(* assistant aggregator stores the spoken line and SingleTurnContextReset  *)
(* wipes the context.                                                      *)
(*                                                                         *)
(* Every processor of the pipeline is a task of its own with a queue of    *)
(* frames in front of it; the context is shared by reference, so a run     *)
(* sees the messages that are there when it reads them. The steps of a     *)
(* task between two awaits are one action.                                 *)
(*                                                                         *)
(* What the language model makes of a text, and whether a call it takes    *)
(* fails, is left open. Messages are named by the command they carry, the  *)
(* system prompt (which every wipe keeps) is left out, and the turns are   *)
(* numbered in the order in which the service starts them.                 *)
(***************************************************************************)
EXTENDS Naturals, Sequences

CONSTANTS
  Commands,    \* texts typed into the chatbox, each of them once
  Assistant,   \* an assistant message in the context
  NoText       \* no user message, no envelope

ASSUME MessagesAreDistinct ==
  /\ Assistant \notin Commands
  /\ NoText \notin Commands \cup {Assistant}

VARIABLES
  commandsOnly,  \* llm.mode: commands_only
  typed,         \* commands in the order in which they were injected
  context,       \* messages of the LLMContext after the system prompt
  runs,          \* LLMRunFrames on their way to the LLM service
  llm,           \* where the service is in its turn
  heard,         \* the user text of each turn
  toAction,      \* frames in front of the action processor
  capturing,     \* its _capturing
  parts,         \* its _parts
  acting,        \* the envelope whose simulator call it awaits
  toSpeech,      \* spoken lines in front of the assistant aggregator
  stamps,        \* assistant timestamp frames in front of the context reset
  executed,      \* turns whose order the ship carried out, in that order
  events,        \* what was published, as <<turn, event, action>>
  rows,          \* runtime audit rows, as <<turn, actie>>
  alone          \* commands that had the pipeline to themselves (history)

inputVars == <<commandsOnly, typed, alone>>
llmVars == <<runs, llm, heard, rows>>
actionVars == <<capturing, parts, acting, executed, events>>
tailVars == <<toSpeech, stamps>>
vars == <<inputVars, context, llmVars, toAction, actionVars, tailVars>>

\* What an envelope can ask for: a rudder or telegraph order, a status query, an
\* autopilot or anchor action, a course, an error, a RAG answer, or JSON that
\* the action schema rejects.
Actions == {"order", "status", "unsupported", "course", "error", "answer", "invalid"}

GraphNodes == {"classify", "command", "retrieve", "select", "expand", "answer"}

\* No envelope is mistaken for none.
ASSUME NoTextIsNone == NoText \notin [turn : Nat, action : Actions, blank : BOOLEAN]

Frame(kind, envelope) == [kind |-> kind, envelope |-> envelope]

Envelope(action, blank) == [turn |-> Len(heard), action |-> action, blank |-> blank]

Init ==
  /\ commandsOnly \in BOOLEAN
  /\ typed = <<>>
  /\ context = <<>>
  /\ runs = 0
  /\ llm = "idle"
  /\ heard = <<>>
  /\ toAction = <<>>
  /\ capturing = FALSE
  /\ parts = <<>>
  /\ acting = NoText
  /\ toSpeech = <<>>
  /\ stamps = 0
  /\ executed = <<>>
  /\ events = {}
  /\ rows = {}
  /\ alone = {}

\* Nothing is under way anywhere in the pipeline.
AtRest ==
  /\ runs = 0 /\ llm = "idle" /\ toAction = <<>> /\ acting = NoText
  /\ toSpeech = <<>> /\ stamps = 0

-----------------------------------------------------------------------------
(* The chatbox: POST /api/control/text and build_text_injector.            *)

\* Variant, not in Next: both aggregators handle the message and the run.
InjectTwice(c) ==
  /\ c \notin {typed[n] : n \in DOMAIN typed}
  /\ typed' = Append(typed, c)
  /\ context' = context \o <<c, c>>
  /\ runs' = runs + 2
  /\ alone' = IF AtRest THEN alone \cup {c} ELSE alone \ {typed[Len(typed)]}
  /\ UNCHANGED <<commandsOnly, llm, heard, rows, toAction, actionVars, tailVars>>

\* The typed line is shown, added to the context and a run is queued.
Inject(c) ==
  /\ c \notin {typed[n] : n \in DOMAIN typed}
  /\ typed' = Append(typed, c)
  /\ context' = Append(context, c)
  /\ runs' = runs + 1
  /\ alone' = IF AtRest THEN alone \cup {c} ELSE alone \ {typed[Len(typed)]}
  /\ UNCHANGED <<commandsOnly, llm, heard, rows, toAction, actionVars, tailVars>>

-----------------------------------------------------------------------------
(* LangGraphLLMService and its graph.                                      *)

\* latest_user_text.
LatestUserText ==
  LET users == {i \in DOMAIN context : context[i] \in Commands}
  IN  IF users = {} THEN NoText
                    ELSE context[CHOOSE i \in users : \A j \in users : j <= i]

\* The start frame goes out before the context is looked at.
LlmStarts ==
  /\ llm = "idle"
  /\ runs > 0
  /\ runs' = runs - 1
  /\ llm' = "read"
  /\ toAction' = Append(toAction, Frame("start", NoText))
  /\ UNCHANGED <<inputVars, context, heard, rows, actionVars, tailVars>>

\* The reply and the end frame.
Emits(envelope) ==
  /\ llm' = "idle"
  /\ toAction' = toAction \o <<Frame("text", envelope), Frame("end", NoText)>>

\* Without a user message the helmsman is standing by.
LlmReads ==
  /\ llm = "read"
  /\ heard' = Append(heard, LatestUserText)
  /\ llm' = CASE LatestUserText = NoText -> "standby"
              [] LatestUserText # NoText /\ commandsOnly -> "command"
              [] OTHER -> "classify"
  /\ UNCHANGED <<inputVars, context, runs, rows, toAction, actionVars, tailVars>>

StandsBy ==
  /\ llm = "standby"
  /\ Emits(Envelope("error", FALSE))
  /\ UNCHANGED <<inputVars, context, runs, heard, rows, actionVars, tailVars>>

\* classify, retrieve, select and expand hand the turn on.
GraphMoves ==
  /\ \E hop \in {<<"classify", "command">>, <<"classify", "retrieve">>,
                 <<"retrieve", "select">>, <<"select", "expand">>, <<"expand", "answer">>} :
       llm = hop[1] /\ llm' = hop[2]
  /\ UNCHANGED <<inputVars, context, runs, heard, rows, toAction, actionVars, tailVars>>

\* An audit row is written if that works.
Audits(actie) == rows' = rows \/ rows' = rows \cup {<<Len(heard), actie>>}

\* command_envelope: whatever the model says becomes a readable envelope, but
\* the fields of the action, and a blank line to speak, are passed on unseen.
CommandParsed ==
  /\ llm = "command"
  /\ \E action \in Actions, blank \in BOOLEAN : Emits(Envelope(action, blank))
  /\ Audits("command_runtime")
  /\ UNCHANGED <<inputVars, context, runs, heard, actionVars, tailVars>>

\* The answer with its source line is never blank.
QuestionAnswered ==
  /\ llm = "answer"
  /\ Emits(Envelope("answer", FALSE))
  /\ Audits("question_runtime")
  /\ UNCHANGED <<inputVars, context, runs, heard, actionVars, tailVars>>

\* Variant, not in Next: a failing graph ends the turn without a reply.
GraphFailsSilently ==
  /\ llm \in GraphNodes
  /\ llm' = "idle"
  /\ Audits("llm_error_runtime")
  /\ UNCHANGED <<inputVars, context, runs, heard, toAction, actionVars, tailVars>>

\* Any exception of any node is answered with an error envelope.
GraphFails ==
  /\ llm \in GraphNodes
  /\ Emits(Envelope("error", FALSE))
  /\ Audits("llm_error_runtime")
  /\ UNCHANGED <<inputVars, context, runs, heard, actionVars, tailVars>>

LlmStep ==
  \/ LlmStarts \/ LlmReads \/ StandsBy \/ GraphMoves \/ CommandParsed
  \/ QuestionAnswered \/ GraphFails

-----------------------------------------------------------------------------
(* JsonActionProcessor and dispatch_action.                                *)

\* dispatch_action calls the simulator for these.
NeedsSimulator == {"order", "status"}

\* DispatchResult.ok of an action that needs no simulator: a course is not steered.
CarriedOut(envelope) == envelope.action # "course"

\* Variant, not in Next: speak whatever the model said.
SpokenAsIs(envelope, ok) ==
  CASE envelope.action = "invalid" -> "say again"
    [] ~ok -> IF envelope.action = "course" THEN "cannot steer a course" ELSE "lost contact"
    [] OTHER -> IF envelope.blank /\ envelope.action # "status" THEN "" ELSE "reply"

\* The line to speak. A blank one of the model's is replaced; a status query has
\* its reading appended.
Spoken(envelope, ok) ==
  CASE envelope.action = "invalid" -> "say again"
    [] ~ok -> IF envelope.action = "course" THEN "cannot steer a course" ELSE "lost contact"
    [] OTHER -> IF envelope.blank /\ envelope.action # "status" THEN "say again" ELSE "reply"

\* Variant, not in Next: every recognised action is recorded as dispatched.
TurnEventsOptimistic(envelope, ok) ==
  {"reply"} \cup
  CASE envelope.action \in {"invalid", "answer"} -> {}
    [] envelope.action = "error" -> {"refused"}
    [] envelope.action \in NeedsSimulator -> {"dispatched", "shipState"}
    [] OTHER -> {"dispatched"}

\* _publish_turn_events, and _publish_reply alone for what did not parse.
TurnEvents(envelope, ok) ==
  {"reply"} \cup
  CASE envelope.action \in {"invalid", "answer"} -> {}
    [] envelope.action = "error" \/ ~ok -> {"refused"}
    [] envelope.action \in NeedsSimulator /\ ok -> {"dispatched", "shipState"}
    [] OTHER -> {"dispatched"}

\* The turn is published and its spoken line goes down the pipeline.
Resolves(envelope, ok) ==
  /\ events' = events \cup
       {<<envelope.turn, kind, envelope.action>> : kind \in TurnEvents(envelope, ok)}
  /\ toSpeech' = Append(toSpeech, Spoken(envelope, ok))

Receives(kind) ==
  /\ acting = NoText
  /\ toAction # <<>>
  /\ Head(toAction).kind = kind
  /\ toAction' = Tail(toAction)

ActStart ==
  /\ Receives("start")
  /\ parts' = <<>>
  /\ capturing' = TRUE
  /\ UNCHANGED <<inputVars, context, llmVars, acting, executed, events, tailVars>>

\* The text is swallowed while capturing.
ActText ==
  /\ Receives("text")
  /\ capturing
  /\ parts' = Append(parts, Head(toAction).envelope)
  /\ UNCHANGED <<inputVars, context, llmVars, capturing, acting, executed, events, tailVars>>

\* Orders and status queries await the simulator, the rest is resolved at once.
\* The graph's reply is one text frame, so there is one part.
ActEnd ==
  /\ Receives("end")
  /\ capturing
  /\ capturing' = FALSE
  /\ parts' = <<>>
  /\ IF parts[1].action \in NeedsSimulator
       THEN acting' = parts[1] /\ UNCHANGED <<events, toSpeech>>
       ELSE Resolves(parts[1], CarriedOut(parts[1])) /\ UNCHANGED acting
  /\ UNCHANGED <<inputVars, context, llmVars, executed, stamps>>

\* The simulator answers or raises a SimulatorError. An order it acknowledges is
\* carried out; one it raises on may have been (HelmService: "unknown").
ActSimulator ==
  /\ acting # NoText
  /\ acting' = NoText
  /\ \E ok \in BOOLEAN :
       /\ Resolves(acting, ok)
       /\ \/ acting.action = "order" /\ executed' = Append(executed, acting.turn)
          \/ (acting.action = "status" \/ ~ok) /\ UNCHANGED executed
  /\ UNCHANGED <<inputVars, context, llmVars, toAction, capturing, parts, stamps>>

ActStep == ActStart \/ ActText \/ ActEnd \/ ActSimulator

-----------------------------------------------------------------------------
(* The tail of the pipeline.                                               *)

\* The assistant aggregator (external) stores a line it was given and sends a
\* timestamp after it; nothing is stored, and nothing sent, for an empty line.
Aggregates ==
  /\ toSpeech # <<>>
  /\ toSpeech' = Tail(toSpeech)
  /\ IF Head(toSpeech) = "" THEN UNCHANGED <<context, stamps>>
       ELSE context' = Append(context, Assistant) /\ stamps' = stamps + 1
  /\ UNCHANGED <<inputVars, llmVars, toAction, actionVars>>

\* Variant, not in Next: wipe on whatever frame comes by.
ResetsAnytime ==
  /\ context' = <<>>
  /\ stamps' = stamps - 1
  /\ UNCHANGED <<inputVars, llmVars, toAction, actionVars, toSpeech>>

\* Variant, not in Next: wipe down to the first message typed.
ResetsToFirst ==
  /\ stamps > 0
  /\ stamps' = stamps - 1
  /\ context' = SubSeq(context, 1, IF context = <<>> THEN 0 ELSE 1)
  /\ UNCHANGED <<inputVars, llmVars, toAction, actionVars, toSpeech>>

\* SingleTurnContextReset: a wipe back to the system prompt.
Resets ==
  /\ stamps > 0
  /\ stamps' = stamps - 1
  /\ context' = <<>>
  /\ UNCHANGED <<inputVars, llmVars, toAction, actionVars, toSpeech>>

-----------------------------------------------------------------------------
Next ==
  \/ \E c \in Commands : Inject(c)
  \/ LlmStep
  \/ ActStep
  \/ Aggregates
  \/ Resets

Spec == Init /\ [][Next]_vars

\* Every processor takes the next frame of its queue, and the calls to the model,
\* to Qdrant and to the simulator end (they have timeouts). What is typed, and
\* when, is left open.
FairSpec ==
  Spec /\ WF_vars(LlmStep) /\ WF_vars(ActStep) /\ WF_vars(Aggregates) /\ WF_vars(Resets)

-----------------------------------------------------------------------------
(* Safety.                                                                 *)

Lines == {"say again", "cannot steer a course", "lost contact", "reply"}

Envelopes == [turn : DOMAIN heard, action : Actions, blank : BOOLEAN]

Frames ==
  [kind : {"start", "end"}, envelope : {NoText}] \cup [kind : {"text"}, envelope : Envelopes]

\* Every variable has its type: messages, frames, envelopes and histories.
TypeOK ==
  /\ commandsOnly \in BOOLEAN
  /\ typed \in Seq(Commands)
  /\ context \in Seq(Commands \cup {Assistant})
  /\ runs \in Nat
  /\ llm \in {"idle", "read", "standby"} \cup GraphNodes
  /\ heard \in Seq(Commands \cup {NoText})
  /\ toAction \in Seq(Frames)
  /\ capturing \in BOOLEAN
  /\ parts \in Seq(Envelopes)
  /\ acting \in Envelopes \cup {NoText}
  /\ toSpeech \in Seq(Lines)
  /\ stamps \in Nat
  /\ executed \in Seq(DOMAIN heard)
  /\ events \subseteq (DOMAIN heard) \X {"reply", "refused", "dispatched", "shipState"} \X Actions
  /\ rows \subseteq (DOMAIN heard) \X {"command_runtime", "question_runtime", "llm_error_runtime"}
  /\ alone \subseteq Commands

\* Once nothing is under way no message is left in the context, whatever turns
\* overlapped and failed before: the next command is judged on its own
\* (SingleTurnContextReset).
NoHistoryAtRest == AtRest => context = <<>>

\* A command that has the pipeline to itself is the one that its turn works on,
\* and every command gets at most one turn.
SpacedCommandHeard ==
  \A n \in DOMAIN heard : n <= Len(typed) /\ (typed[n] \in alone => heard[n] = typed[n])

\* The ship carries out typed commands only, no turn's order twice, and never an
\* older one after a newer one, however the turns overlap: latest_user_text and
\* the wipes only move forward.
OrdersInSequence ==
  \A i, j \in DOMAIN executed :
    /\ i < j => executed[i] < executed[j]
    /\ i <= j => \E m, n \in DOMAIN typed :
         m <= n /\ heard[executed[i]] = typed[m] /\ heard[executed[j]] = typed[n]

\* An order on record as dispatched was carried out by the ship (processor.py:
\* an order recorded as executed that never reached the ship would mislead an
\* incident reviewer).
DispatchedWasExecuted ==
  \A e \in events : e[2] = "dispatched" /\ e[3] = "order" =>
    \E i \in DOMAIN executed : executed[i] = e[1]

\* What pipeline.py says of the single-turn mode: the LLM only ever sees the
\* current input, so every turn works on the command that asked for it.
EachCommandHeard == \A n \in DOMAIN heard : heard[n] = typed[n]

-----------------------------------------------------------------------------
(* Liveness.                                                               *)

\* Every typed command is followed by a spoken line of its turn, whatever fails.
CommandAnswered ==
  \A c \in Commands :
    (\E n \in DOMAIN typed : typed[n] = c) ~>
      (\E n \in DOMAIN typed : typed[n] = c /\ \E e \in events : e[1] = n /\ e[2] = "reply")
=============================================================================
