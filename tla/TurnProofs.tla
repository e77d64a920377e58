----------------------------- MODULE TurnProofs -----------------------------
(***************************************************************************)
(* Proofs about Turn, for any number of typed commands.                    *)
(*                                                                         *)
(* The properties rest on three things the code never writes down. Frames  *)
(* reach the action processor in the order start, text, end, whatever is   *)
(* queued up (FrameOrder), so that a turn that was started is always       *)
(* followed to its spoken line. Every run belongs to one typed command     *)
(* (Counted). And the newest user message of the context is the command    *)
(* typed last, or there is none (LatestIsLast): a wipe takes all messages, *)
(* so that no older one can come back.                                     *)
(***************************************************************************)
EXTENDS Turn, SequenceTheorems, TLAPS

USE MessagesAreDistinct, NoTextIsNone

\* The frames that carry a reply.
Replies == {i \in DOMAIN toAction : toAction[i].kind = "text"}

\* The replies the action processor has taken from its queue.
Held == {parts[i] : i \in DOMAIN parts} \cup ({acting} \ {NoText})

\* What comes after a frame.
Follows(kind) == IF kind = "start" THEN "text" ELSE IF kind = "text" THEN "end" ELSE "start"

\* The frame the action processor has to be given next.
Expected == IF ~capturing THEN "start" ELSE IF parts = <<>> THEN "text" ELSE "end"

\* Start, text, end: the queue goes on where the processor is, and ends where the
\* service is.
FrameOrder ==
  /\ toAction # <<>> => toAction[1].kind = Expected
  /\ \A i, j \in DOMAIN toAction : j = i + 1 => toAction[j].kind = Follows(toAction[i].kind)
  /\ (IF toAction = <<>> THEN Expected ELSE Follows(toAction[Len(toAction)].kind))
       = IF llm = "idle" THEN "start" ELSE "text"

\* A reply is held in one place.
HeldOnce ==
  /\ Len(parts) <= 1
  /\ ~capturing => parts = <<>>
  /\ acting # NoText => ~capturing

\* Every command has one run: queued, started or read.
Counted == Len(typed) = Len(heard) + runs + IF llm = "read" THEN 1 ELSE 0

\* The newest user message in the context is the command typed last.
LatestIsLast ==
  \/ \A i \in DOMAIN context : context[i] \notin Commands
  \/ /\ typed # <<>>
     /\ \E i \in DOMAIN context :
          /\ context[i] = typed[Len(typed)]
          /\ \A j \in DOMAIN context : j > i => context[j] \notin Commands

\* Turns work on typed commands, in the order in which these were typed.
HeardInOrder ==
  \A m, n \in DOMAIN heard : m <= n /\ heard[m] # NoText /\ heard[n] # NoText =>
    \E a, b \in DOMAIN typed : a <= b /\ heard[m] = typed[a] /\ heard[n] = typed[b]

\* The graph runs for a turn that has a text; a standby turn was read as well.
GraphHasText ==
  /\ llm \notin {"idle", "read"} => heard # <<>>
  /\ llm \in GraphNodes => heard[Len(heard)] # NoText

\* Replies are produced, held and carried out turn by turn.
TurnsInOrder ==
  /\ \A i, j \in DOMAIN executed : i < j => executed[i] < executed[j]
  /\ \A i \in DOMAIN executed : \A e \in Held : executed[i] < e.turn
  /\ \A i \in DOMAIN executed : \A j \in Replies : executed[i] < toAction[j].envelope.turn
  /\ \A e \in Held : \A j \in Replies : e.turn < toAction[j].envelope.turn
  /\ \A i, j \in Replies : i < j => toAction[i].envelope.turn < toAction[j].envelope.turn

\* The turn the service is at has no reply yet.
TurnIsNew ==
  llm \notin {"idle", "read"} =>
    /\ \A i \in DOMAIN executed : executed[i] < Len(heard)
    /\ \A e \in Held : e.turn < Len(heard)
    /\ \A j \in Replies : toAction[j].envelope.turn < Len(heard)

\* An order answers a turn that had a text.
OrdersHaveText ==
  /\ \A i \in DOMAIN executed : heard[executed[i]] # NoText
  /\ \A e \in Held : e.action = "order" => heard[e.turn] # NoText
  /\ \A j \in Replies : toAction[j].envelope.action = "order" =>
       heard[toAction[j].envelope.turn] # NoText

\* Nothing but the start of the turn of command c has happened since it was typed.
Quiet(c) ==
  /\ context = <<c>>
  /\ llm \in {"idle", "read"}
  /\ \A i \in DOMAIN toAction : toAction[i].kind = "start"
  /\ parts = <<>> /\ acting = NoText /\ toSpeech = <<>> /\ stamps = 0

\* A command that has the pipeline to itself was read, or is the next to be.
AloneIsQuiet ==
  /\ alone \subseteq {typed[n] : n \in DOMAIN typed}
  /\ \A n \in DOMAIN typed : typed[n] \in alone =>
       n <= Len(heard) \/ (n = Len(typed) /\ n = Len(heard) + 1 /\ Quiet(typed[n]))

IInv ==
  /\ TypeOK /\ FrameOrder /\ HeldOnce /\ Counted
  /\ NoHistoryAtRest /\ LatestIsLast /\ HeardInOrder /\ GraphHasText
  /\ TurnsInOrder /\ TurnIsNew /\ OrdersHaveText
  /\ AloneIsQuiet /\ SpacedCommandHeard /\ DispatchedWasExecuted

-----------------------------------------------------------------------------
(* Sequences.                                                              *)

\* A frame added to a queue.
LEMMA Appended ==
  ASSUME NEW S, NEW s \in Seq(S), NEW x \in S
  PROVE  /\ Append(s, x) \in Seq(S) /\ Append(s, x) # <<>>
         /\ Len(Append(s, x)) = Len(s) + 1
         /\ DOMAIN Append(s, x) = 1 .. Len(s) + 1 /\ DOMAIN s = 1 .. Len(s)
         /\ \A i \in 1 .. Len(s) : Append(s, x)[i] = s[i]
         /\ Append(s, x)[Len(s) + 1] = x
OBVIOUS

\* The head taken off a queue.
LEMMA Taken ==
  ASSUME NEW S, NEW s \in Seq(S), s # <<>>
  PROVE  /\ Head(s) = s[1] /\ Head(s) \in S
         /\ Tail(s) \in Seq(S)
         /\ Len(s) > 0 /\ Len(Tail(s)) = Len(s) - 1
         /\ DOMAIN Tail(s) = 1 .. Len(s) - 1 /\ DOMAIN s = 1 .. Len(s)
         /\ \A i \in 1 .. Len(s) - 1 : Tail(s)[i] = s[i + 1]
OBVIOUS

\* Two frames added at once.
LEMMA AppendedTwo ==
  ASSUME NEW S, NEW s \in Seq(S), NEW x \in S, NEW y \in S
  PROVE  /\ s \o <<x, y>> \in Seq(S) /\ s \o <<x, y>> # <<>>
         /\ Len(s \o <<x, y>>) = Len(s) + 2
         /\ DOMAIN (s \o <<x, y>>) = 1 .. Len(s) + 2 /\ DOMAIN s = 1 .. Len(s)
         /\ \A i \in 1 .. Len(s) : (s \o <<x, y>>)[i] = s[i]
         /\ (s \o <<x, y>>)[Len(s) + 1] = x
         /\ (s \o <<x, y>>)[Len(s) + 2] = y
OBVIOUS

\* The newest user message, where the invariant finds it.
LEMMA LatestUser ==
  ASSUME TypeOK, LatestIsLast
  PROVE  /\ LatestUserText \in Commands \cup {NoText}
         /\ LatestUserText # NoText => typed # <<>> /\ LatestUserText = typed[Len(typed)]
<1> USE DEF LatestUserText, TypeOK
<1>1. CASE \A i \in DOMAIN context : context[i] \notin Commands
  BY <1>1
<1>2. CASE /\ typed # <<>>
           /\ \E i \in DOMAIN context :
                /\ context[i] = typed[Len(typed)]
                /\ \A j \in DOMAIN context : j > i => context[j] \notin Commands
  <2> DEFINE users == {i \in DOMAIN context : context[i] \in Commands}
  <2>1. PICK i \in DOMAIN context :
          /\ context[i] = typed[Len(typed)]
          /\ \A j \in DOMAIN context : j > i => context[j] \notin Commands
    BY <1>2
  <2>2. i \in users /\ \A j \in users : j \in Nat /\ i \in Nat /\ j <= i
    BY <1>2, <2>1
  <2>3. (CHOOSE k \in users : \A j \in users : j <= k) = i
    BY <2>2
  <2> QED
    BY <1>2, <2>1, <2>2, <2>3
<1> QED
  BY <1>1, <1>2 DEF LatestIsLast

-----------------------------------------------------------------------------
(* Steps.                                                                  *)

\* The parts of the invariant that are about frames, replies and orders only.
FramesInv ==
  FrameOrder /\ HeldOnce /\ GraphHasText /\ TurnsInOrder /\ TurnIsNew /\ OrdersHaveText
    /\ DispatchedWasExecuted

\* They stay when nothing they are about changes.
LEMMA FramesStay ==
  ASSUME FramesInv, UNCHANGED <<llm, heard, toAction, capturing, parts, acting, executed, events>>
  PROVE  FramesInv'
<1> USE DEF Replies, Held, Expected, Follows
<1>1. FrameOrder'
  <2>1. Expected' = Expected
    OBVIOUS
  <2> QED
    BY <2>1 DEF FramesInv, FrameOrder
<1>2. HeldOnce' /\ GraphHasText' /\ DispatchedWasExecuted'
  BY DEF FramesInv, HeldOnce, GraphHasText, DispatchedWasExecuted
<1>3. TurnsInOrder' /\ TurnIsNew' /\ OrdersHaveText'
  BY DEF FramesInv, TurnsInOrder, TurnIsNew, OrdersHaveText
<1> QED
  BY <1>1, <1>2, <1>3 DEF FramesInv

\* A command is typed: it becomes the newest message.
LEMMA InjectStep ==
  ASSUME IInv, NEW c \in Commands, Inject(c)
  PROVE  IInv'
<1> USE DEF IInv, Inject
<1>0. /\ typed \in Seq(Commands) /\ context \in Seq(Commands \cup {Assistant})
      /\ heard \in Seq(Commands \cup {NoText}) /\ runs \in Nat /\ alone \subseteq Commands
      /\ stamps \in Nat
  BY DEF TypeOK
<1>1. FramesInv'
  BY FramesStay DEF FramesInv, actionVars
<1>2. /\ typed' \in Seq(Commands) /\ context' \in Seq(Commands \cup {Assistant})
      /\ Len(typed') = Len(typed) + 1 /\ Len(context') = Len(context) + 1
      /\ DOMAIN typed' = 1 .. Len(typed) + 1 /\ DOMAIN typed = 1 .. Len(typed)
      /\ \A i \in 1 .. Len(typed) : typed'[i] = typed[i]
      /\ typed'[Len(typed) + 1] = c
      /\ DOMAIN context' = 1 .. Len(context) + 1
      /\ context'[Len(context) + 1] = c
  BY <1>0, Appended
<1>3. TypeOK'
  <2>1. alone' \subseteq Commands
    BY <1>0, <1>2
  <2>2. capturing' \in BOOLEAN /\ commandsOnly' \in BOOLEAN
    BY DEF TypeOK, actionVars
  <2> QED
    BY <1>0, <1>2, <2>1, <2>2 DEF TypeOK, Envelopes, Frames, actionVars, tailVars
<1>4. Counted'
  BY <1>0, <1>2 DEF Counted
<1>5. NoHistoryAtRest'
  BY <1>0 DEF NoHistoryAtRest, AtRest
<1>6. LatestIsLast'
  BY <1>0, <1>2 DEF LatestIsLast
<1>7. HeardInOrder'
  <2> SUFFICES ASSUME NEW m \in DOMAIN heard, NEW n \in DOMAIN heard,
                      m <= n, heard[m] # NoText, heard[n] # NoText
               PROVE  \E a, b \in DOMAIN typed' :
                        a <= b /\ heard[m] = typed'[a] /\ heard[n] = typed'[b]
    BY DEF HeardInOrder
  <2>1. PICK a \in DOMAIN typed, b \in DOMAIN typed :
          a <= b /\ heard[m] = typed[a] /\ heard[n] = typed[b]
    BY DEF HeardInOrder
  <2> QED
    BY <1>2, <2>1
<1>8. /\ \A n \in DOMAIN typed : typed[n] # c
      /\ c \notin alone
  BY DEF AloneIsQuiet
<1>9. SpacedCommandHeard'
  <2> SUFFICES ASSUME NEW n \in DOMAIN heard
               PROVE  n <= Len(typed') /\ (typed'[n] \in alone' => heard[n] = typed'[n])
    BY DEF SpacedCommandHeard
  <2>1. n \in 1 .. Len(typed) /\ (typed[n] \in alone => heard[n] = typed[n])
    BY <1>0 DEF SpacedCommandHeard
  <2>2. typed'[n] \in alone' => typed[n] \in alone
    BY <1>2, <1>8, <2>1
  <2> QED
    BY <1>0, <1>2, <2>1, <2>2
<1>10. AloneIsQuiet'
  <2>1. alone' \subseteq {typed'[n] : n \in DOMAIN typed'}
    <3>1. \A a \in alone' : a = c \/ \E n \in DOMAIN typed : a = typed[n]
      BY DEF AloneIsQuiet
    <3> QED
      BY <1>0, <1>2, <3>1, SMTT(60)
  <2>2. ASSUME NEW n \in DOMAIN typed', typed'[n] \in alone'
        PROVE  \/ n <= Len(heard')
               \/ n = Len(typed') /\ n = Len(heard') + 1 /\ Quiet(typed[n])'
    <3>1. CASE AtRest
      <4>1. Len(typed) = Len(heard)
        BY <1>0, <3>1 DEF Counted, AtRest
      <4>2. parts = <<>> /\ context = <<>>
        BY <3>1 DEF AtRest, FrameOrder, HeldOnce, Expected, NoHistoryAtRest
      <4>3. CASE n \in 1 .. Len(typed)
        BY <4>1, <4>3
      <4>4. CASE n = Len(typed')
        <5>1. context' = <<c>> /\ typed'[n] = c
          BY <1>2, <4>2, <4>4
        <5> QED
          BY <1>0, <1>2, <3>1, <4>1, <4>2, <4>4, <5>1 DEF AtRest, Quiet, actionVars, tailVars
      <4> QED
        BY <1>0, <1>2, <4>3, <4>4
    <3>2. CASE ~AtRest
      <4>1. n \in 1 .. Len(typed) /\ typed'[n] = typed[n] /\ typed[n] \in alone
            /\ typed[n] # typed[Len(typed)]
        BY <1>0, <1>2, <1>8, <2>2, <3>2
      <4> QED
        BY <4>1, <1>2 DEF AloneIsQuiet
    <3> QED
      BY <3>1, <3>2
  <2> QED
    BY <2>1, <2>2 DEF AloneIsQuiet
<1> QED
  BY <1>1, <1>3, <1>4, <1>5, <1>6, <1>7, <1>9, <1>10 DEF FramesInv

\* A run is taken up: a start frame is queued, nothing is read yet.
LEMMA StartStep ==
  ASSUME IInv, LlmStarts
  PROVE  IInv'
<1> USE DEF IInv, LlmStarts, inputVars, actionVars, tailVars
<1>0. toAction \in Seq(Frames) /\ runs \in Nat /\ Frame("start", NoText) \in Frames
  BY DEF TypeOK, Frame, Frames
<1>1. /\ toAction' \in Seq(Frames) /\ toAction' # <<>> /\ Len(toAction') = Len(toAction) + 1
      /\ DOMAIN toAction' = 1 .. Len(toAction) + 1 /\ DOMAIN toAction = 1 .. Len(toAction)
      /\ \A i \in 1 .. Len(toAction) : toAction'[i] = toAction[i]
      /\ toAction'[Len(toAction) + 1].kind = "start"
      /\ Len(toAction) \in Nat /\ (toAction = <<>> <=> Len(toAction) = 0)
  BY <1>0, Appended DEF Frame
<1>2. TypeOK'
  <2>1. capturing' \in BOOLEAN /\ commandsOnly' \in BOOLEAN
    BY DEF TypeOK
  <2> QED
    BY <1>0, <1>1, <2>1 DEF TypeOK, Envelopes, Frames
<1>3. FrameOrder'
  <2>1. Expected' = Expected
    BY DEF Expected
  <2> QED
    BY <1>1, <2>1 DEF FrameOrder, Follows
<1>4. Replies' = Replies /\ Held' = Held /\ \A j \in Replies : toAction'[j] = toAction[j]
  BY <1>1 DEF Replies, Held
<1>5. TurnsInOrder' /\ TurnIsNew' /\ OrdersHaveText'
  BY <1>4, ZenonT(60) DEF TurnsInOrder, TurnIsNew, OrdersHaveText
<1>6. HeldOnce' /\ GraphHasText' /\ DispatchedWasExecuted' /\ HeardInOrder' /\ LatestIsLast'
  BY DEF HeldOnce, GraphHasText, DispatchedWasExecuted, HeardInOrder, LatestIsLast, GraphNodes
<1>7. NoHistoryAtRest' /\ Counted' /\ SpacedCommandHeard'
  BY <1>0 DEF NoHistoryAtRest, AtRest, Counted, SpacedCommandHeard
<1>8. AloneIsQuiet'
  <2>1. \A c : Quiet(c) => Quiet(c)'
    BY <1>1 DEF Quiet
  <2> QED
    BY <2>1 DEF AloneIsQuiet
<1> QED
  BY <1>2, <1>3, <1>5, <1>6, <1>7, <1>8

\* The text of a turn is read: the turn gets its number.
LEMMA ReadStep ==
  ASSUME IInv, LlmReads
  PROVE  IInv'
<1> USE DEF IInv, LlmReads, inputVars, actionVars, tailVars
<1>0. heard \in Seq(Commands \cup {NoText}) /\ LatestUserText \in Commands \cup {NoText}
  BY LatestUser DEF TypeOK
<1>1. /\ heard' \in Seq(Commands \cup {NoText}) /\ Len(heard) \in Nat
      /\ Len(heard') = Len(heard) + 1 /\ heard' # <<>>
      /\ DOMAIN heard' = 1 .. Len(heard) + 1 /\ DOMAIN heard = 1 .. Len(heard)
      /\ \A i \in 1 .. Len(heard) : heard'[i] = heard[i]
      /\ heard'[Len(heard) + 1] = LatestUserText
  BY <1>0, Appended
<1>2. llm' \in {"standby", "command", "classify"} /\ (llm' # "standby" => LatestUserText # NoText)
  OBVIOUS
<1>3. TypeOK'
  <2>1. capturing' \in BOOLEAN /\ commandsOnly' \in BOOLEAN
    BY DEF TypeOK
  <2>2. Envelopes \subseteq Envelopes'
    BY <1>1 DEF Envelopes
  <2>3. Frames \subseteq Frames'
    BY <2>2 DEF Frames
  <2>4. toAction' \in Seq(Frames')
    BY <2>3, SeqMonotonic DEF TypeOK
  <2>5. parts' \in Seq(Envelopes') /\ acting' \in Envelopes' \cup {NoText}
    BY <2>2, SeqMonotonic DEF TypeOK
  <2>6. executed' \in Seq(DOMAIN heard')
    BY <1>1, SeqMonotonic DEF TypeOK
  <2>7. /\ events' \subseteq (DOMAIN heard') \X {"reply", "refused", "dispatched", "shipState"}
                               \X Actions
        /\ rows' \subseteq (DOMAIN heard')
                             \X {"command_runtime", "question_runtime", "llm_error_runtime"}
    BY <1>1, SMTT(60) DEF TypeOK
  <2> QED
    BY <1>1, <1>2, <2>1, <2>4, <2>5, <2>6, <2>7 DEF TypeOK, GraphNodes
<1>4. Replies' = Replies /\ Held' = Held
  BY DEF Replies, Held
<1>5. FrameOrder' /\ HeldOnce' /\ DispatchedWasExecuted' /\ LatestIsLast'
  <2>1. Expected' = Expected
    BY DEF Expected
  <2>2. FrameOrder'
    BY <1>2, <2>1 DEF FrameOrder
  <2> QED
    BY <2>2 DEF HeldOnce, DispatchedWasExecuted, LatestIsLast
<1>6. /\ \A i \in DOMAIN executed : executed[i] \in 1 .. Len(heard)
      /\ \A e \in Held : e.turn \in 1 .. Len(heard)
      /\ \A j \in Replies : toAction[j].envelope.turn \in 1 .. Len(heard)
  <2>1. \A i \in DOMAIN executed : executed[i] \in 1 .. Len(heard)
    BY <1>1, SMTT(60) DEF TypeOK
  <2>2. \A e \in Held : e \in Envelopes
    BY DEF TypeOK, Held
  <2>3. \A j \in Replies : toAction[j] \in Frames /\ toAction[j].kind = "text"
    BY DEF TypeOK, Replies
  <2> QED
    BY <1>1, <2>1, <2>2, <2>3 DEF Frames, Envelopes
<1>7. TurnsInOrder' /\ TurnIsNew'
  BY <1>1, <1>4, <1>6 DEF TurnsInOrder, TurnIsNew
<1>8. OrdersHaveText'
  BY <1>1, <1>4, <1>6 DEF OrdersHaveText
<1>9. GraphHasText' /\ NoHistoryAtRest'
  BY <1>1, <1>2 DEF GraphHasText, GraphNodes, NoHistoryAtRest, AtRest
<1>10. Counted'
  BY <1>1, <1>2, SMTT(60) DEF Counted, TypeOK
<1>11. HeardInOrder'
  <2> SUFFICES ASSUME NEW m \in DOMAIN heard', NEW n \in DOMAIN heard',
                      m <= n, heard'[m] # NoText, heard'[n] # NoText
               PROVE  \E a, b \in DOMAIN typed :
                        a <= b /\ heard'[m] = typed[a] /\ heard'[n] = typed[b]
    BY DEF HeardInOrder
  <2>0. typed \in Seq(Commands)
    BY DEF TypeOK
  <2>1. CASE n \in 1 .. Len(heard)
    BY <1>1, <2>1 DEF HeardInOrder
  <2>2. CASE n = Len(heard) + 1
    <3>1. /\ Len(typed) \in DOMAIN typed /\ heard'[n] = typed[Len(typed)]
          /\ \A a \in DOMAIN typed : a <= Len(typed)
      BY <1>1, <2>0, <2>2, LatestUser
    <3>2. CASE m = n
      BY <3>1, <3>2
    <3>3. CASE m \in 1 .. Len(heard)
      <4>1. PICK a \in DOMAIN typed, b \in DOMAIN typed : heard[m] = typed[a] /\ heard[m] = typed[b]
        BY <1>1, <3>3 DEF HeardInOrder
      <4> QED
        BY <1>1, <3>1, <3>3, <4>1
    <3> QED
      BY <1>1, <2>2, <3>2, <3>3
  <2> QED
    BY <1>1, <2>1, <2>2
<1>12. SpacedCommandHeard'
  <2> SUFFICES ASSUME NEW n \in DOMAIN heard'
               PROVE  n <= Len(typed) /\ (typed[n] \in alone => heard'[n] = typed[n])
    BY DEF SpacedCommandHeard
  <2>0. typed \in Seq(Commands) /\ runs \in Nat
    BY DEF TypeOK
  <2>1. CASE n \in 1 .. Len(heard)
    BY <1>1, <2>1 DEF SpacedCommandHeard
  <2>2. CASE n = Len(heard) + 1
    <3>1. n \in 1 .. Len(typed)
      BY <1>1, <2>0, <2>2 DEF Counted
    <3>2. ASSUME typed[n] \in alone PROVE heard'[n] = typed[n]
      <4>1. context = <<typed[n]>>
        BY <1>1, <2>0, <2>2, <3>1, <3>2 DEF AloneIsQuiet, Quiet
      <4>2. typed[n] \in Commands
        BY <2>0, <3>1
      <4>3. LatestUserText = typed[n]
        BY <4>1, <4>2 DEF LatestUserText
      <4> QED
        BY <1>1, <2>2, <4>3
    <3> QED
      BY <3>1, <3>2
  <2> QED
    BY <1>1, <2>1, <2>2
<1>13. AloneIsQuiet'
  BY <1>1, SMTT(60) DEF AloneIsQuiet, TypeOK
<1> QED
  BY <1>3, <1>5, <1>7, <1>8, <1>9, <1>10, <1>11, <1>12, <1>13

\* A turn is answered, in whatever way: its reply and the end frame are queued.
LEMMA EmitStep ==
  ASSUME IInv, llm \notin {"idle", "read"},
         NEW action \in Actions, NEW blank \in BOOLEAN, action = "order" => llm \in GraphNodes,
         Emits(Envelope(action, blank)),
         rows' = rows \/ \E actie \in {"command_runtime", "question_runtime", "llm_error_runtime"} :
                            rows' = rows \cup {<<Len(heard), actie>>},
         UNCHANGED <<inputVars, context, runs, heard, actionVars, tailVars>>
  PROVE  IInv'
<1> USE DEF IInv, inputVars, actionVars, tailVars
<1> DEFINE e == Envelope(action, blank)
<1>0. /\ heard \in Seq(Commands \cup {NoText}) /\ heard # <<>> /\ Len(heard) \in DOMAIN heard
      /\ e \in Envelopes /\ e.turn = Len(heard) /\ e.action = action
      /\ toAction \in Seq(Frames) /\ Frame("text", e) \in Frames /\ Frame("end", NoText) \in Frames
  BY DEF TypeOK, GraphHasText, Envelope, Envelopes, Frame, Frames
<1> HIDE DEF e
<1>1. /\ toAction' \in Seq(Frames) /\ toAction' # <<>> /\ Len(toAction') = Len(toAction) + 2
      /\ DOMAIN toAction' = 1 .. Len(toAction) + 2 /\ DOMAIN toAction = 1 .. Len(toAction)
      /\ \A i \in 1 .. Len(toAction) : toAction'[i] = toAction[i]
      /\ toAction'[Len(toAction) + 1].kind = "text" /\ toAction'[Len(toAction) + 1].envelope = e
      /\ toAction'[Len(toAction) + 2].kind = "end"
      /\ Len(toAction) \in Nat /\ (toAction = <<>> <=> Len(toAction) = 0)
  <2>1. toAction' = toAction \o <<Frame("text", e), Frame("end", NoText)>>
    BY DEF e, Emits
  <2> QED
    BY <1>0, <2>1, AppendedTwo DEF Frame
<1>2. llm' = "idle"
  BY DEF Emits
<1>3. TypeOK'
  <2>1. capturing' \in BOOLEAN /\ commandsOnly' \in BOOLEAN
    BY DEF TypeOK
  <2>2. rows' \subseteq
          (DOMAIN heard) \X {"command_runtime", "question_runtime", "llm_error_runtime"}
    BY <1>0 DEF TypeOK
  <2> QED
    BY <1>0, <1>1, <1>2, <2>1, <2>2 DEF TypeOK, Envelopes, Frames
<1>4. FrameOrder'
  <2>1. Expected' = Expected
    BY DEF Expected
  <2>2. toAction'[1].kind = Expected
    BY <1>1 DEF FrameOrder
  <2>3. \A i, j \in DOMAIN toAction' : j = i + 1 => toAction'[j].kind = Follows(toAction'[i].kind)
    <3> SUFFICES ASSUME NEW i \in 1 .. Len(toAction) + 1
                 PROVE  toAction'[i + 1].kind = Follows(toAction'[i].kind)
      BY <1>1
    <3>1. CASE i = Len(toAction) + 1
      BY <1>1, <3>1 DEF Follows
    <3>2. CASE i = Len(toAction)
      BY <1>1, <3>2 DEF FrameOrder, Follows
    <3>3. CASE i \in 1 .. Len(toAction) /\ i + 1 \in 1 .. Len(toAction)
      <4>1. toAction[i + 1].kind = Follows(toAction[i].kind)
        BY <1>1, <3>3 DEF FrameOrder
      <4> QED
        BY <1>1, <3>3, <4>1
    <3>4. \/ i = Len(toAction) + 1 \/ i = Len(toAction)
          \/ i \in 1 .. Len(toAction) /\ i + 1 \in 1 .. Len(toAction)
      <4>1. Len(toAction) \in Nat
        BY <1>1
      <4> HIDE DEF IInv
      <4> QED
        BY <4>1
    <3> QED
      BY <3>1, <3>2, <3>3, <3>4
  <2> QED
    BY <1>1, <1>2, <2>1, <2>2, <2>3 DEF FrameOrder, Follows
<1>5. /\ Replies' = Replies \cup {Len(toAction) + 1} /\ Held' = Held
      /\ \A j \in Replies : j \in 1 .. Len(toAction) /\ toAction'[j] = toAction[j]
  BY <1>1 DEF Replies, Held
<1>6. TurnsInOrder'
  BY <1>0, <1>1, <1>5, SMTT(60) DEF TurnsInOrder, TurnIsNew
<1>7. OrdersHaveText'
  BY <1>0, <1>1, <1>5 DEF OrdersHaveText, GraphHasText
<1>8. HeldOnce' /\ GraphHasText' /\ TurnIsNew' /\ DispatchedWasExecuted'
  BY <1>2 DEF HeldOnce, GraphHasText, TurnIsNew, DispatchedWasExecuted, GraphNodes
<1>9. NoHistoryAtRest' /\ LatestIsLast' /\ HeardInOrder' /\ Counted' /\ SpacedCommandHeard'
  BY <1>1, <1>2 DEF NoHistoryAtRest, AtRest, LatestIsLast, HeardInOrder, Counted, SpacedCommandHeard
<1>10. AloneIsQuiet'
  BY DEF AloneIsQuiet, Quiet
<1> QED
  BY <1>3, <1>4, <1>6, <1>7, <1>8, <1>9, <1>10

\* The graph hands the turn on.
LEMMA MoveStep ==
  ASSUME IInv, GraphMoves
  PROVE  IInv'
<1> USE DEF IInv, GraphMoves, inputVars, actionVars, tailVars
<1>1. llm \in GraphNodes /\ llm' \in GraphNodes
  BY DEF GraphNodes
<1>2. TypeOK'
  <2>1. capturing' \in BOOLEAN /\ commandsOnly' \in BOOLEAN
    BY DEF TypeOK
  <2> QED
    BY <1>1, <2>1 DEF TypeOK, Envelopes, Frames
<1>3. Replies' = Replies /\ Held' = Held /\ Expected' = Expected
  BY DEF Replies, Held, Expected
<1>4. FrameOrder' /\ TurnsInOrder' /\ TurnIsNew' /\ OrdersHaveText'
  BY <1>1, <1>3 DEF FrameOrder, TurnsInOrder, TurnIsNew, OrdersHaveText, GraphNodes
<1>5. HeldOnce' /\ GraphHasText' /\ DispatchedWasExecuted'
  BY <1>1 DEF HeldOnce, GraphHasText, DispatchedWasExecuted, GraphNodes
<1>6. NoHistoryAtRest' /\ LatestIsLast' /\ HeardInOrder' /\ Counted' /\ SpacedCommandHeard'
  BY <1>1 DEF NoHistoryAtRest, AtRest, LatestIsLast, HeardInOrder, Counted, SpacedCommandHeard,
              GraphNodes
<1>7. AloneIsQuiet'
  BY <1>1 DEF AloneIsQuiet, Quiet, GraphNodes
<1> QED
  BY <1>2, <1>4, <1>5, <1>6, <1>7

\* The service and its graph.
LEMMA LlmInv ==
  ASSUME IInv, LlmStep
  PROVE  IInv'
<1>1. CASE StandsBy
  <2>1. "error" \in Actions /\ FALSE \in BOOLEAN
    BY DEF Actions
  <2> QED
    BY <1>1, <2>1, EmitStep DEF StandsBy
<1>2. CASE CommandParsed
  <2>1. PICK action \in Actions, blank \in BOOLEAN : Emits(Envelope(action, blank))
    BY <1>2 DEF CommandParsed
  <2> QED
    BY <1>2, <2>1, EmitStep DEF CommandParsed, Audits, GraphNodes
<1>3. CASE QuestionAnswered
  <2>1. "answer" \in Actions /\ FALSE \in BOOLEAN
    BY DEF Actions
  <2> QED
    BY <1>3, <2>1, EmitStep DEF QuestionAnswered, Audits, GraphNodes
<1>4. CASE GraphFails
  <2>1. "error" \in Actions /\ FALSE \in BOOLEAN
    BY DEF Actions
  <2> QED
    BY <1>4, <2>1, EmitStep DEF GraphFails, Audits, GraphNodes
<1> QED
  BY <1>1, <1>2, <1>3, <1>4, StartStep, ReadStep, MoveStep DEF LlmStep

\* A frame taken by the action processor leaves the order of the rest.
LEMMA TakeFrame ==
  ASSUME TypeOK, FrameOrder, toAction # <<>>, toAction' = Tail(toAction), llm' = llm,
         Expected' = Follows(toAction[1].kind)
  PROVE  /\ FrameOrder'
         /\ toAction' \in Seq(Frames)
         /\ TurnsInOrder => \A i, j \in Replies' :
              i < j => toAction'[i].envelope.turn < toAction'[j].envelope.turn
         /\ \A j \in Replies' : j + 1 \in Replies /\ j + 1 > 1 /\ toAction'[j] = toAction[j + 1]
         /\ \A j \in DOMAIN toAction' : j + 1 \in DOMAIN toAction /\ toAction'[j] = toAction[j + 1]
<1>1. /\ toAction' \in Seq(Frames) /\ Len(toAction) \in Nat /\ Len(toAction) > 0
      /\ Len(toAction') = Len(toAction) - 1
      /\ DOMAIN toAction' = 1 .. Len(toAction) - 1 /\ DOMAIN toAction = 1 .. Len(toAction)
      /\ \A i \in 1 .. Len(toAction) - 1 : toAction'[i] = toAction[i + 1]
      /\ (toAction' = <<>> <=> Len(toAction) = 1)
  <2>1. toAction \in Seq(Frames)
    BY DEF TypeOK
  <2>2. /\ toAction' \in Seq(Frames) /\ Len(toAction) \in Nat /\ Len(toAction) > 0
        /\ Len(toAction') = Len(toAction) - 1
        /\ DOMAIN toAction' = 1 .. Len(toAction) - 1 /\ DOMAIN toAction = 1 .. Len(toAction)
        /\ \A i \in 1 .. Len(toAction) - 1 : toAction'[i] = toAction[i + 1]
    BY <2>1, Taken
  <2>3. toAction' = <<>> <=> Len(toAction') = 0
    BY <2>2, EmptySeq
  <2> QED
    BY <2>2, <2>3
<1>2. \A i \in 1 .. Len(toAction) - 1 : toAction[i + 1].kind = Follows(toAction[i].kind)
  <2> SUFFICES ASSUME NEW i \in 1 .. Len(toAction) - 1
               PROVE  toAction[i + 1].kind = Follows(toAction[i].kind)
    OBVIOUS
  <2>1. i \in DOMAIN toAction /\ i + 1 \in DOMAIN toAction
    BY <1>1
  <2> QED
    BY <2>1 DEF FrameOrder
<1>3. FrameOrder'
  <2>1. toAction' # <<>> => toAction'[1].kind = Expected'
    BY <1>1, <1>2
  <2>2. \A i, j \in DOMAIN toAction' : j = i + 1 => toAction'[j].kind = Follows(toAction'[i].kind)
    BY <1>1, <1>2
  <2>3. (IF toAction' = <<>> THEN Expected' ELSE Follows(toAction'[Len(toAction')].kind))
          = Follows(toAction[Len(toAction)].kind)
    BY <1>1
  <2> QED
    BY <2>1, <2>2, <2>3 DEF FrameOrder
<1>4. ASSUME TurnsInOrder, NEW i \in Replies', NEW j \in Replies', i < j
      PROVE  toAction'[i].envelope.turn < toAction'[j].envelope.turn
  <2>1. /\ i + 1 \in Replies /\ toAction'[i] = toAction[i + 1] /\ i + 1 < j + 1
        /\ j + 1 \in Replies /\ toAction'[j] = toAction[j + 1]
    BY <1>1, <1>4 DEF Replies
  <2> QED
    BY <1>4, <2>1 DEF TurnsInOrder
<1> QED
  BY <1>1, <1>3, <1>4 DEF Replies

\* The processor starts a reply.
LEMMA ActStartStep ==
  ASSUME IInv, ActStart
  PROVE  IInv'
<1> USE DEF IInv, ActStart, Receives, inputVars, llmVars, tailVars
<1>1. toAction # <<>> /\ toAction[1].kind = "start" /\ toAction' = Tail(toAction)
  BY Taken DEF TypeOK
<1>2. ~capturing /\ parts = <<>> /\ Held = {} /\ Held' = {}
  BY <1>1 DEF FrameOrder, Expected, HeldOnce, Held
<1>3. Expected' = Follows(toAction[1].kind)
  BY <1>1 DEF Expected, Follows
<1>4. /\ FrameOrder' /\ toAction' \in Seq(Frames)
      /\ \A i, j \in Replies' : i < j => toAction'[i].envelope.turn < toAction'[j].envelope.turn
      /\ \A j \in Replies' : j + 1 \in Replies /\ toAction'[j] = toAction[j + 1]
      /\ \A j \in DOMAIN toAction' : j + 1 \in DOMAIN toAction /\ toAction'[j] = toAction[j + 1]
  BY <1>1, <1>3, TakeFrame
<1>5. TypeOK'
  <2>1. capturing' \in BOOLEAN /\ commandsOnly' \in BOOLEAN
    BY DEF TypeOK
  <2> QED
    BY <1>4, <2>1 DEF TypeOK, Envelopes, Frames
<1>6. HeldOnce'
  BY DEF HeldOnce
<1>7. TurnsInOrder' /\ TurnIsNew' /\ OrdersHaveText'
  <2>1. \A j \in Replies' : j \in Int /\ j + 1 \in Replies /\ toAction'[j] = toAction[j + 1]
    BY <1>4 DEF Replies, TypeOK
  <2>2. TurnsInOrder'
    BY <1>2, <1>4, <2>1 DEF TurnsInOrder
  <2>3. TurnIsNew' /\ OrdersHaveText'
    BY <1>2, <2>1 DEF TurnIsNew, OrdersHaveText
  <2> QED
    BY <2>2, <2>3
<1>8. NoHistoryAtRest'
  BY <1>4 DEF NoHistoryAtRest, AtRest, FrameOrder, Expected
<1>9. /\ LatestIsLast' /\ HeardInOrder' /\ GraphHasText' /\ Counted' /\ SpacedCommandHeard'
      /\ DispatchedWasExecuted'
  BY DEF LatestIsLast, HeardInOrder, GraphHasText, Counted, SpacedCommandHeard,
         DispatchedWasExecuted
<1>10. AloneIsQuiet'
  <2>1. \A c : Quiet(c) => Quiet(c)'
    BY <1>4 DEF Quiet
  <2> QED
    BY <2>1 DEF AloneIsQuiet
<1> QED
  BY <1>4, <1>5, <1>6, <1>7, <1>8, <1>9, <1>10

\* It takes the text.
LEMMA ActTextStep ==
  ASSUME IInv, ActText
  PROVE  IInv'
<1> USE DEF IInv, ActText, Receives, inputVars, llmVars, tailVars
<1> DEFINE e == toAction[1].envelope
<1>1. /\ toAction # <<>> /\ toAction[1].kind = "text" /\ toAction' = Tail(toAction)
      /\ 1 \in Replies /\ e \in Envelopes /\ Head(toAction).envelope = e
  <2>1. /\ toAction # <<>> /\ Head(toAction) = toAction[1] /\ 1 \in DOMAIN toAction
        /\ toAction[1] \in Frames /\ toAction[1].kind = "text"
    BY Taken DEF TypeOK
  <2>2. e \in Envelopes
    BY <2>1 DEF Frames
  <2> QED
    BY <2>1, <2>2 DEF Replies
<1>2. parts = <<>> /\ Held = {}
  BY <1>1 DEF FrameOrder, Expected, Held
<1>3. parts' = <<e>> /\ parts' \in Seq(Envelopes) /\ parts' # <<>> /\ Held' = {e}
  BY <1>1, <1>2 DEF Held
<1> HIDE DEF e
<1>4. Expected' = Follows(toAction[1].kind)
  BY <1>1, <1>3 DEF Expected, Follows
<1>5. /\ FrameOrder' /\ toAction' \in Seq(Frames)
      /\ \A i, j \in Replies' : i < j => toAction'[i].envelope.turn < toAction'[j].envelope.turn
      /\ \A j \in Replies' : j + 1 \in Replies /\ j + 1 > 1 /\ toAction'[j] = toAction[j + 1]
  BY <1>1, <1>4, TakeFrame
<1>6. TypeOK'
  <2>1. capturing' \in BOOLEAN /\ commandsOnly' \in BOOLEAN
    BY DEF TypeOK
  <2> QED
    BY <1>3, <1>5, <2>1 DEF TypeOK, Envelopes, Frames
<1>7. HeldOnce'
  BY <1>3 DEF HeldOnce
<1>8. TurnsInOrder' /\ TurnIsNew' /\ OrdersHaveText'
  <2>1. \A j \in Replies' :
          /\ j \in Int /\ j + 1 \in Replies /\ j + 1 > 1
          /\ toAction'[j] = toAction[j + 1]
    BY <1>5 DEF Replies, TypeOK
  <2>2. TurnsInOrder'
    <3>1. \A i, j \in DOMAIN executed' : i < j => executed'[i] < executed'[j]
      BY DEF TurnsInOrder
    <3>2. \A i \in DOMAIN executed : executed[i] < e.turn
      BY <1>1 DEF TurnsInOrder, e
    <3>3. \A i \in DOMAIN executed : \A j \in Replies' : executed[i] < toAction'[j].envelope.turn
      BY <2>1 DEF TurnsInOrder
    <3>4. \A j \in Replies' : e.turn < toAction'[j].envelope.turn
      BY <1>1, <2>1 DEF TurnsInOrder, e
    <3> QED
      BY <1>3, <1>5, <3>1, <3>2, <3>3, <3>4 DEF TurnsInOrder
  <2>3. TurnIsNew' /\ OrdersHaveText'
    BY <1>1, <1>3, <2>1 DEF TurnIsNew, OrdersHaveText, e
  <2> QED
    BY <2>2, <2>3
<1>9. NoHistoryAtRest'
  BY <1>3, <1>5 DEF NoHistoryAtRest, AtRest, FrameOrder, Expected
<1>10. /\ LatestIsLast' /\ HeardInOrder' /\ GraphHasText' /\ Counted' /\ SpacedCommandHeard'
       /\ DispatchedWasExecuted'
  BY DEF LatestIsLast, HeardInOrder, GraphHasText, Counted, SpacedCommandHeard,
         DispatchedWasExecuted
<1>11. AloneIsQuiet'
  <2>1. \A c : ~Quiet(c)
    BY <1>1 DEF Quiet, Replies
  <2> QED
    BY <2>1 DEF AloneIsQuiet
<1> QED
  BY <1>5, <1>6, <1>7, <1>8, <1>9, <1>10, <1>11

\* What a resolved reply publishes and says. An order is on record as dispatched
\* only if the simulator acknowledged it.
LEMMA Resolved ==
  ASSUME TypeOK, NEW e \in Envelopes, NEW ok \in BOOLEAN, Resolves(e, ok)
  PROVE  /\ toSpeech' \in Seq(Lines) /\ toSpeech' # <<>>
         /\ events' \subseteq (DOMAIN heard) \X {"reply", "refused", "dispatched", "shipState"}
                                \X Actions
         /\ \A ev \in events' :
              ev \in events \/ (/\ ev[1] = e.turn /\ ev[3] = e.action
                                /\ e.action = "order" /\ ev[2] = "dispatched" => ok)
<1>1. e.turn \in DOMAIN heard /\ e.action \in Actions
  BY DEF Envelopes
<1>2. Spoken(e, ok) \in Lines
  BY DEF Spoken, Lines
<1>3. TurnEvents(e, ok) \subseteq {"reply", "refused", "dispatched", "shipState"}
  BY DEF TurnEvents, NeedsSimulator
<1>4. e.action = "order" /\ ~ok => "dispatched" \notin TurnEvents(e, ok)
  BY DEF TurnEvents
<1>5. toSpeech' \in Seq(Lines) /\ toSpeech' # <<>>
  <2>1. toSpeech \in Seq(Lines) /\ toSpeech' = Append(toSpeech, Spoken(e, ok))
    BY DEF Resolves, TypeOK
  <2> HIDE DEF Lines
  <2> QED
    BY <1>2, <2>1, Appended
<1>6. \A ev \in events' :
        ev \in events \/ \E kind \in TurnEvents(e, ok) : ev = <<e.turn, kind, e.action>>
  BY DEF Resolves
<1> QED
  BY <1>1, <1>3, <1>4, <1>5, <1>6, SMTT(60) DEF TypeOK

\* The reply is complete: it is resolved, or the simulator is asked.
LEMMA ActEndStep ==
  ASSUME IInv, ActEnd
  PROVE  IInv'
<1> USE DEF IInv, ActEnd, Receives, inputVars, llmVars
<1> DEFINE e == parts[1]
<1>1. toAction # <<>> /\ toAction[1].kind = "end" /\ toAction' = Tail(toAction)
  BY Taken DEF TypeOK
<1>2. parts # <<>> /\ acting = NoText
  BY <1>1 DEF FrameOrder, Expected
<1>3. parts \in Seq(Envelopes) /\ Len(parts) = 1 /\ DOMAIN parts = {1}
  <2>1. parts \in Seq(Envelopes)
    BY DEF TypeOK
  <2>2. Len(parts) \in Nat \ {0} /\ DOMAIN parts = 1 .. Len(parts)
    BY <1>2, <2>1, EmptySeq, LenProperties
  <2> QED
    BY <2>1, <2>2 DEF HeldOnce
<1>4. e \in Envelopes /\ Held = {e} /\ e # NoText
  <2>1. e \in Envelopes
    BY <1>3, ElementOfSeq, 1 \in 1 .. Len(parts)
  <2>2. e # NoText
    BY <2>1 DEF Envelopes, TypeOK
  <2> QED
    BY <1>2, <1>3, <2>1, <2>2 DEF Held
<1>5. Expected' = Follows(toAction[1].kind)
  BY <1>1 DEF Expected, Follows
<1>6. /\ FrameOrder' /\ toAction' \in Seq(Frames)
      /\ \A i, j \in Replies' : i < j => toAction'[i].envelope.turn < toAction'[j].envelope.turn
      /\ \A j \in Replies' : j + 1 \in Replies /\ j + 1 > 1 /\ toAction'[j] = toAction[j + 1]
  BY <1>1, <1>5, TakeFrame
<1>7. \/ acting' = e /\ UNCHANGED <<events, toSpeech>>
      \/ /\ acting' = NoText /\ e.action # "order"
         /\ \E ok \in BOOLEAN : Resolves(e, ok)
  BY <1>2 DEF CarriedOut, NeedsSimulator
<1> HIDE DEF e
<1>8. /\ toSpeech' \in Seq(Lines)
      /\ acting' = e \/ toSpeech' # <<>>
      /\ events' \subseteq (DOMAIN heard) \X {"reply", "refused", "dispatched", "shipState"}
                             \X Actions
      /\ \A ev \in events' : ev \in events \/ ev[3] # "order"
  BY <1>4, <1>7, Resolved DEF TypeOK
<1>9. Held' \subseteq {e} /\ acting' \in {e, NoText} /\ parts' = <<>> /\ capturing' = FALSE
  BY <1>7 DEF Held
<1>10. TypeOK'
  <2>1. capturing' \in BOOLEAN /\ commandsOnly' \in BOOLEAN
    BY DEF TypeOK
  <2> QED
    BY <1>4, <1>6, <1>8, <1>9, <2>1, SMTT(60) DEF TypeOK, Envelopes, Frames
<1>11. HeldOnce'
  BY <1>9 DEF HeldOnce
<1>12. TurnsInOrder'
  BY <1>4, <1>6, <1>9, ZenonT(60) DEF TurnsInOrder
<1>13. TurnIsNew' /\ OrdersHaveText'
  BY <1>4, <1>6, <1>9, ZenonT(60) DEF TurnIsNew, OrdersHaveText
<1>14. NoHistoryAtRest'
  BY <1>4, <1>8 DEF NoHistoryAtRest, AtRest
<1>15. LatestIsLast' /\ HeardInOrder' /\ GraphHasText' /\ Counted' /\ SpacedCommandHeard'
  BY DEF LatestIsLast, HeardInOrder, GraphHasText, Counted, SpacedCommandHeard
<1>16. DispatchedWasExecuted'
  BY <1>8 DEF DispatchedWasExecuted
<1>17. AloneIsQuiet'
  <2>1. \A c : ~Quiet(c)
    BY <1>2 DEF Quiet
  <2> QED
    BY <2>1 DEF AloneIsQuiet
<1> QED
  BY <1>6, <1>10, <1>11, <1>12, <1>13, <1>14, <1>15, <1>16, <1>17

\* The simulator has answered, or not.
LEMMA ActSimulatorStep ==
  ASSUME IInv, ActSimulator
  PROVE  IInv'
<1> USE DEF IInv, ActSimulator, inputVars, llmVars
<1> DEFINE e == acting
<1>1. /\ e \in Envelopes /\ e # NoText /\ e.turn \in DOMAIN heard
      /\ executed \in Seq(DOMAIN heard) /\ heard \in Seq(Commands \cup {NoText})
  BY DEF TypeOK, Envelopes
<1>2. ~capturing /\ parts = <<>> /\ Held = {e} /\ Held' = {}
  BY DEF HeldOnce, Held
<1>3. PICK ok \in BOOLEAN :
        /\ Resolves(acting, ok)
        /\ \/ acting.action = "order" /\ executed' = Append(executed, acting.turn)
           \/ (acting.action = "status" \/ ~ok) /\ UNCHANGED executed
  OBVIOUS
<1>4. /\ toSpeech' \in Seq(Lines) /\ toSpeech' # <<>>
      /\ events' \subseteq (DOMAIN heard) \X {"reply", "refused", "dispatched", "shipState"}
                             \X Actions
      /\ \A ev \in events' :
           ev \in events \/ (/\ ev[1] = e.turn /\ ev[3] = e.action
                             /\ e.action = "order" /\ ev[2] = "dispatched" => ok)
  BY <1>1, <1>3, Resolved
<1>5. /\ executed' \in Seq(DOMAIN heard)
      /\ \A i \in DOMAIN executed : i \in DOMAIN executed' /\ executed'[i] = executed[i]
      /\ \A i \in DOMAIN executed' :
           \/ i \in DOMAIN executed /\ executed'[i] = executed[i]
           \/ /\ e.action = "order" /\ executed'[i] = e.turn
              /\ \A j \in DOMAIN executed' : j # i => j \in DOMAIN executed /\ j < i
  <2>1. CASE UNCHANGED executed
    BY <1>1, <2>1
  <2>2. CASE e.action = "order" /\ executed' = Append(executed, e.turn)
    <3>1. /\ executed' \in Seq(DOMAIN heard) /\ Len(executed) \in Nat
          /\ DOMAIN executed' = 1 .. Len(executed) + 1 /\ DOMAIN executed = 1 .. Len(executed)
          /\ \A i \in 1 .. Len(executed) : executed'[i] = executed[i]
          /\ executed'[Len(executed) + 1] = e.turn
      BY <1>1, <2>2, Appended
    <3> QED
      BY <2>2, <3>1
  <2> QED
    BY <1>3, <2>1, <2>2
<1>6. e.action = "order" /\ ok => \E i \in DOMAIN executed' : executed'[i] = e.turn
  <2>1. ASSUME e.action = "order", ok PROVE executed' = Append(executed, e.turn)
    BY <1>3, <2>1
  <2>2. \E i \in DOMAIN Append(executed, e.turn) : Append(executed, e.turn)[i] = e.turn
    BY <1>1, Appended
  <2> QED
    BY <2>1, <2>2
<1>7. TypeOK'
  <2>1. capturing' \in BOOLEAN /\ commandsOnly' \in BOOLEAN
    BY DEF TypeOK
  <2> QED
    BY <1>4, <1>5, <2>1 DEF TypeOK, Envelopes, Frames
<1>8. FrameOrder' /\ HeldOnce'
  <2>1. Expected' = Expected
    BY DEF Expected
  <2> QED
    BY <2>1 DEF FrameOrder, HeldOnce
<1>9. Replies' = Replies
  BY DEF Replies
<1>10. TurnsInOrder'
  <2>1. \A i, j \in DOMAIN executed' : i < j => executed'[i] < executed'[j]
    <3> SUFFICES ASSUME NEW i \in DOMAIN executed', NEW j \in DOMAIN executed', i < j
                 PROVE  executed'[i] < executed'[j]
      OBVIOUS
    <3>1. i \in Int /\ j \in Int
      BY <1>5
    <3>2. i \in DOMAIN executed /\ executed'[i] = executed[i]
      BY <1>5, <3>1
    <3> QED
      BY <1>2, <1>5, <3>2 DEF TurnsInOrder
  <2>2. \A i \in DOMAIN executed' : \A j \in Replies' : executed'[i] < toAction'[j].envelope.turn
    BY <1>2, <1>5, <1>9 DEF TurnsInOrder
  <2> QED
    BY <1>2, <1>9, <2>1, <2>2 DEF TurnsInOrder
<1>11. TurnIsNew' /\ OrdersHaveText'
  BY <1>2, <1>5, <1>9 DEF TurnIsNew, OrdersHaveText
<1>12. NoHistoryAtRest'
  BY <1>4 DEF NoHistoryAtRest, AtRest
<1>13. LatestIsLast' /\ HeardInOrder' /\ GraphHasText' /\ Counted' /\ SpacedCommandHeard'
  BY DEF LatestIsLast, HeardInOrder, GraphHasText, Counted, SpacedCommandHeard
<1>14. DispatchedWasExecuted'
  <2> SUFFICES ASSUME NEW ev \in events', ev[2] = "dispatched", ev[3] = "order"
               PROVE  \E i \in DOMAIN executed' : executed'[i] = ev[1]
    BY DEF DispatchedWasExecuted
  <2>1. CASE ev \in events
    BY <1>5, <2>1 DEF DispatchedWasExecuted
  <2>2. CASE ev \notin events
    BY <1>4, <1>6, <2>2
  <2> QED
    BY <2>1, <2>2
<1>15. AloneIsQuiet'
  <2>1. \A c : ~Quiet(c)
    BY DEF Quiet
  <2> QED
    BY <2>1 DEF AloneIsQuiet
<1> QED
  BY <1>7, <1>8, <1>10, <1>11, <1>12, <1>13, <1>14, <1>15

\* The spoken line is stored behind the command, and a wipe is on its way.
LEMMA AggregateStep ==
  ASSUME IInv, Aggregates
  PROVE  IInv'
<1> USE DEF IInv
<1>0. /\ toSpeech # <<>> /\ toSpeech' = Tail(toSpeech)
      /\ UNCHANGED <<commandsOnly, typed, alone, runs, llm, heard, rows, toAction, capturing,
                     parts, acting, executed, events>>
  BY DEF Aggregates, inputVars, llmVars, actionVars
<1>1. toSpeech' \in Seq(Lines) /\ Head(toSpeech) # ""
  <2>1. toSpeech \in Seq(Lines) /\ "" \notin Lines
    BY DEF TypeOK, Lines
  <2> QED
    BY <1>0, <2>1, Taken, ZenonT(60)
<1>2. /\ context' = Append(context, Assistant) /\ stamps' = stamps + 1 /\ stamps \in Nat
      /\ context \in Seq(Commands \cup {Assistant})
  BY <1>1 DEF TypeOK, Aggregates
<1>3. /\ context' \in Seq(Commands \cup {Assistant}) /\ Len(context) \in Nat
      /\ DOMAIN context' = 1 .. Len(context) + 1 /\ DOMAIN context = 1 .. Len(context)
      /\ \A i \in 1 .. Len(context) : context'[i] = context[i]
      /\ context'[Len(context) + 1] = Assistant
  BY <1>2, Appended
<1>4. FramesInv'
  BY <1>0, FramesStay DEF FramesInv
<1>5. TypeOK'
  <2>1. capturing' \in BOOLEAN /\ commandsOnly' \in BOOLEAN
    BY <1>0 DEF TypeOK
  <2>2. Envelopes' = Envelopes /\ Frames' = Frames
    BY <1>0 DEF Envelopes, Frames
  <2>3. stamps' \in Nat /\ runs' \in Nat
    BY <1>0, <1>2 DEF TypeOK
  <2>4. toAction' \in Seq(Frames') /\ toSpeech' \in Seq(Lines)
    BY <1>0, <1>1, <2>2 DEF TypeOK
  <2> QED
    BY <1>0, <1>3, <2>1, <2>2, <2>3, <2>4 DEF TypeOK
<1>6. NoHistoryAtRest'
  BY <1>2 DEF NoHistoryAtRest, AtRest
<1>7. LatestIsLast'
  BY <1>0, <1>3, SMTT(60) DEF LatestIsLast
<1>8. HeardInOrder' /\ Counted' /\ SpacedCommandHeard'
  BY <1>0 DEF HeardInOrder, Counted, SpacedCommandHeard
<1>9. AloneIsQuiet'
  <2>1. \A c : ~Quiet(c)
    BY <1>0 DEF Quiet
  <2> QED
    BY <1>0, <2>1 DEF AloneIsQuiet
<1> QED
  BY <1>4, <1>5, <1>6, <1>7, <1>8, <1>9 DEF FramesInv

\* The context is wiped.
LEMMA ResetStep ==
  ASSUME IInv, Resets
  PROVE  IInv'
<1> USE DEF IInv, Resets, inputVars, llmVars
<1>1. FramesInv'
  BY FramesStay DEF FramesInv, actionVars
<1>2. TypeOK'
  <2>1. capturing' \in BOOLEAN /\ commandsOnly' \in BOOLEAN
    BY DEF TypeOK, actionVars
  <2> QED
    BY <2>1 DEF TypeOK, Envelopes, Frames, actionVars
<1>3. NoHistoryAtRest' /\ LatestIsLast' /\ HeardInOrder' /\ Counted' /\ SpacedCommandHeard'
  BY DEF NoHistoryAtRest, LatestIsLast, HeardInOrder, Counted, SpacedCommandHeard
<1>4. AloneIsQuiet'
  <2>1. \A c : ~Quiet(c)
    BY DEF Quiet, TypeOK
  <2> QED
    BY <2>1 DEF AloneIsQuiet
<1> QED
  BY <1>1, <1>2, <1>3, <1>4 DEF FramesInv

\* The inductive invariant holds throughout.
THEOREM Inductive == Spec => []IInv
<1>1. Init => IInv
  <2> SUFFICES ASSUME Init PROVE IInv
    OBVIOUS
  <2> USE DEF Init
  <2>1. TypeOK
    <3>1. capturing \in BOOLEAN /\ commandsOnly \in BOOLEAN
      OBVIOUS
    <3> QED
      BY <3>1 DEF TypeOK, Frames, Envelopes
  <2>2. FrameOrder /\ HeldOnce /\ Counted
    BY DEF FrameOrder, Expected, HeldOnce, Counted
  <2>3. NoHistoryAtRest /\ LatestIsLast /\ HeardInOrder /\ GraphHasText
    BY DEF NoHistoryAtRest, LatestIsLast, HeardInOrder, GraphHasText, GraphNodes
  <2>4. TurnsInOrder /\ TurnIsNew /\ OrdersHaveText
    BY DEF TurnsInOrder, TurnIsNew, OrdersHaveText, Held, Replies
  <2>5. AloneIsQuiet /\ SpacedCommandHeard /\ DispatchedWasExecuted
    BY DEF AloneIsQuiet, SpacedCommandHeard, DispatchedWasExecuted
  <2> QED
    BY <2>1, <2>2, <2>3, <2>4, <2>5 DEF IInv
<1>2. IInv /\ [Next]_vars => IInv'
  <2> SUFFICES ASSUME IInv, [Next]_vars PROVE IInv'
    OBVIOUS
  <2>1. CASE Next
    BY <2>1, InjectStep, LlmInv, ActStartStep, ActTextStep, ActEndStep, ActSimulatorStep,
       AggregateStep, ResetStep DEF Next, ActStep
  <2>2. CASE UNCHANGED vars
    <3> USE <2>2 DEF vars, inputVars, llmVars, actionVars, tailVars, IInv
    <3>1. FramesInv'
      BY FramesStay DEF FramesInv
    <3>2. TypeOK'
      <4>1. capturing' \in BOOLEAN /\ commandsOnly' \in BOOLEAN
        BY DEF TypeOK
      <4> QED
        BY <4>1 DEF TypeOK, Frames, Envelopes
    <3>3. NoHistoryAtRest' /\ LatestIsLast' /\ HeardInOrder' /\ Counted' /\ SpacedCommandHeard'
      BY DEF NoHistoryAtRest, AtRest, LatestIsLast, HeardInOrder, Counted, SpacedCommandHeard
    <3>4. AloneIsQuiet'
      BY DEF AloneIsQuiet, Quiet
    <3> QED
      BY <3>1, <3>2, <3>3, <3>4 DEF FramesInv
  <2> QED
    BY <2>1, <2>2
<1> QED
  BY <1>1, <1>2, PTL DEF Spec

\* Messages, frames, envelopes and histories keep their types.
THEOREM TypeCorrect == Spec => []TypeOK
<1>1. IInv => TypeOK
  BY DEF IInv
<1> QED
  BY <1>1, Inductive, PTL

\* However many turns overlapped or failed, nothing is left in the context once
\* nothing is under way.
THEOREM RestIsClean == Spec => []NoHistoryAtRest
<1>1. IInv => NoHistoryAtRest
  BY DEF IInv
<1> QED
  BY <1>1, Inductive, PTL

\* A command that had the pipeline to itself is what its turn worked on.
THEOREM SpacedHeard == Spec => []SpacedCommandHeard
<1>1. IInv => SpacedCommandHeard
  BY DEF IInv
<1> QED
  BY <1>1, Inductive, PTL

\* The ship carries out typed commands only, each turn's order at most once and
\* never an older command after a newer one.
THEOREM InSequence == Spec => []OrdersInSequence
<1>1. IInv => OrdersInSequence
  <2> SUFFICES ASSUME IInv, NEW i \in DOMAIN executed, NEW j \in DOMAIN executed
               PROVE  /\ i < j => executed[i] < executed[j]
                      /\ i <= j => \E m, n \in DOMAIN typed :
                           /\ m <= n
                           /\ heard[executed[i]] = typed[m] /\ heard[executed[j]] = typed[n]
    BY DEF OrdersInSequence
  <2>1. i < j => executed[i] < executed[j]
    BY DEF IInv, TurnsInOrder
  <2>2. /\ executed[i] \in DOMAIN heard /\ executed[j] \in DOMAIN heard
        /\ executed[i] \in Int /\ executed[j] \in Int /\ i \in Int /\ j \in Int
    BY SMTT(60) DEF IInv, TypeOK
  <2>3. i <= j => executed[i] <= executed[j]
    BY <2>1, <2>2
  <2> QED
    BY <2>1, <2>2, <2>3 DEF IInv, OrdersHaveText, HeardInOrder
<1> QED
  BY <1>1, Inductive, PTL

\* What is on record as a dispatched order was carried out by the ship.
THEOREM DispatchTrue == Spec => []DispatchedWasExecuted
<1>1. IInv => DispatchedWasExecuted
  BY DEF IInv
<1> QED
  BY <1>1, Inductive, PTL
=============================================================================
