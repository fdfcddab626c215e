--------------------------------- MODULE Chat ---------------------------------
(***************************************************************************)
(* The chat of one phase (application/chat, KOSMOAgent.execute_conversation*)
(* and its stream, chat_repo.py): a turn reads the history of its thread,  *)
(* saves the question, asks the LLM, applies the suggested change to the   *)
(* document at once, enqueues the evaluation of what it changed and saves  *)
(* the reply with its card.  Every step is a transaction of its own and    *)
(* turns run concurrently.  A message is its turn, role and size; a turn   *)
(* suggests one change at most; the document is the set of turns whose     *)
(* change is in it.                                                        *)
(***************************************************************************)
EXTENDS Naturals, FiniteSets, Sequences, SequencesExt, FiniteSetsExt

CONSTANTS Turns, Threads, NoThread,
          QuestionSize, ReplySizes,   \* sizes of messages, in parts of the budget
          Window,                     \* _MAX_HISTORY_WINDOW (20 messages)
          Budget                      \* _MAX_HISTORY_TOKENS (6000 tokens)

VARIABLES
  threads,    \* rows of chat_sessions
  messages,   \* rows of chat_messages, by created_at
  document,   \* turns whose change is in the document
  turn,       \* turn[t]: how far it got
  evaluated   \* turns whose evaluation was enqueued

chatVars == <<threads, messages, document, turn, evaluated>>

Unsaid == [at |-> "idle", stream |-> FALSE, thread |-> NoThread, prompt |-> <<>>, read |-> {}, cards |-> "none"]
Message(t, role, size, cards) ==
  [turn |-> t, role |-> role, size |-> size, cards |-> cards, thread |-> turn[t].thread]

ChatInit ==
  /\ threads = {} /\ messages = <<>> /\ document = {} /\ evaluated = {}
  /\ turn = [t \in Turns |-> Unsaid]

GoesTo(t, at) == turn' = [turn EXCEPT ![t].at = at]
-----------------------------------------------------------------------------
(***************************************************************************)
(* What of the history reaches the prompt: old messages with a change,     *)
(* then the last ones, each list from its oldest while the budget lasts.   *)
(***************************************************************************)
SizeOf(ms) == FoldSeq(LAMBDA m, n : n + m.size, 0, ms)
Fitting(ms, room) == SubSeq(ms, 1, Max({n \in 0 .. Len(ms) : SizeOf(SubSeq(ms, 1, n)) <= room}))

FormatHistory(ms) ==
  LET cut == IF Len(ms) <= Window THEN 0 ELSE Len(ms) - Window
      decisions == Fitting(SelectSeq(SubSeq(ms, 1, cut), LAMBDA m : m.cards # "none"), Budget)
      recent == Fitting(SubSeq(ms, cut + 1, Len(ms)), Budget - SizeOf(decisions))
  IN  decisions \o recent

\* by session when the client names one, otherwise all those of the context
History(t) == IF turn[t].thread = NoThread THEN messages
              ELSE SelectSeq(messages, LAMBDA m : m.thread = turn[t].thread)
-----------------------------------------------------------------------------
(***************************************************************************)
(* Threads.  chat_messages has no foreign key on its thread.               *)
(***************************************************************************)
CreateThread(th) ==
  /\ th \notin threads /\ \A t \in Turns : turn[t].thread # th
  /\ threads' = threads \cup {th}
  /\ UNCHANGED <<messages, document, turn, evaluated>>

DeleteThread(th) ==
  /\ th \in threads
  /\ threads' = threads \ {th}
  /\ LET kept == {i \in DOMAIN messages : messages[i].thread # th}
     IN  \E nth \in [1 .. Cardinality(kept) -> kept] :   \* in their order
           /\ \A i, j \in DOMAIN nth : i < j => nth[i] < nth[j]
           /\ messages' = [i \in DOMAIN nth |-> messages[nth[i]]]
  /\ UNCHANGED <<document, turn, evaluated>>
-----------------------------------------------------------------------------
(***************************************************************************)
(* A turn.                                                                 *)
(***************************************************************************)
\* the endpoints of the phases, with a stream or without
Begins(t, th, stream) ==
  /\ turn[t].at = "idle"
  /\ turn' = [turn EXCEPT ![t].at = "start", ![t].thread = th, ![t].stream = stream]
  /\ UNCHANGED <<threads, messages, document, evaluated>>

StartTurn(t, th) == Begins(t, th, FALSE)
StartStream(t, th) == Begins(t, th, TRUE)

\* the keywords are those of another phase
Redirected(t) ==
  /\ turn[t].at = "start"
  /\ GoesTo(t, "ended")
  /\ UNCHANGED <<threads, messages, document, evaluated>>

ReadHistory(t) ==
  /\ turn[t].at = "start"
  /\ turn' = [turn EXCEPT ![t].at = "question",
                          ![t].prompt = Append(History(t), Message(t, "user", QuestionSize, "none"))]
  /\ UNCHANGED <<threads, messages, document, evaluated>>

SaveQuestion(t) ==
  /\ turn[t].at = "question"
  /\ messages' = Append(messages, Message(t, "user", QuestionSize, "none"))
  /\ turn' = [turn EXCEPT ![t].at = "llm", ![t].prompt = FormatHistory(@)]
  /\ UNCHANGED <<threads, document, evaluated>>

\* without a stream the failures of the LLM are an answer without a change
Answered(t) ==
  /\ turn[t].at = "llm"
  /\ \/ GoesTo(t, "reply")
     \/ turn' = [turn EXCEPT ![t].at = "guard", ![t].cards = "refused"]
  /\ UNCHANGED <<threads, messages, document, evaluated>>

StreamFails(t) ==
  /\ turn[t].at = "llm" /\ turn[t].stream
  /\ messages' = Append(messages, Message(t, "assistant", 1, "none"))
  /\ GoesTo(t, "ended")
  /\ UNCHANGED <<threads, document, evaluated>>

\* the client of a stream leaves: its task is cancelled wherever it waits
Disconnect(t) ==
  /\ turn[t].at \in {"llm", "guard", "read", "write", "enqueue", "reply"} /\ turn[t].stream
  /\ GoesTo(t, "ended")
  /\ UNCHANGED <<threads, messages, document, evaluated>>

\* a contradiction with the documents upstream refuses every suggestion; an
\* evaluation that fails does not
UpstreamGuard(t) ==
  /\ turn[t].at = "guard"
  /\ GoesTo(t, "read") \/ GoesTo(t, "reply")
  /\ UNCHANGED <<threads, messages, document, evaluated>>

\* the terms are forbidden, or the fragment is not in the document
ReadFragment(t) ==
  /\ turn[t].at = "read"
  /\ \/ turn' = [turn EXCEPT ![t].at = "write", ![t].read = document]
     \/ GoesTo(t, "reply")
  /\ UNCHANGED <<threads, messages, document, evaluated>>

Mutant_RepliesFirst(t) ==
  /\ turn[t].at = "write"
  /\ document' = turn[t].read \cup {t}
  /\ turn' = [turn EXCEPT ![t].at = "enqueue", ![t].cards = "applied"]
  /\ messages' = Append(messages, Message(t, "assistant", 1, "applied"))
  /\ UNCHANGED <<threads, evaluated>>
ApplySuggestion(t) ==
  /\ turn[t].at = "write"
  /\ document' = turn[t].read \cup {t}
  /\ turn' = [turn EXCEPT ![t].at = "enqueue", ![t].cards = "applied"]
  /\ UNCHANGED <<threads, messages, evaluated>>

TriggerDownstream(t) ==
  /\ turn[t].at = "enqueue"
  /\ \/ evaluated' = evaluated \cup {t} /\ GoesTo(t, "reply")
     \/ GoesTo(t, "ended") /\ UNCHANGED evaluated
  /\ UNCHANGED <<threads, messages, document>>

SaveReply(t) ==
  /\ turn[t].at = "reply"
  /\ \E size \in ReplySizes : messages' = Append(messages, Message(t, "assistant", size, turn[t].cards))
  /\ GoesTo(t, "ended")
  /\ UNCHANGED <<threads, document, evaluated>>

ChatNext ==
  \/ \E th \in Threads : CreateThread(th) \/ DeleteThread(th)
  \/ \E t \in Turns :
       \/ \E th \in threads \cup {NoThread} : StartTurn(t, th) \/ StartStream(t, th)
       \/ Redirected(t) \/ ReadHistory(t) \/ SaveQuestion(t) \/ Answered(t) \/ StreamFails(t)
       \/ Disconnect(t) \/ UpstreamGuard(t) \/ ReadFragment(t) \/ ApplySuggestion(t)
       \/ TriggerDownstream(t) \/ SaveReply(t)

ChatSpec == ChatInit /\ [][ChatNext]_chatVars
-----------------------------------------------------------------------------
(***************************************************************************)
(* A change the history shows as applied has its evaluation against the    *)
(* phases downstream in the outbox, whatever failed in its turn and        *)
(* wherever its client left (the cards are saved last, _finalize).         *)
(***************************************************************************)
ShownIsEvaluated ==
  \A i \in 1 .. Len(messages) : messages[i].cards = "applied" => messages[i].turn \in evaluated
=============================================================================
