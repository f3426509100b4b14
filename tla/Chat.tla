-------------------------------- MODULE Chat --------------------------------
(***************************************************************************)
(* AIManager and ChatView: questions to a local language model.  The tap on *)
(* the send button starts a task; AIManager.sendMessage runs off the main   *)
(* actor and enters it for each change of what the view shows, so tasks of  *)
(* several questions interleave between those turns.  The model (Kuzco) is  *)
(* external: it becomes ready or not, and a prediction is a stream of       *)
(* tokens that ends or fails.                                               *)
(***************************************************************************)
EXTENDS Naturals, Sequences

CONSTANTS Questions,  \* messages of the user, the bound on a behaviour
          MaxTokens   \* tokens of an answer, at most

ASSUME MaxTokensNat == MaxTokens \in Nat

VARIABLES
  model,            \* "loading", "ready" (isModelLoaded) or "failed"
  isProcessing,     \* AIManager.isProcessing
  currentResponse,  \* AIManager.currentResponse, the parts it consists of
  chatMessages,     \* AIManager.chatMessages
  stage,            \* stage[q]: where the task of question q is
  tokens,           \* tokens[q]: how many tokens have come for q (history)
  crowded,          \* questions in work together with another (history)
  cleared           \* questions in work when the chat was cleared (history)

shownVars == <<isProcessing, currentResponse, chatMessages>>
historyVars == <<tokens, crowded, cleared>>
vars == <<model, shownVars, stage, historyVars>>

Working == {"search", "checkModel", "noModel", "predict", "stream", "catch",
            "finalize"}
Stages == Working \union {"typed", "task", "begin", "dropped", "done"}

InWork == {q \in Questions : stage[q] \in Working}

(* A part of an answer: a token, or the wording of an error. *)
Parts == Questions \X {"token", "error", "noModel"}
Question(q) == [role |-> "user", of |-> q, content |-> <<>>]
Answer(q, content) == [role |-> "assistant", of |-> q, content |-> content]

Init ==
  /\ model = "loading"
  /\ isProcessing = FALSE
  /\ currentResponse = <<>>
  /\ chatMessages = <<>>
  /\ stage = [q \in Questions |-> "typed"]
  /\ tokens = [q \in Questions |-> 0]
  /\ crowded = {} /\ cleared = {}

Advance(q, from, to) == stage[q] = from /\ stage' = [stage EXCEPT ![q] = to]

----------------------------------------------------------------------------
(* loadModel: the file is missing or invalid, the load fails, or its stream *)
(* ends without "ready"; or the model becomes ready.  It runs once.         *)
LoadModel ==
  /\ model = "loading"
  /\ model' \in {"ready", "failed"}
  /\ UNCHANGED <<shownVars, stage, historyVars>>

(* ChatView.sendMessage, on the main actor. *)
SendMessage(q) ==
  /\ ~isProcessing
  /\ Advance(q, "typed", "task")
  /\ UNCHANGED <<model, shownVars, historyVars>>

(* The guard of AIManager.sendMessage reads isProcessing once more, off the *)
(* main actor; a question that fails it is gone.                            *)
CheckProcessing(q) ==
  /\ Advance(q, "task", IF isProcessing THEN "dropped" ELSE "begin")
  /\ UNCHANGED <<model, shownVars, historyVars>>

(* Fault: the question is shown with its answer, not before. *)
BeginUnseen(q) ==
  /\ Advance(q, "begin", "search")
  /\ isProcessing' = TRUE
  /\ currentResponse' = <<>>
  /\ crowded' = IF InWork = {} THEN crowded ELSE crowded \union InWork \union {q}
  /\ UNCHANGED <<model, chatMessages, tokens, cleared>>

Begin(q) ==
  /\ Advance(q, "begin", "search")
  /\ chatMessages' = Append(chatMessages, Question(q))
  /\ isProcessing' = TRUE
  /\ currentResponse' = <<>>
  /\ crowded' = IF InWork = {} THEN crowded ELSE crowded \union InWork \union {q}
  /\ UNCHANGED <<model, tokens, cleared>>

(* searchTranscripts changes nothing that is shown. *)
SearchTranscripts(q) ==
  Advance(q, "search", "checkModel") /\ UNCHANGED <<model, shownVars, historyVars>>

----------------------------------------------------------------------------
(* generateResponse. *)

(* Fault: the answer waits for the model. *)
WaitForModel(q) ==
  /\ model = "ready" /\ Advance(q, "checkModel", "predict")
  /\ UNCHANGED <<model, shownVars, historyVars>>

CheckModel(q) ==
  /\ Advance(q, "checkModel", IF model = "ready" THEN "predict" ELSE "noModel")
  /\ UNCHANGED <<model, shownVars, historyVars>>

(* What both ends of generateResponse do in one turn of the main actor.     *)
(* Fault: currentResponse is left for the next question to clear.           *)
ShowWithoutReset(q, content) ==
  /\ chatMessages' = Append(chatMessages, Answer(q, content))
  /\ isProcessing' = FALSE
  /\ UNCHANGED currentResponse

Show(q, content) ==
  /\ chatMessages' = Append(chatMessages, Answer(q, content))
  /\ isProcessing' = FALSE
  /\ currentResponse' = <<>>

AnswerWithoutModel(q) ==
  /\ Advance(q, "noModel", "done")
  /\ Show(q, << <<q, "noModel">> >>)
  /\ UNCHANGED <<model, historyVars>>

Predict(q) ==
  /\ \/ Advance(q, "predict", "stream")
     \/ Advance(q, "predict", "catch")
  /\ UNCHANGED <<model, shownVars, historyVars>>

Token(q) ==
  /\ tokens[q] < MaxTokens
  /\ Advance(q, "stream", "stream")
  /\ currentResponse' = Append(currentResponse, <<q, "token">>)
  /\ tokens' = [tokens EXCEPT ![q] = @ + 1]
  /\ UNCHANGED <<model, isProcessing, chatMessages, crowded, cleared>>

EndStream(q) ==
  /\ \/ Advance(q, "stream", "finalize")
     \/ Advance(q, "stream", "catch")
  /\ UNCHANGED <<model, shownVars, historyVars>>

(* The catch block replaces what has come so far by the error.  The fault:  *)
(* the error is added to it.                                                *)
AddError(q) ==
  /\ Advance(q, "catch", "finalize")
  /\ currentResponse' = Append(currentResponse, <<q, "error">>)
  /\ UNCHANGED <<model, isProcessing, chatMessages, historyVars>>

ShowError(q) ==
  /\ Advance(q, "catch", "finalize")
  /\ currentResponse' = << <<q, "error">> >>
  /\ UNCHANGED <<model, isProcessing, chatMessages, historyVars>>

FinalizeResponse(q) ==
  /\ Advance(q, "finalize", "done")
  /\ Show(q, currentResponse)
  /\ UNCHANGED <<model, historyVars>>

----------------------------------------------------------------------------
(* The button of the view: the messages go, the work goes on. *)
ClearChat ==
  /\ chatMessages # <<>>
  /\ chatMessages' = <<>>
  /\ cleared' = cleared \union InWork
  /\ UNCHANGED <<model, isProcessing, currentResponse, stage, tokens, crowded>>

Work(q) ==
  \/ CheckProcessing(q) \/ Begin(q) \/ SearchTranscripts(q) \/ CheckModel(q)
  \/ AnswerWithoutModel(q) \/ Predict(q) \/ EndStream(q) \/ ShowError(q)
  \/ FinalizeResponse(q)

Next ==
  \/ LoadModel
  \/ \E q \in Questions : SendMessage(q) \/ Token(q) \/ Work(q)
  \/ ClearChat

(* A task goes on, and a stream of tokens comes to its end: the model       *)
(* produces a bounded number of them.  The model may load for ever.         *)
Fairness == \A q \in Questions : WF_vars(Work(q))

Spec == Init /\ [][Next]_vars
FairSpec == Spec /\ Fairness

----------------------------------------------------------------------------
Messages == {Question(q) : q \in Questions}
              \union [role : {"assistant"}, of : Questions, content : Seq(Parts)]

(* The types; and the flag and the response of an idle chat: no question in *)
(* work means that no indicator turns and no rest of an answer is shown,    *)
(* whichever of several answers came last.                                  *)
TypeOK ==
  /\ model \in {"loading", "ready", "failed"}
  /\ isProcessing \in BOOLEAN
  /\ currentResponse \in Seq(Parts)
  /\ chatMessages \in Seq(Messages)
  /\ stage \in [Questions -> Stages]
  /\ tokens \in [Questions -> 0..MaxTokens]
  /\ crowded \in SUBSET Questions /\ cleared \in SUBSET Questions
  /\ InWork = {} => ~isProcessing /\ currentResponse = <<>>

Places(role, q) ==
  {i \in DOMAIN chatMessages : chatMessages[i].role = role
                               /\ chatMessages[i].of = q}

(* The chat reads as a dialogue, whatever tasks and clicks on "Clear Chat"  *)
(* interleave: an answer in it comes after its question, unless the chat    *)
(* was cleared in between; and a question that stands in it and is no       *)
(* longer in work has its answer.                                           *)
AnswersFollowTheirQuestions ==
  \A q \in Questions :
    /\ \A j \in Places("assistant", q) :
         q \in cleared \/ \E i \in Places("user", q) : i < j
    /\ Places("user", q) # {} /\ stage[q] = "done" =>
         Places("assistant", q) # {}

(* The answer to a question that was in work alone is whole and its own:    *)
(* all the tokens that came for it and no others, or one error.             *)
LoneAnswerIsWhole ==
  \A q \in Questions \ crowded : \A i \in Places("assistant", q) :
    LET content == chatMessages[i].content IN
    \/ content \in {<< <<q, "error">> >>, << <<q, "noModel">> >>}
    \/ content = [j \in 1..tokens[q] |-> <<q, "token">>]

(* The send button does not stay disabled: also where the model never loads *)
(* and a prediction throws, the flag is reset.                              *)
ProcessingEnds == isProcessing ~> ~isProcessing
=============================================================================
