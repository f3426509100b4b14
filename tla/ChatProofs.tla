----------------------------- MODULE ChatProofs -----------------------------
(***************************************************************************)
(* Proofs about Chat, for any number of questions that interleave and of    *)
(* tokens in an answer.                                                     *)
(***************************************************************************)
EXTENDS Chat, TLAPS

Unbegun == {"typed", "task", "begin", "dropped"}
Prepared == {"search", "checkModel", "noModel", "predict"}
Tokens(q) == [j \in 1..tokens[q] |-> <<q, "token">>]

(* A question in work stands in the chat or was cleared from it; only one   *)
(* that is done has an answer.                                              *)
Told(q) ==
  /\ stage[q] \in Working => q \in cleared \/ Places("user", q) # {}
  /\ Places("assistant", q) # {} => stage[q] = "done"

(* A question that never shared the chat is the only one in work, and the   *)
(* response that is shown is its own.                                       *)
Alone(q) ==
  /\ stage[q] \in Unbegun => tokens[q] = 0
  /\ q \in InWork \ crowded =>
       /\ InWork = {q}
       /\ stage[q] \in Prepared => tokens[q] = 0 /\ currentResponse = <<>>
       /\ stage[q] = "stream" => currentResponse = Tokens(q)
       /\ stage[q] = "finalize" =>
            currentResponse \in {Tokens(q), << <<q, "error">> >>}

ChatInv == /\ TypeOK /\ AnswersFollowTheirQuestions /\ LoneAnswerIsWhole
           /\ (\A q \in Questions : Told(q) /\ Alone(q))

-----------------------------------------------------------------------------
(* What a step does to the stages, and a message to the places of others.   *)
LEMMA StageStep ==
  ASSUME TypeOK, NEW q \in Questions, NEW from \in Stages, NEW to \in Stages,
         Advance(q, from, to)
  PROVE  /\ stage' \in [Questions -> Stages]
         /\ stage[q] = from /\ stage'[q] = to
         /\ \A p \in Questions \ {q} : stage'[p] = stage[p]
         /\ InWork' = IF to \in Working THEN InWork \union {q} ELSE InWork \ {q}
BY DEF TypeOK, Advance, InWork

LEMMA AppendPlaces ==
  ASSUME chatMessages \in Seq(Messages), NEW m \in Messages,
         chatMessages' = Append(chatMessages, m),
         NEW role, NEW q
  PROVE  /\ chatMessages' \in Seq(Messages)
         /\ Places(role, q)' = Places(role, q) \union
              (IF m.role = role /\ m.of = q THEN {Len(chatMessages) + 1} ELSE {})
         /\ chatMessages'[Len(chatMessages) + 1] = m
         /\ Len(chatMessages) \in Nat
         /\ Places(role, q) \subseteq 1..Len(chatMessages)
         /\ \A i \in Places(role, q) : chatMessages'[i] = chatMessages[i]
BY DEF Places

(* A step that says nothing, of a question that is not done by it.          *)
LEMMA QuietKept ==
  ASSUME ChatInv, NEW q \in Questions, NEW from \in Stages \ {"done"},
         NEW to \in Stages \ {"done"}, Advance(q, from, to),
         to \in Working => from \in Working,
         UNCHANGED <<chatMessages, crowded, cleared>>,
         \A p \in Questions \ {q} : tokens'[p] = tokens[p]
  PROVE  /\ AnswersFollowTheirQuestions' /\ LoneAnswerIsWhole'
         /\ \A p \in Questions : Told(p)'
<1>1. /\ stage[q] = from /\ stage'[q] = to
      /\ \A p \in Questions \ {q} : stage'[p] = stage[p]
  BY StageStep DEF ChatInv
<1>2. \A role, p : Places(role, p)' = Places(role, p)
  BY DEF Places
<1>3. Told(q) /\ Places("assistant", q) = {}
  BY <1>1 DEF ChatInv, Told
<1>4. AnswersFollowTheirQuestions'
  BY <1>1, <1>2 DEF ChatInv, AnswersFollowTheirQuestions
<1>5. LoneAnswerIsWhole'
  BY <1>1, <1>2, <1>3 DEF ChatInv, LoneAnswerIsWhole
<1>6. \A p \in Questions : Told(p)'
  BY <1>1, <1>2, <1>3 DEF ChatInv, Told
<1> QED
  BY <1>4, <1>5, <1>6

-----------------------------------------------------------------------------
LEMMA ChatInitHolds == Init => ChatInv
<1> SUFFICES ASSUME Init PROVE ChatInv
  OBVIOUS
<1> USE DEF Init
<1>1. TypeOK
  <2>1. "typed" \in Stages /\ 0 \in 0..MaxTokens
    BY MaxTokensNat DEF Stages
  <2>2. currentResponse \in Seq(Parts) /\ chatMessages \in Seq(Messages)
    OBVIOUS
  <2> QED
    BY <2>1, <2>2 DEF TypeOK
<1>2. AnswersFollowTheirQuestions /\ LoneAnswerIsWhole
  BY DEF AnswersFollowTheirQuestions, LoneAnswerIsWhole, Places
<1>3. \A q \in Questions : Told(q) /\ Alone(q)
  <2> SUFFICES ASSUME NEW q \in Questions PROVE Told(q) /\ Alone(q)
    OBVIOUS
  <2>1. stage[q] = "typed" /\ tokens[q] = 0 /\ q \notin InWork
    BY DEF InWork, Working
  <2>2. \A role : Places(role, q) = {}
    BY DEF Places
  <2> QED
    BY <2>1, <2>2 DEF Told, Alone, Working
<1> QED
  BY <1>1, <1>2, <1>3 DEF ChatInv

LEMMA LoadModelKept ==
  ASSUME ChatInv, LoadModel
  PROVE  ChatInv'
<1> USE DEF LoadModel, shownVars, historyVars
<1>1. TypeOK'
  BY DEF ChatInv, TypeOK, InWork
<1>2. AnswersFollowTheirQuestions' /\ LoneAnswerIsWhole'
  BY DEF ChatInv, AnswersFollowTheirQuestions, LoneAnswerIsWhole, Places
<1>3. \A p \in Questions : Told(p)' /\ Alone(p)'
  BY DEF ChatInv, Told, Alone, Places, InWork, Tokens
<1> QED
  BY <1>1, <1>2, <1>3 DEF ChatInv

(* Before a question is in work, and between the stages that leave what is  *)
(* shown alone.                                                             *)
LEMMA UnbegunKept ==
  ASSUME ChatInv, NEW q \in Questions, SendMessage(q) \/ CheckProcessing(q)
  PROVE  ChatInv'
<1>1. PICK from \in Unbegun \ {"begin"}, to \in Unbegun \ {"typed"} : Advance(q, from, to)
  BY DEF SendMessage, CheckProcessing, Unbegun
<1>2. UNCHANGED <<model, isProcessing, currentResponse, chatMessages, tokens, crowded,
                  cleared>>
  BY DEF SendMessage, CheckProcessing, shownVars, historyVars
<1>3. from \in Stages \ {"done"} /\ to \in Stages \ {"done"}
      /\ from \notin Working /\ to \notin Working
  BY DEF Unbegun, Stages, Working
<1>4. /\ stage' \in [Questions -> Stages] /\ stage[q] = from /\ stage'[q] = to
      /\ \A p \in Questions \ {q} : stage'[p] = stage[p]
      /\ InWork' = InWork
  BY <1>1, <1>3, StageStep DEF ChatInv, InWork
<1>5. TypeOK'
  BY <1>2, <1>4 DEF ChatInv, TypeOK
<1>6. /\ AnswersFollowTheirQuestions' /\ LoneAnswerIsWhole'
      /\ \A p \in Questions : Told(p)'
  BY <1>1, <1>2, <1>3, QuietKept
<1>7. \A p \in Questions : Alone(p)'
  BY <1>2, <1>3, <1>4 DEF ChatInv, Alone, Tokens, InWork, Unbegun
<1> QED
  BY <1>5, <1>6, <1>7 DEF ChatInv

LEMMA QuietWorkKept ==
  ASSUME ChatInv, NEW q \in Questions,
         SearchTranscripts(q) \/ CheckModel(q) \/ Predict(q) \/ EndStream(q)
  PROVE  ChatInv'
<1>1. PICK from \in Prepared \union {"stream"},
           to \in {"checkModel", "noModel", "predict", "stream", "catch", "finalize"} :
        /\ Advance(q, from, to)
        /\ to \in Prepared => from \in Prepared
        /\ to = "stream" => from = "predict"
        /\ to = "finalize" => from = "stream"
  <2>1. ASSUME SearchTranscripts(q)
        PROVE  Advance(q, "search", "checkModel")
    BY <2>1 DEF SearchTranscripts
  <2>2. ASSUME CheckModel(q)
        PROVE  Advance(q, "checkModel", "predict") \/ Advance(q, "checkModel", "noModel")
    BY <2>2 DEF CheckModel
  <2>3. ASSUME Predict(q)
        PROVE  Advance(q, "predict", "stream") \/ Advance(q, "predict", "catch")
    BY <2>3 DEF Predict
  <2>4. ASSUME EndStream(q)
        PROVE  Advance(q, "stream", "finalize") \/ Advance(q, "stream", "catch")
    BY <2>4 DEF EndStream
  <2> QED
    BY <2>1, <2>2, <2>3, <2>4 DEF Prepared
<1>2. UNCHANGED <<model, isProcessing, currentResponse, chatMessages, tokens, crowded,
                  cleared>>
  BY DEF SearchTranscripts, CheckModel, Predict, EndStream, shownVars, historyVars
<1>3. from \in Stages \ {"done"} /\ to \in Stages \ {"done"}
      /\ from \in Working /\ to \in Working
  BY DEF Prepared, Stages, Working
<1>4. /\ stage' \in [Questions -> Stages] /\ stage[q] = from /\ stage'[q] = to
      /\ \A p \in Questions \ {q} : stage'[p] = stage[p]
      /\ InWork' = InWork
  BY <1>1, <1>3, StageStep DEF ChatInv, InWork
<1>5. TypeOK'
  BY <1>2, <1>4 DEF ChatInv, TypeOK
<1>6. /\ AnswersFollowTheirQuestions' /\ LoneAnswerIsWhole'
      /\ \A p \in Questions : Told(p)'
  BY <1>1, <1>2, <1>3, QuietKept
<1>7. ASSUME NEW p \in Questions
      PROVE  Alone(p)'
  <2>1. CASE p # q
    BY <1>2, <1>4, <2>1 DEF ChatInv, Alone, Tokens
  <2>2. CASE p = q
    <3>1. stage'[q] \notin Unbegun /\ q \in InWork
      BY <1>3, <1>4 DEF Unbegun, Working, InWork
    <3>2. tokens[q] = 0 /\ currentResponse = <<>> => currentResponse = Tokens(q)
      BY DEF Tokens
    <3> QED
      BY <1>1, <1>2, <1>4, <2>2, <3>1, <3>2 DEF ChatInv, Alone, Tokens, Prepared
  <2> QED
    BY <2>1, <2>2
<1> QED
  BY <1>5, <1>6, <1>7 DEF ChatInv

(* A token of a question that is alone extends its own response.            *)
LEMMA TokenKept ==
  ASSUME ChatInv, NEW q \in Questions, Token(q)
  PROVE  ChatInv'
<1>1. /\ Advance(q, "stream", "stream") /\ tokens[q] < MaxTokens
      /\ currentResponse' = Append(currentResponse, <<q, "token">>)
      /\ tokens' = [tokens EXCEPT ![q] = @ + 1]
      /\ UNCHANGED <<model, isProcessing, chatMessages, crowded, cleared>>
  BY DEF Token
<1>2. /\ "stream" \in Stages \ {"done"} /\ "stream" \in Working
      /\ "stream" \notin Unbegun /\ "stream" \notin Prepared
  BY DEF Stages, Working, Unbegun, Prepared
<1>3. /\ stage' \in [Questions -> Stages] /\ stage[q] = "stream" /\ stage'[q] = "stream"
      /\ \A p \in Questions \ {q} : stage'[p] = stage[p]
      /\ InWork' = InWork /\ q \in InWork
  BY <1>1, <1>2, StageStep DEF ChatInv, InWork
<1>4. /\ tokens' \in [Questions -> 0..MaxTokens] /\ tokens[q] \in Nat
      /\ tokens'[q] = tokens[q] + 1
      /\ \A p \in Questions \ {q} : tokens'[p] = tokens[p]
  BY <1>1, MaxTokensNat DEF ChatInv, TypeOK
<1>5. TypeOK'
  <2>1. <<q, "token">> \in Parts
    BY DEF Parts
  <2> QED
    BY <1>1, <1>3, <1>4, <2>1 DEF ChatInv, TypeOK
<1>6. /\ AnswersFollowTheirQuestions' /\ LoneAnswerIsWhole'
      /\ \A p \in Questions : Told(p)'
  BY <1>1, <1>2, <1>4, QuietKept
<1>7. ASSUME NEW p \in Questions
      PROVE  Alone(p)'
  <2>1. CASE p # q
    BY <1>1, <1>3, <1>4, <2>1 DEF ChatInv, Alone
  <2>2. CASE p = q
    <3>1. currentResponse = Tokens(q) => currentResponse' = Tokens(q)'
      BY <1>1, <1>4 DEF Tokens
    <3> QED
      BY <1>1, <1>2, <1>3, <2>2, <3>1 DEF ChatInv, Alone
  <2> QED
    BY <2>1, <2>2
<1> QED
  BY <1>5, <1>6, <1>7 DEF ChatInv

LEMMA ShowErrorKept ==
  ASSUME ChatInv, NEW q \in Questions, ShowError(q)
  PROVE  ChatInv'
<1>1. /\ Advance(q, "catch", "finalize")
      /\ currentResponse' = << <<q, "error">> >>
      /\ UNCHANGED <<model, isProcessing, chatMessages, tokens, crowded, cleared>>
  BY DEF ShowError, historyVars
<1>2. /\ {"catch", "finalize"} \subseteq Stages \ {"done"}
      /\ {"catch", "finalize"} \subseteq Working
      /\ "finalize" \notin Unbegun /\ "finalize" \notin Prepared
  BY DEF Stages, Working, Unbegun, Prepared
<1>3. /\ stage' \in [Questions -> Stages] /\ stage[q] = "catch" /\ stage'[q] = "finalize"
      /\ \A p \in Questions \ {q} : stage'[p] = stage[p]
      /\ InWork' = InWork /\ q \in InWork
  BY <1>1, <1>2, StageStep DEF ChatInv, InWork
<1>4. TypeOK'
  <2>1. <<q, "error">> \in Parts
    BY DEF Parts
  <2> QED
    BY <1>1, <1>3, <2>1 DEF ChatInv, TypeOK
<1>5. /\ AnswersFollowTheirQuestions' /\ LoneAnswerIsWhole'
      /\ \A p \in Questions : Told(p)'
  BY <1>1, <1>2, QuietKept
<1>6. ASSUME NEW p \in Questions
      PROVE  Alone(p)'
  BY <1>1, <1>2, <1>3 DEF ChatInv, Alone, Tokens
<1> QED
  BY <1>4, <1>5, <1>6 DEF ChatInv

(* A question enters the chat: whoever it meets is crowded.                 *)
LEMMA BeginKept ==
  ASSUME ChatInv, NEW q \in Questions, Begin(q)
  PROVE  ChatInv'
<1>1. /\ Advance(q, "begin", "search")
      /\ chatMessages' = Append(chatMessages, Question(q))
      /\ isProcessing' = TRUE /\ currentResponse' = <<>>
      /\ crowded' = IF InWork = {} THEN crowded ELSE crowded \union InWork \union {q}
      /\ UNCHANGED <<model, tokens, cleared>>
  BY DEF Begin
<1>2. /\ "begin" \in Stages /\ "search" \in Stages /\ "search" \in Working
      /\ "begin" \in Unbegun /\ "begin" \notin Working
      /\ "search" \notin Unbegun /\ "search" \in Prepared
  BY DEF Stages, Working, Unbegun, Prepared
<1>3. /\ stage' \in [Questions -> Stages] /\ stage[q] = "begin" /\ stage'[q] = "search"
      /\ \A p \in Questions \ {q} : stage'[p] = stage[p]
      /\ InWork' = InWork \union {q} /\ q \notin InWork
  BY <1>1, <1>2, StageStep DEF ChatInv, InWork
<1>4. Question(q) \in Messages /\ Question(q).role = "user" /\ Question(q).of = q
  BY DEF Messages, Question
<1>5. /\ chatMessages' \in Seq(Messages)
      /\ \A p : Places("assistant", p)' = Places("assistant", p)
      /\ \A p : p # q => Places("user", p)' = Places("user", p)
      /\ Places("user", q)' # {}
      /\ \A p : Places("user", p) \subseteq Places("user", p)'
      /\ \A p : \A i \in Places("assistant", p) : chatMessages'[i] = chatMessages[i]
  <2>1. chatMessages \in Seq(Messages)
    BY DEF ChatInv, TypeOK
  <2>2. \A role, p : Places(role, p)' = Places(role, p) \union
          (IF "user" = role /\ q = p THEN {Len(chatMessages) + 1} ELSE {})
    BY <1>1, <1>4, <2>1, AppendPlaces
  <2>3. /\ chatMessages' \in Seq(Messages)
        /\ \A role, p : \A i \in Places(role, p) : chatMessages'[i] = chatMessages[i]
    BY <1>1, <1>4, <2>1, AppendPlaces
  <2> QED
    BY <2>2, <2>3
<1>6. InWork \subseteq Questions
  BY DEF InWork
<1>7. TypeOK'
  BY <1>1, <1>3, <1>5, <1>6 DEF ChatInv, TypeOK
<1>8. AnswersFollowTheirQuestions'
  BY <1>1, <1>3, <1>5 DEF ChatInv, AnswersFollowTheirQuestions
<1>9. LoneAnswerIsWhole'
  <2> SUFFICES ASSUME NEW p \in Questions \ crowded', NEW i \in Places("assistant", p)'
               PROVE  chatMessages'[i].content \in
                        {Tokens(p), << <<p, "error">> >>, << <<p, "noModel">> >>}
    BY <1>1 DEF LoneAnswerIsWhole, Tokens
  <2>1. p \notin crowded /\ i \in Places("assistant", p)
    BY <1>1, <1>5
  <2> QED
    BY <1>5, <2>1 DEF ChatInv, LoneAnswerIsWhole, Tokens
<1>10. ASSUME NEW p \in Questions
       PROVE  Told(p)'
  BY <1>1, <1>2, <1>3, <1>5 DEF ChatInv, Told
<1>11. ASSUME NEW p \in Questions
       PROVE  Alone(p)'
  <2>1. CASE InWork = {}
    BY <1>1, <1>2, <1>3, <2>1 DEF ChatInv, Alone
  <2>2. CASE InWork # {}
    BY <1>1, <1>2, <1>3, <2>2 DEF ChatInv, Alone
  <2> QED
    BY <2>1, <2>2
<1> QED
  BY <1>7, <1>8, <1>9, <1>10, <1>11 DEF ChatInv

(* An answer is shown: if its question was alone it is whole.               *)
LEMMA ShowKept ==
  ASSUME ChatInv, NEW q \in Questions, NEW from \in Working,
         NEW content \in Seq(Parts), Advance(q, from, "done"), Show(q, content),
         UNCHANGED <<model, tokens, crowded, cleared>>,
         q \notin crowded =>
           content \in {Tokens(q), << <<q, "error">> >>, << <<q, "noModel">> >>}
  PROVE  ChatInv'
<1>1. /\ chatMessages' = Append(chatMessages, Answer(q, content))
      /\ isProcessing' = FALSE /\ currentResponse' = <<>>
  BY DEF Show
<1>2. /\ from \in Stages /\ "done" \in Stages /\ "done" \notin Working
      /\ "done" \notin Unbegun /\ from \notin Unbegun /\ from # "done"
  BY DEF Stages, Working, Unbegun
<1>3. /\ stage' \in [Questions -> Stages] /\ stage[q] = from /\ stage'[q] = "done"
      /\ \A p \in Questions \ {q} : stage'[p] = stage[p]
      /\ InWork' = InWork \ {q} /\ q \in InWork
  BY <1>2, StageStep DEF ChatInv, InWork
<1>4. /\ Answer(q, content) \in Messages
      /\ Answer(q, content).role = "assistant" /\ Answer(q, content).of = q
      /\ Answer(q, content).content = content
  BY DEF Messages, Answer
<1> DEFINE last == Len(chatMessages) + 1
<1>5. /\ chatMessages' \in Seq(Messages)
      /\ \A p : Places("user", p)' = Places("user", p)
      /\ \A p : p # q => Places("assistant", p)' = Places("assistant", p)
      /\ Places("assistant", q)' = Places("assistant", q) \union {last}
      /\ \A p : \A i \in Places("assistant", p) : chatMessages'[i] = chatMessages[i]
      /\ chatMessages'[last] = Answer(q, content)
      /\ \A i \in Places("user", q) : i < last
  <2>1. chatMessages \in Seq(Messages)
    BY DEF ChatInv, TypeOK
  <2>2. \A role, p : Places(role, p)' = Places(role, p) \union
          (IF "assistant" = role /\ q = p THEN {last} ELSE {})
    BY <1>1, <1>4, <2>1, AppendPlaces
  <2>3. /\ chatMessages' \in Seq(Messages)
        /\ \A role, p : \A i \in Places(role, p) : chatMessages'[i] = chatMessages[i]
        /\ chatMessages'[last] = Answer(q, content)
    BY <1>1, <1>4, <2>1, AppendPlaces
  <2>4. \A i \in Places("user", q) : i < last
    BY <2>1, AppendPlaces DEF Places
  <2> HIDE DEF last
  <2> QED
    BY <2>2, <2>3, <2>4
<1>6. Told(q) /\ Places("assistant", q) = {}
  BY <1>2, <1>3 DEF ChatInv, Told
<1> HIDE DEF last
<1>7. TypeOK'
  <2>1. UNCHANGED <<model, tokens, crowded, cleared>> /\ TypeOK
    BY DEF ChatInv
  <2>2. currentResponse' \in Seq(Parts) /\ chatMessages' \in Seq(Messages)
    BY <1>1, <1>5
  <2>3. isProcessing' \in BOOLEAN /\ ~isProcessing' /\ currentResponse' = <<>>
    BY <1>1
  <2> QED
    BY <1>3, <2>1, <2>2, <2>3 DEF TypeOK
<1>8. AnswersFollowTheirQuestions'
  <2> SUFFICES ASSUME NEW p \in Questions
               PROVE  /\ \A j \in Places("assistant", p)' :
                           p \in cleared \/ \E i \in Places("user", p)' : i < j
                      /\ Places("user", p)' # {} /\ stage'[p] = "done" =>
                           Places("assistant", p)' # {}
    BY DEF AnswersFollowTheirQuestions
  <2>1. CASE p # q
    BY <1>3, <1>5, <2>1 DEF ChatInv, AnswersFollowTheirQuestions
  <2>2. CASE p = q
    BY <1>3, <1>5, <1>6, <2>2 DEF Told
  <2> QED
    BY <2>1, <2>2
<1>9. LoneAnswerIsWhole'
  <2> SUFFICES ASSUME NEW p \in Questions \ crowded, NEW i \in Places("assistant", p)'
               PROVE  chatMessages'[i].content \in
                        {Tokens(p), << <<p, "error">> >>, << <<p, "noModel">> >>}
    BY DEF LoneAnswerIsWhole, Tokens
  <2>1. CASE p # q
    <3>1. i \in Places("assistant", p) /\ chatMessages'[i] = chatMessages[i]
      BY <1>5, <2>1
    <3> QED
      BY <3>1 DEF ChatInv, LoneAnswerIsWhole, Tokens
  <2>2. CASE p = q
    BY <1>4, <1>5, <1>6, <2>2
  <2> QED
    BY <2>1, <2>2
<1>10. ASSUME NEW p \in Questions
       PROVE  Told(p)'
  BY <1>2, <1>3, <1>5 DEF ChatInv, Told
<1>11. ASSUME NEW p \in Questions
       PROVE  Alone(p)'
  BY <1>2, <1>3 DEF ChatInv, Alone
<1> QED
  BY <1>7, <1>8, <1>9, <1>10, <1>11 DEF ChatInv

LEMMA AnswerKept ==
  ASSUME ChatInv, NEW q \in Questions, AnswerWithoutModel(q) \/ FinalizeResponse(q)
  PROVE  ChatInv'
<1> USE DEF historyVars
<1>1. CASE AnswerWithoutModel(q)
  <2>1. << <<q, "noModel">> >> \in Seq(Parts) /\ "noModel" \in Working
    BY DEF Parts, Working
  <2> QED
    BY <1>1, <2>1, ShowKept DEF AnswerWithoutModel
<1>2. CASE FinalizeResponse(q)
  <2>1. currentResponse \in Seq(Parts) /\ "finalize" \in Working /\ "finalize" \in Stages
    BY DEF ChatInv, TypeOK, Working, Stages
  <2>2. stage[q] = "finalize" /\ q \in InWork /\ Alone(q)
    BY <1>2, <2>1 DEF FinalizeResponse, Advance, InWork, ChatInv
  <2> QED
    BY <1>2, <2>1, <2>2, ShowKept DEF FinalizeResponse, Alone
<1> QED
  BY <1>1, <1>2

LEMMA ClearChatKept ==
  ASSUME ChatInv, ClearChat
  PROVE  ChatInv'
<1>1. /\ chatMessages' = <<>> /\ cleared' = cleared \union InWork /\ InWork' = InWork
      /\ UNCHANGED <<model, isProcessing, currentResponse, stage, tokens, crowded>>
  BY DEF ClearChat, InWork
<1>2. \A role, p : Places(role, p)' = {}
  BY <1>1 DEF Places
<1>3. TypeOK'
  BY <1>1 DEF ChatInv, TypeOK, InWork
<1>4. AnswersFollowTheirQuestions' /\ LoneAnswerIsWhole'
  BY <1>2 DEF AnswersFollowTheirQuestions, LoneAnswerIsWhole
<1>5. \A p \in Questions : Told(p)' /\ Alone(p)'
  BY <1>1, <1>2 DEF ChatInv, Told, Alone, Tokens, InWork
<1> QED
  BY <1>3, <1>4, <1>5 DEF ChatInv

LEMMA ChatInvKept == ChatInv /\ [Next]_vars => ChatInv'
<1> SUFFICES ASSUME ChatInv, [Next]_vars PROVE ChatInv'
  OBVIOUS
<1>1. CASE LoadModel
  BY <1>1, LoadModelKept
<1>2. ASSUME NEW q \in Questions, SendMessage(q) \/ Token(q) \/ Work(q)
      PROVE  ChatInv'
  BY <1>2, UnbegunKept, QuietWorkKept, TokenKept, ShowErrorKept, BeginKept, AnswerKept
     DEF Work
<1>3. CASE ClearChat
  BY <1>3, ClearChatKept
<1>4. CASE UNCHANGED vars
  <2>1. TypeOK'
    BY <1>4 DEF vars, shownVars, historyVars, ChatInv, TypeOK, InWork
  <2>2. AnswersFollowTheirQuestions' /\ LoneAnswerIsWhole'
    BY <1>4 DEF vars, shownVars, historyVars, ChatInv, AnswersFollowTheirQuestions,
       LoneAnswerIsWhole, Places
  <2>3. \A p \in Questions : Told(p)' /\ Alone(p)'
    BY <1>4 DEF vars, shownVars, historyVars, ChatInv, Told, Alone, Places, InWork, Tokens
  <2> QED
    BY <2>1, <2>2, <2>3 DEF ChatInv
<1> QED
  BY <1>1, <1>2, <1>3, <1>4 DEF Next

-----------------------------------------------------------------------------
(* Every reachable state satisfies the invariant.                           *)
THEOREM ChatInductive == Spec => []ChatInv
BY ChatInitHolds, ChatInvKept, PTL DEF Spec

(* The types, and an idle chat shows no indicator and no rest of an answer. *)
THEOREM ChatTypeCorrect == Spec => []TypeOK
<1>1. ChatInv => TypeOK
  BY DEF ChatInv
<1> QED
  BY <1>1, ChatInductive, PTL

(* Answers stand after their questions, and a question that is done has one. *)
THEOREM AnswersFollow == Spec => []AnswersFollowTheirQuestions
<1>1. ChatInv => AnswersFollowTheirQuestions
  BY DEF ChatInv
<1> QED
  BY <1>1, ChatInductive, PTL

(* The answer to a question that was in work alone is whole and its own.    *)
THEOREM LoneAnswers == Spec => []LoneAnswerIsWhole
<1>1. ChatInv => LoneAnswerIsWhole
  BY DEF ChatInv
<1> QED
  BY <1>1, ChatInductive, PTL

=============================================================================
