-------------------------- MODULE ConversationProofs --------------------------
(***************************************************************************)
(* Proofs about Chat, HarnessRunner, HarnessMemory and Traces, for any     *)
(* number of conversations, requests, runs, records and traces, any budget *)
(* and room of the stages, any reports of the providers, any keys of an    *)
(* operation's spans, any number of other changes, spans and failures.     *)
(*                                                                         *)
(* Chat: the invariant IInv.  A request holds its conversation from its    *)
(* acceptance to its end, so that what it answers, the run it resumes and  *)
(* the proposal it may store are touched by no other request.              *)
(*                                                                         *)
(* HarnessRunner: the invariant HarnessIInv.  While a stage is under way,  *)
(* what it has read of the run (its usage, its handoffs, a cached result)  *)
(* still describes the run when the stage is checkpointed.                 *)
(*                                                                         *)
(* HarnessMemory: the invariant MemoryIInv.  A record that says it is      *)
(* synced says so of the snapshot that was sent, which the server has.     *)
(*                                                                         *)
(* Traces: the invariant TracesIInv.  Each transaction keeps the rows      *)
(* sound, and what an observer holds, what has failed and what the stream  *)
(* has passed say which of the stories the rows tell.                      *)
(***************************************************************************)
EXTENDS Chat, HarnessRunner, HarnessMemory, Traces, FiniteSetTheorems, SequenceTheorems, TLAPS

------------------------------------------------------------------------------
(***************************************************************************)
(* Chat                                                                    *)
(***************************************************************************)
\* Two requests do not hold one conversation.
LEMMA Alone ==
    ASSUME IInv, NEW r \in Posts, NEW q \in Posts \ {r},
           post[r].at \in Holding, post[q].at \in Holding
    PROVE  /\ post[r].conversation \in Conversations
           /\ post[q].conversation \in Conversations
           /\ post[q].conversation # post[r].conversation
  BY DEF IInv, HoldsItsConversation, Holding

\* What a request answers is a message of the requests, and of no other request that
\* has a conversation.
LEMMA AnsweringAlone ==
    ASSUME IInv, NilAssumption, NEW r \in Posts, post[r].at \in Holding
    PROVE  /\ Answering(r) \in Posts
           /\ \A q \in Posts \ {r} : post[q].at \in UnderWay => Answering(q) # Answering(r)
           /\ \A q \in Posts \ {r} : post[q].at \in {"new", "reading", "capturing"} => q # Answering(r)
           /\ \A q \in Posts \ {r} : post[q].at = "capturing" => post[q].of # Answering(r)
<1>1. Answering(r) \in Posts
  BY DEF IInv, TypeOK, PostRow, Answering
<1>2. /\ \A q \in Posts : post[q].at \in UnderWay =>
            /\ message[Answering(q)].status = "running"
            /\ message[Answering(q)].conversation = post[q].conversation
      /\ \A q \in Posts : post[q].at = "capturing" /\ post[q].of # Nil =>
            message[post[q].of].status # Nil /\ message[post[q].of].conversation = post[q].conversation
      /\ \A q \in Posts : post[q].at \in {"new", "reading", "capturing"} => message[q].status = Nil
  BY DEF IInv, AnswersItsMessage, ResumesItsRun, HoldsItsConversation, Messages
<1>3. Nil # "running" /\ Nil \notin Posts
  BY DEF Nil, NilAssumption
<1>4. \A q \in Posts \ {r} : post[q].at \in Holding => post[q].conversation # post[r].conversation
  BY Alone
<1>5. CASE post[r].at \in UnderWay
  BY <1>1, <1>2, <1>3, <1>4, <1>5 DEF Holding
<1>6. CASE post[r].at = "capturing" /\ post[r].of # Nil
  BY <1>1, <1>2, <1>3, <1>4, <1>6 DEF Holding, Answering
<1>7. CASE post[r].at = "capturing" /\ post[r].of = Nil
  BY <1>1, <1>2, <1>3, <1>4, <1>7 DEF Holding, Answering
<1>8. QED
  BY <1>5, <1>6, <1>7 DEF Holding

\* A request whose stream has not begun has a message of its own that nobody answers.
LEMMA OwnMessage ==
    ASSUME IInv, NilAssumption, NEW r \in Posts, post[r].at \in {"new", "reading", "capturing"}
    PROVE  /\ message[r].status = Nil /\ run[r].status = Nil /\ proposal[r].status = Nil
           /\ \A q \in Posts : /\ post[q].at \in UnderWay => Answering(q) # r
                               /\ post[q].at = "capturing" => post[q].of # r
  BY DEF IInv, AnswersItsMessage, ResumesItsRun, HoldsItsConversation, Messages, Nil, NilAssumption

------------------------------------------------------------------------------
(***************************************************************************)
(* The steps of a request.                                                 *)
(***************************************************************************)
\* What no other request looks at while it holds its conversation.
Untouched(q, m) ==
    /\ post[q].at \in UnderWay => Answering(q) # m
    /\ post[q].at = "capturing" => post[q].of # m
    /\ post[q].at \in {"new", "reading", "capturing"} => q # m

LEMMA RequestKept ==
    ASSUME IInv, NilAssumption, NEW q \in Posts, NEW m \in Posts, Untouched(q, m),
           post'[q] = post[q],
           post[q].at \in Holding => running'[post[q].conversation] = running[post[q].conversation],
           \A n \in Posts \ {m} : message'[n] = message[n] /\ run'[n] = run[n] /\ proposal'[n] = proposal[n]
    PROVE  HoldsItsConversation(q)' /\ ResumesItsRun(q)' /\ AnswersItsMessage(q)'
<1>1. HoldsItsConversation(q)'
  BY DEF IInv, HoldsItsConversation, Holding, Untouched
<1>2. ResumesItsRun(q)'
  BY DEF IInv, ResumesItsRun, Messages, Untouched
<1>3. AnswersItsMessage(q)'
  <2>1. post[q].at \in UnderWay => Answering(q) \in Posts
    BY DEF IInv, TypeOK, PostRow, Answering
  <2>2. QED
    BY <2>1 DEF IInv, AnswersItsMessage, Answering, RunAt, Untouched
<1>4. QED
  BY <1>1, <1>2, <1>3

\* A step of request r that touches message m, its run and its proposal.
LEMMA RequestSteps ==
    ASSUME IInv, NilAssumption, TypeOK', NEW r \in Posts, NEW m \in Posts,
           \A q \in Posts \ {r} :
              /\ Untouched(q, m) /\ post'[q] = post[q]
              /\ post[q].at \in Holding => running'[post[q].conversation] = running[post[q].conversation],
           \A n \in Posts \ {m} : message'[n] = message[n] /\ run'[n] = run[n] /\ proposal'[n] = proposal[n],
           post[r].at \in UnderWay => Answering(r) = m,
           message'[m].status = "running" \/ run'[m].status = "running" =>
              post'[r].at \in UnderWay /\ Answering(r)' = m,
           proposal'[m] = proposal[m] \/ proposal'[m].status = "pending",
           proposal'[m].status # Nil =>
              /\ proposal'[m].whole /\ message'[m].status \in {"completed", "failed", "interrupted"}
              /\ run'[m].status \in {Nil, "completed", "stale"},
           proposal[m].status # Nil => proposal'[m] = proposal[m],
           HoldsItsConversation(r)', ResumesItsRun(r)', AnswersItsMessage(r)',
           UNCHANGED <<now, apply, applied>>
    PROVE  IInv'
<1>1. \A q \in Posts : HoldsItsConversation(q)' /\ ResumesItsRun(q)' /\ AnswersItsMessage(q)'
  BY RequestKept
<1>2. OneAnswer'
  <2>1. \A q, s \in Posts :
          (post'[q].at \in Holding /\ post'[s].at \in Holding
             /\ post'[q].conversation = post'[s].conversation) => q = s
    BY <1>1 DEF HoldsItsConversation
  <2>2. ASSUME NEW n \in Posts, message'[n].status = "running" \/ run'[n].status = "running"
        PROVE  \E q \in Posts : post'[q].at \in UnderWay /\ Answering(q)' = n
    <3>1. CASE n = m
      BY <2>2, <3>1
    <3>2. CASE n # m
      <4>1. PICK q \in Posts : post[q].at \in UnderWay /\ Answering(q) = n
        BY <2>2, <3>2 DEF IInv, OneAnswer
      <4>2. q # r /\ post'[q] = post[q]
        BY <3>2, <4>1
      <4>3. QED
        BY <4>1, <4>2 DEF Answering
    <3>3. QED
      BY <3>1, <3>2
  <2>3. QED
    BY <2>1, <2>2 DEF OneAnswer
<1>3. NoPartialProposal'
  BY DEF IInv, NoPartialProposal
<1>4. \A n \in Posts : ProposalIsFinal(n)'
  BY DEF IInv, ProposalIsFinal, Nil
<1>5. \A a \in Applies : ChecksAProposal(a)'
  BY DEF IInv, ChecksAProposal
<1>6. SavedOnce' /\ \A i \in DOMAIN applied' : proposal'[applied'[i]].status = "applied"
  <2>1. \A i \in DOMAIN applied : applied[i] \in Posts
    BY DEF IInv, TypeOK
  <2>2. QED
    BY <2>1 DEF IInv, SavedOnce, Nil
<1>7. QED
  BY <1>1, <1>2, <1>3, <1>4, <1>5, <1>6 DEF IInv

LEMMA UnusedIsRequest ==
    ASSUME ChatAssumption
    PROVE  /\ NoPins \in Pins
           /\ Unused("over") \in PostRow
           /\ Unused("over").at = "over" /\ Unused("over").of = Nil
<1>1. NoPins \in Pins
  BY DEF NoPins, Pins, ChatAssumption
<1>2. QED
  BY <1>1 DEF Unused, PostRow

\* A step of a request that touches no message, run or proposal.
LEMMA TurnKeeps ==
    ASSUME IInv, NilAssumption, NEW r \in Posts, NEW new \in PostRow,
           post[r].at # "over", post' = [post EXCEPT ![r] = new],
           running' \in [Conversations -> Posts \cup {Nil}],
           \A q \in Posts \ {r} : post[q].at \in Holding =>
              running'[post[q].conversation] = running[post[q].conversation],
           post[r].at \in UnderWay => new.at \in UnderWay /\ new.of = post[r].of,
           HoldsItsConversation(r)', ResumesItsRun(r)', AnswersItsMessage(r)',
           UNCHANGED <<now, executing, message, run, proposal, apply, applied>>
    PROVE  IInv'
<1>1. /\ post' \in [Posts -> PostRow] /\ post'[r] = new /\ \A q \in Posts \ {r} : post'[q] = post[q]
  BY DEF IInv, TypeOK
<1>2. TypeOK'
  BY <1>1 DEF IInv, TypeOK
<1>3. ASSUME NEW m \in Posts, \A q \in Posts \ {r} : Untouched(q, m),
             post[r].at \in UnderWay => Answering(r) = m,
             message[m].status = "running" \/ run[m].status = "running" => post[r].at \in UnderWay
      PROVE  IInv'
  <2>1. message'[m].status = "running" \/ run'[m].status = "running" =>
           post'[r].at \in UnderWay /\ Answering(r)' = m
    BY <1>1, <1>3 DEF Answering
  <2>2. proposal'[m].status # Nil =>
           /\ proposal'[m].whole /\ message'[m].status \in {"completed", "failed", "interrupted"}
           /\ run'[m].status \in {Nil, "completed", "stale"}
    BY DEF IInv, NoPartialProposal, ProposalIsFinal
  <2>3. QED
    BY <1>1, <1>2, <1>3, <2>1, <2>2, RequestSteps
<1>4. CASE post[r].at \in UnderWay
  <2>1. Answering(r) \in Posts /\ \A q \in Posts \ {r} : Untouched(q, Answering(r))
    BY <1>4, AnsweringAlone DEF Holding, Untouched
  <2>2. QED
    BY <1>3, <1>4, <2>1
<1>5. CASE post[r].at \in {"new", "reading", "capturing"}
  <2>1. \A q \in Posts \ {r} : Untouched(q, r)
    BY <1>5, OwnMessage DEF Untouched
  <2>2. message[r].status = Nil /\ run[r].status = Nil
    BY <1>5, OwnMessage
  <2>3. QED
    BY <1>3, <1>5, <2>1, <2>2 DEF Nil, UnderWay
<1>6. QED
  BY <1>4, <1>5 DEF IInv, TypeOK, PostRow, Holding

\* A request gives its conversation up, and no other one.
LEMMA Released ==
    ASSUME IInv, NEW r \in Posts, post[r].at \in Holding, Release(r)
    PROVE  /\ running' \in [Conversations -> Posts \cup {Nil}]
           /\ \A q \in Posts \ {r} : post[q].at \in Holding =>
                 running'[post[q].conversation] = running[post[q].conversation]
<1>1. running \in [Conversations -> Posts \cup {Nil}]
  BY DEF IInv, TypeOK
<1>2. QED
  BY <1>1, Alone DEF Release

LEMMA BeginsKeeps ==
    ASSUME ChatAssumption, NilAssumption, IInv, NEW r \in Posts, NEW c \in Conversations, Begins(r, c)
    PROVE  IInv'
<1> DEFINE new == [post[r] EXCEPT !.at = "reading", !.conversation = c]
<1>0. post \in [Posts -> PostRow] /\ post[r] \in PostRow /\ post[r].at = "new"
  BY DEF IInv, TypeOK, Begins
<1>1. new \in PostRow /\ new.at = "reading" /\ new.conversation = c /\ new.of = post[r].of
      /\ new.harness = post[r].harness
  BY <1>0 DEF PostRow
<1>2. post' = [post EXCEPT ![r] = new]
  BY <1>0 DEF Begins
<1> HIDE DEF new
<1>3. post'[r] = new
  BY <1>0, <1>2
<1>4. HoldsItsConversation(r)' /\ ResumesItsRun(r)' /\ AnswersItsMessage(r)'
  BY <1>0, <1>1, <1>3 DEF Begins, IInv, HoldsItsConversation, ResumesItsRun, AnswersItsMessage,
     Holding, UnderWay
<1>5. running' \in [Conversations -> Posts \cup {Nil}]
  BY DEF IInv, TypeOK, Begins
<1>6. QED
  BY <1>0, <1>1, <1>2, <1>4, <1>5, TurnKeeps DEF Begins, UnderWay

LEMMA EndedTurn ==
    ASSUME ChatAssumption, NilAssumption, IInv, NEW r \in Posts,
           \/ post[r].at = "reading" /\ UNCHANGED running
           \/ post[r].at = "capturing" /\ Release(r),
           post' = [post EXCEPT ![r] = Unused("over")],
           UNCHANGED <<now, executing, message, run, proposal, apply, applied>>
    PROVE  IInv'
<1>1. post'[r] = Unused("over")
  BY DEF IInv, TypeOK
<1>2. HoldsItsConversation(r)' /\ ResumesItsRun(r)' /\ AnswersItsMessage(r)'
  BY <1>1, UnusedIsRequest DEF HoldsItsConversation, ResumesItsRun, AnswersItsMessage, Holding, UnderWay
<1>3. /\ running' \in [Conversations -> Posts \cup {Nil}]
      /\ \A q \in Posts \ {r} : post[q].at \in Holding =>
            running'[post[q].conversation] = running[post[q].conversation]
  BY Released DEF Holding, IInv, TypeOK
<1>4. QED
  BY <1>2, <1>3, UnusedIsRequest, TurnKeeps DEF UnderWay

LEMMA AbortsKeeps ==
    ASSUME NilAssumption, IInv, NEW r \in Posts, Aborts(r)
    PROVE  IInv'
<1> DEFINE new == [post[r] EXCEPT !.aborted = TRUE]
<1>0. post \in [Posts -> PostRow] /\ post[r] \in PostRow
  BY DEF IInv, TypeOK
<1>1. /\ new \in PostRow /\ new.at = post[r].at /\ new.conversation = post[r].conversation
      /\ new.of = post[r].of /\ new.harness = post[r].harness
  BY <1>0 DEF PostRow
<1>2. post' = [post EXCEPT ![r] = new]
  BY <1>0 DEF Aborts
<1> HIDE DEF new
<1>3. post'[r] = new
  BY <1>0, <1>2
<1>4. HoldsItsConversation(r)' /\ ResumesItsRun(r)' /\ AnswersItsMessage(r)'
  <2>1. UNCHANGED <<running, message, run, proposal>>
    BY DEF Aborts
  <2>2. HoldsItsConversation(r)'
    BY <1>1, <1>3, <2>1 DEF IInv, HoldsItsConversation
  <2>3. ResumesItsRun(r)'
    BY <1>1, <1>3, <2>1 DEF IInv, ResumesItsRun, Messages
  <2>4. AnswersItsMessage(r)'
    BY <1>1, <1>3, <2>1 DEF IInv, AnswersItsMessage, Answering, RunAt
  <2>5. QED
    BY <2>2, <2>3, <2>4
<1>5. running' \in [Conversations -> Posts \cup {Nil}]
  BY DEF IInv, TypeOK, Aborts
<1>6. QED
  BY <1>1, <1>2, <1>4, <1>5, TurnKeeps DEF Aborts, Holding, UnderWay

\* The conversation is taken from nobody.
LEMMA AcceptsKeeps ==
    ASSUME NilAssumption, IInv, NEW r \in Posts, NEW m \in Posts \cup {Nil}, NEW harness \in BOOLEAN,
           Accepts(r, m, harness)
    PROVE  IInv'
<1> DEFINE c   == post[r].conversation
           new == [post[r] EXCEPT !.at = "capturing", !.of = m, !.harness = harness, !.pins = now]
<1>0. post \in [Posts -> PostRow] /\ post[r] \in PostRow /\ c \in Conversations
      /\ post[r].at = "reading" /\ now \in Pins
  BY DEF IInv, TypeOK, Accepts, HoldsItsConversation, Holding
<1>1. /\ new \in PostRow /\ new.at = "capturing" /\ new.conversation = c
      /\ new.of = m /\ new.harness = harness
  BY <1>0 DEF PostRow, Holding
<1>2. post' = [post EXCEPT ![r] = new]
  BY <1>0 DEF Accepts
<1> HIDE DEF new
<1>3. post'[r] = new
  BY <1>0, <1>2
<1>4. /\ running' \in [Conversations -> Posts \cup {Nil}] /\ running'[c] = r
      /\ \A d \in Conversations \ {c} : running'[d] = running[d]
  BY <1>0 DEF IInv, TypeOK, Accepts
<1>5. ASSUME NEW q \in Posts \ {r}, post[q].at \in Holding
      PROVE  running'[post[q].conversation] = running[post[q].conversation]
  <2>1. post[q].conversation \in Conversations /\ running[post[q].conversation] = q
    BY <1>5 DEF IInv, HoldsItsConversation, Holding
  <2>2. running[c] = Nil
    BY DEF Accepts, Idle
  <2>3. QED
    BY <1>4, <2>1, <2>2 DEF NilAssumption
<1>6. HoldsItsConversation(r)'
  BY <1>0, <1>1, <1>3, <1>4, OwnMessage DEF HoldsItsConversation, Accepts
<1>7. ResumesItsRun(r)'
  BY <1>1, <1>3 DEF ResumesItsRun, Accepts, CanResume, Messages
<1>8. AnswersItsMessage(r)'
  BY <1>1, <1>3 DEF AnswersItsMessage, UnderWay
<1>9. QED
  BY <1>0, <1>1, <1>2, <1>4, <1>5, <1>6, <1>7, <1>8, TurnKeeps DEF Accepts, UnderWay

LEMMA ResumeIsStaleKeeps ==
    ASSUME ChatAssumption, NilAssumption, IInv, NEW r \in Posts, ResumeIsStale(r)
    PROVE  IInv'
<1> DEFINE m == post[r].of
<1>0. /\ post[r].at = "capturing" /\ m \in Posts /\ run[m].status \in Resumable
      /\ Answering(r) = m /\ run[m] \in HarnessRun
  BY DEF IInv, TypeOK, PostRow, ResumeIsStale, ResumesItsRun, Answering
<1>1. \A q \in Posts \ {r} : Untouched(q, m)
  BY <1>0, AnsweringAlone DEF Untouched, Holding
<1>2. /\ run' = [run EXCEPT ![m] = [run[m] EXCEPT !.status = "stale"]]
      /\ [run[m] EXCEPT !.status = "stale"] \in HarnessRun
  BY <1>0 DEF ResumeIsStale, HarnessRun
<1>3. /\ run' \in [Posts -> HarnessRun] /\ run'[m].status = "stale"
      /\ \A n \in Posts \ {m} : run'[n] = run[n]
  BY <1>0, <1>2 DEF IInv, TypeOK, HarnessRun
<1>4. /\ post' \in [Posts -> PostRow] /\ post'[r] = Unused("over")
      /\ \A q \in Posts \ {r} : post'[q] = post[q]
  BY UnusedIsRequest DEF IInv, TypeOK, ResumeIsStale
<1>5. /\ running' \in [Conversations -> Posts \cup {Nil}]
      /\ \A q \in Posts \ {r} : post[q].at \in Holding =>
            running'[post[q].conversation] = running[post[q].conversation]
  BY <1>0, Released DEF Holding, ResumeIsStale
<1>6. TypeOK'
  BY <1>3, <1>4, <1>5 DEF IInv, TypeOK, ResumeIsStale
<1>7. HoldsItsConversation(r)' /\ ResumesItsRun(r)' /\ AnswersItsMessage(r)'
  BY <1>4, UnusedIsRequest
  DEF HoldsItsConversation, ResumesItsRun, AnswersItsMessage, Holding, UnderWay
<1>8. proposal[m].status = Nil
  BY <1>0 DEF IInv, ProposalIsFinal, Resumable, Nil
<1>9. message[m].status # "running"
  BY <1>0, <1>1 DEF IInv, OneAnswer, Untouched, UnderWay
<1>10. QED
  BY <1>0, <1>1, <1>3, <1>4, <1>5, <1>6, <1>7, <1>8, <1>9, RequestSteps DEF ResumeIsStale, UnderWay

\* The message is new, or the one whose run is resumed.
LEMMA StreamsKeeps ==
    ASSUME ChatAssumption, NilAssumption, IInv, NEW r \in Posts, NEW fits \in BOOLEAN, Streams(r, fits)
    PROVE  IInv'
<1> DEFINE m    == Answering(r)
           told == IF post[r].of # Nil THEN [message[m] EXCEPT !.status = "running"]
                   ELSE [status |-> IF fits THEN "running" ELSE "failed",
                         conversation |-> post[r].conversation, order |-> NextOrder]
           begun == IF post[r].harness THEN [status |-> "running", pins |-> post[r].pins] ELSE run[m]
           new   == IF fits THEN [post[r] EXCEPT !.at = "streaming"] ELSE Unused("over")
<1>0. /\ post \in [Posts -> PostRow] /\ post[r] \in PostRow /\ post[r].at = "capturing"
      /\ post[r].conversation \in Conversations /\ running[post[r].conversation] = r
      /\ fits \/ (~post[r].harness /\ post[r].of = Nil)
      /\ post[r].of # Nil => post[r].harness
  BY DEF IInv, TypeOK, Streams, HoldsItsConversation, ResumesItsRun, Holding
<1>1. m \in Posts /\ \A q \in Posts \ {r} : Untouched(q, m)
  BY <1>0, AnsweringAlone DEF Untouched, Holding
<1>2. /\ proposal[m].status = Nil
      /\ post[r].of = Nil => run[m].status = Nil
      /\ post[r].of # Nil => message[m].conversation = post[r].conversation
  <2>1. CASE post[r].of = Nil
    BY <1>0, <2>1, OwnMessage DEF Answering
  <2>2. CASE post[r].of # Nil
    BY <1>0, <1>1, <2>2 DEF Answering, IInv, ResumesItsRun, Messages, ProposalIsFinal, Resumable, Nil
  <2>3. QED
    BY <2>1, <2>2
<1>3. /\ told \in Message /\ told.conversation = post[r].conversation
      /\ told.status = IF fits THEN "running" ELSE "failed"
  <2>1. CASE post[r].of # Nil
    BY <1>0, <1>1, <1>2, <2>1 DEF IInv, TypeOK, Message
  <2>2. CASE post[r].of = Nil
    <3>1. NextOrder \in Nat
      BY FS_Subset, FS_CardinalityType DEF NextOrder, ChatAssumption
    <3>2. QED
      BY <1>0, <2>2, <3>1 DEF Message, Ended
  <2>3. QED
    BY <2>1, <2>2
<1>4. begun \in HarnessRun /\ begun.status = IF post[r].harness THEN "running" ELSE Nil
  BY <1>0, <1>1, <1>2 DEF IInv, TypeOK, HarnessRun, PostRow
<1>5. /\ new \in PostRow /\ new.at = IF fits THEN "streaming" ELSE "over"
      /\ fits => new.of = post[r].of /\ new.conversation = post[r].conversation
                 /\ new.harness = post[r].harness
      /\ new.of # Nil => new.harness
  BY <1>0, UnusedIsRequest DEF PostRow, Holding, UnderWay
<1>6. /\ message' = [message EXCEPT ![m] = told] /\ run' = [run EXCEPT ![m] = begun]
      /\ post' = [post EXCEPT ![r] = new] /\ UNCHANGED <<now, executing, proposal, apply, applied>>
      /\ IF fits THEN UNCHANGED running ELSE Release(r)
  BY DEF Streams
<1> HIDE DEF told, begun, new
<1>7. /\ message' \in [Posts -> Message] /\ message'[m] = told
      /\ run' \in [Posts -> HarnessRun] /\ run'[m] = begun
      /\ post' \in [Posts -> PostRow] /\ post'[r] = new /\ \A q \in Posts \ {r} : post'[q] = post[q]
      /\ \A n \in Posts \ {m} : message'[n] = message[n] /\ run'[n] = run[n]
  BY <1>1, <1>3, <1>4, <1>5, <1>6 DEF IInv, TypeOK
<1>8. /\ running' \in [Conversations -> Posts \cup {Nil}]
      /\ \A q \in Posts \ {r} : post[q].at \in Holding =>
            running'[post[q].conversation] = running[post[q].conversation]
      /\ fits => running' = running
  BY <1>0, <1>6, Released DEF Holding, IInv, TypeOK
<1>9. TypeOK'
  BY <1>6, <1>7, <1>8 DEF IInv, TypeOK
<1>10. fits => Answering(r)' = m
  BY <1>5, <1>7 DEF Answering
<1>11. HoldsItsConversation(r)' /\ ResumesItsRun(r)' /\ AnswersItsMessage(r)'
  BY <1>0, <1>3, <1>4, <1>5, <1>7, <1>8, <1>10
  DEF HoldsItsConversation, ResumesItsRun, AnswersItsMessage, RunAt, Holding, UnderWay
<1>12. message'[m].status = "running" \/ run'[m].status = "running" =>
          post'[r].at \in UnderWay /\ Answering(r)' = m
  BY <1>0, <1>3, <1>4, <1>5, <1>7, <1>10 DEF Nil, UnderWay
<1> HIDE DEF m
<1>13. QED
  BY <1>0, <1>1, <1>2, <1>6, <1>7, <1>8, <1>9, <1>11, <1>12, RequestSteps DEF UnderWay

\* What a request under way is known to have.
LEMMA UnderWayTypes ==
    ASSUME IInv, NEW r \in Posts, post[r].at \in UnderWay
    PROVE  /\ Answering(r) \in Posts /\ message[Answering(r)] \in Message
           /\ run[Answering(r)] \in HarnessRun /\ run = [run EXCEPT ![Answering(r)] = run[Answering(r)]]
           /\ proposal[Answering(r)] \in Proposal
           /\ proposal = [proposal EXCEPT ![Answering(r)] = proposal[Answering(r)]]
           /\ message = [message EXCEPT ![Answering(r)] = message[Answering(r)]]
           /\ post[r] \in PostRow /\ post[r].pins \in Pins /\ post[r].at \in Holding
           /\ message[Answering(r)].status = "running" /\ run[Answering(r)].status \in RunAt(r)
  BY DEF IInv, TypeOK, PostRow, Answering, Holding, AnswersItsMessage

\* A request under way goes on with its message: its run is as far as it is.
LEMMA GoesOn ==
    ASSUME ChatAssumption, NilAssumption, IInv, NEW r \in Posts, post[r].at \in UnderWay,
           NEW new \in PostRow, NEW ended \in HarnessRun,
           run' = [run EXCEPT ![Answering(r)] = ended], post' = [post EXCEPT ![r] = new],
           new.at \in UnderWay, new.of = post[r].of, new.conversation = post[r].conversation,
           new.harness = post[r].harness, ended.status # "running",
           ended.status \in (IF ~new.harness THEN {Nil} ELSE IF new.at = "streaming" THEN {"running"}
                             ELSE IF new.at = "answered" THEN {"completed"} ELSE RunFailures),
           UNCHANGED <<now, executing, running, message, proposal, apply, applied>>
    PROVE  IInv'
<1> DEFINE m == Answering(r)
<1>1. /\ m \in Posts /\ \A q \in Posts \ {r} : Untouched(q, m)
      /\ message[m].status = "running" /\ message[m].conversation = post[r].conversation
      /\ post[r].at \in Holding
  BY AnsweringAlone DEF Untouched, Holding, IInv, AnswersItsMessage
<1>2. proposal[m].status = Nil
  BY <1>1 DEF IInv, NoPartialProposal
<1>3. /\ run' \in [Posts -> HarnessRun] /\ run'[m] = ended /\ post' \in [Posts -> PostRow]
      /\ post'[r] = new /\ \A q \in Posts \ {r} : post'[q] = post[q]
      /\ \A n \in Posts \ {m} : run'[n] = run[n]
  BY <1>1 DEF IInv, TypeOK
<1>4. TypeOK'
  BY <1>3 DEF IInv, TypeOK
<1>5. Answering(r)' = m
  BY <1>3 DEF Answering
<1>6. HoldsItsConversation(r)'
  BY <1>1, <1>3 DEF IInv, HoldsItsConversation, Holding, UnderWay
<1>7. ResumesItsRun(r)'
  BY <1>3 DEF IInv, ResumesItsRun, UnderWay
<1>8. AnswersItsMessage(r)'
  BY <1>1, <1>3, <1>5 DEF AnswersItsMessage, RunAt
<1> HIDE DEF m
<1>9. QED
  BY <1>1, <1>2, <1>3, <1>4, <1>5, <1>6, <1>7, <1>8, RequestSteps DEF m

\* A request under way gives its message up, with the proposal of all of the answer.
LEMMA GivesUp ==
    ASSUME ChatAssumption, NilAssumption, IInv, NEW r \in Posts, NEW m \in Posts, m = Answering(r),
           post[r].at \in UnderWay, NEW told \in Message, NEW offer \in Proposal,
           message' = [message EXCEPT ![m] = told], proposal' = [proposal EXCEPT ![m] = offer],
           post' = [post EXCEPT ![r] = Unused("over")], Release(r),
           told.status # "running", run[m].status # "running",
           \/ offer = proposal[m]
           \/ /\ offer.status = "pending" /\ offer.whole /\ run[m].status \in {Nil, "completed"}
              /\ told.status \in {"completed", "failed", "interrupted"},
           UNCHANGED <<now, executing, run, apply, applied>>
    PROVE  IInv'
<1>1. /\ \A q \in Posts \ {r} : Untouched(q, m)
      /\ message[m].status = "running" /\ post[r].at \in Holding
  BY AnsweringAlone DEF Untouched, Holding, IInv, AnswersItsMessage
<1>2. proposal[m].status = Nil
  BY <1>1 DEF IInv, NoPartialProposal
<1>3. /\ message' \in [Posts -> Message] /\ message'[m] = told
      /\ proposal' \in [Posts -> Proposal] /\ proposal'[m] = offer
      /\ post' \in [Posts -> PostRow] /\ post'[r] = Unused("over")
      /\ \A q \in Posts \ {r} : post'[q] = post[q]
      /\ \A n \in Posts \ {m} : message'[n] = message[n] /\ proposal'[n] = proposal[n]
  BY UnusedIsRequest DEF IInv, TypeOK
<1>4. /\ running' \in [Conversations -> Posts \cup {Nil}]
      /\ \A q \in Posts \ {r} : post[q].at \in Holding =>
            running'[post[q].conversation] = running[post[q].conversation]
  BY <1>1, Released
<1>5. TypeOK'
  BY <1>3, <1>4 DEF IInv, TypeOK
<1>6. HoldsItsConversation(r)' /\ ResumesItsRun(r)' /\ AnswersItsMessage(r)'
  BY <1>3, UnusedIsRequest
  DEF HoldsItsConversation, ResumesItsRun, AnswersItsMessage, Holding, UnderWay
<1>7. QED
  BY <1>1, <1>2, <1>3, <1>4, <1>5, <1>6, RequestSteps DEF Nil

\* The message is told that its request is over.
LEMMA TellsKeeps ==
    ASSUME ChatAssumption, NilAssumption, IInv, NEW r \in Posts, post[r].at \in UnderWay,
           post[r].at = "streaming" => ~post[r].harness,
           NEW status \in Ended, Tells(r, status),
           \/ UNCHANGED proposal
           \/ Saves(r) /\ post[r].at = "answered" /\ status # "stopped"
    PROVE  IInv'
<1> DEFINE m     == Answering(r)
           told  == [message[m] EXCEPT !.status = status]
           offer == IF proposal' = proposal THEN proposal[m]
                    ELSE [status |-> "pending", base |-> post[r].pins, whole |-> post[r].at = "answered"]
<1>1. told \in Message /\ told.status = status /\ told.conversation = message[m].conversation
  BY UnderWayTypes DEF Message
<1>2. /\ offer \in Proposal
      /\ offer = proposal[m] \/ (offer.status = "pending" /\ offer.whole /\ proposal' # proposal)
  BY UnderWayTypes DEF Proposal
<1>3. run[m].status # "running" /\ (post[r].at = "answered" => run[m].status \in {Nil, "completed"})
  BY UnderWayTypes DEF RunAt, RunFailures, UnderWay, Nil
<1>4. /\ message' = [message EXCEPT ![m] = told]
      /\ post' = [post EXCEPT ![r] = Unused("over")] /\ Release(r)
      /\ UNCHANGED <<now, executing, run, apply, applied>>
  BY DEF Tells
<1>5. proposal' = [proposal EXCEPT ![m] = offer]
  BY UnderWayTypes DEF Saves
<1>6. status # "running" /\ (status # "stopped" => status \in {"completed", "failed", "interrupted"})
  BY DEF Ended
<1>7. offer = proposal[m] \/ (/\ offer.status = "pending" /\ offer.whole
                             /\ run[m].status \in {Nil, "completed"}
                             /\ told.status \in {"completed", "failed", "interrupted"})
  BY <1>1, <1>2, <1>3, <1>6, UnderWayTypes
<1> HIDE DEF told, offer
<1>8. QED
  BY <1>1, <1>2, <1>3, <1>4, <1>5, <1>6, <1>7, UnderWayTypes, GivesUp

\* The stream is over, and the request goes on with its message.
LEMMA StreamEnds ==
    ASSUME ChatAssumption, NilAssumption, IInv, NEW r \in Posts,
           AnswerArrives(r) \/ \E status \in RunFailures : RunFails(r, status)
    PROVE  IInv'
<1> DEFINE m == Answering(r)
<1>1. post[r].at = "streaming" /\ post[r].at \in UnderWay
      /\ run[m].status = (IF post[r].harness THEN "running" ELSE Nil)
  BY UnderWayTypes DEF AnswerArrives, RunFails, UnderWay, RunAt
<1>2. CASE AnswerArrives(r)
  <2> DEFINE ended == [run[m] EXCEPT !.status = IF post[r].harness THEN "completed" ELSE run[m].status]
             new   == [post[r] EXCEPT !.at = "answered"]
  <2>1. ended \in HarnessRun /\ ended.status = (IF post[r].harness THEN "completed" ELSE Nil)
    BY <1>1, UnderWayTypes DEF HarnessRun
  <2>2. /\ new \in PostRow /\ new.at = "answered" /\ new.of = post[r].of
        /\ new.conversation = post[r].conversation /\ new.harness = post[r].harness
    BY <1>1, UnderWayTypes DEF PostRow, Holding, UnderWay
  <2>3. /\ run' = [run EXCEPT ![m] = ended] /\ post' = [post EXCEPT ![r] = new]
        /\ UNCHANGED <<now, executing, running, message, proposal, apply, applied>>
    BY <1>2 DEF AnswerArrives
  <2> HIDE DEF ended, new
  <2>4. QED
    BY <1>1, <2>1, <2>2, <2>3, GoesOn DEF Nil, UnderWay
<1>3. ASSUME NEW status \in RunFailures, RunFails(r, status) PROVE IInv'
  <2> DEFINE ended == [run[m] EXCEPT !.status = status]
             new   == [post[r] EXCEPT !.at = "broken"]
  <2>1. ended \in HarnessRun /\ ended.status = status /\ status # "running"
    BY <1>1, UnderWayTypes DEF HarnessRun, RunFailures, Resumable
  <2>2. /\ new \in PostRow /\ new.at = "broken" /\ new.of = post[r].of
        /\ new.conversation = post[r].conversation /\ new.harness /\ new.harness = post[r].harness
    BY <1>1, <1>3, UnderWayTypes DEF PostRow, Holding, UnderWay, RunFails
  <2>3. /\ run' = [run EXCEPT ![m] = ended] /\ post' = [post EXCEPT ![r] = new]
        /\ UNCHANGED <<now, executing, running, message, proposal, apply, applied>>
    BY <1>3 DEF RunFails
  <2> HIDE DEF ended, new
  <2>4. QED
    BY <1>1, <2>1, <2>2, <2>3, GoesOn DEF UnderWay
<1>4. QED
  BY <1>2, <1>3

LEMMA EndsKeeps ==
    ASSUME ChatAssumption, NilAssumption, IInv, NEW r \in Posts,
           (\E proposes \in BOOLEAN : Completes(r, proposes)) \/ CompletionUnsaved(r) \/ Settles(r)
    PROVE  IInv'
<1>1. "completed" \in Ended /\ "failed" \in Ended /\ FailureOf(r) \in Ended
  BY DEF Ended, FailureOf
<1>2. ASSUME NEW proposes \in BOOLEAN, Completes(r, proposes) PROVE IInv'
  <2>1. post[r].at = "answered" /\ post[r].at \in UnderWay /\ (UNCHANGED proposal \/ Saves(r))
        /\ Tells(r, "completed")
    BY <1>2 DEF Completes, MayComplete, UnderWay
  <2>2. QED
    BY <1>1, <2>1, TellsKeeps
<1>3. CASE CompletionUnsaved(r)
  <2>1. post[r].at = "answered" /\ post[r].at \in UnderWay /\ Saves(r) /\ Tells(r, "failed")
    BY <1>3 DEF CompletionUnsaved, MayComplete, UnderWay
  <2>2. QED
    BY <1>1, <2>1, TellsKeeps
<1>4. CASE Fails(r)
  <2>1. /\ post[r].at \in UnderWay /\ (post[r].at = "streaming" => ~post[r].harness)
        /\ UNCHANGED proposal /\ Tells(r, FailureOf(r))
    BY <1>4 DEF Fails, UnderWay
  <2>2. QED
    BY <1>1, <2>1, TellsKeeps
<1>5. CASE CaptureFails(r)
  BY <1>5, EndedTurn DEF CaptureFails
<1>6. QED
  BY <1>2, <1>3, <1>4, <1>5, StreamEnds DEF Settles

------------------------------------------------------------------------------
(***************************************************************************)
(* The steps of the other requests, and the restart.                       *)
(***************************************************************************)
LEMMA OthersKeep ==
    ASSUME ChatAssumption, IInv, ExecutionMoves \/ \E field \in DOMAIN now : Changes(field)
    PROVE  IInv'
<1>1. now' \in Pins /\ now'.draft >= now.draft /\ executing' \in BOOLEAN
  <2>1. CASE ExecutionMoves
    BY <2>1 DEF ExecutionMoves, IInv, TypeOK, Pins
  <2>2. ASSUME NEW field \in DOMAIN now, Changes(field)
        PROVE  now' \in Pins /\ now'.draft >= now.draft /\ executing' \in BOOLEAN
    <3>1. now \in Pins /\ executing \in BOOLEAN /\ MaxDraft \in Nat
      BY DEF IInv, TypeOK, ChatAssumption
    <3>2. /\ now.draft \in 1 .. MaxDraft /\ now.evidence \in Nat /\ now.settings \in Nat
          /\ now.provider \in Nat
      BY <3>1 DEF Pins
    <3>3. /\ now' = [now EXCEPT ![field] = now[field] + 1] /\ executing' = executing
          /\ field = "draft" => now.draft < MaxDraft
      BY <2>2 DEF Changes
    <3>4. field \in {"draft", "evidence", "settings", "provider"}
      BY <3>1 DEF Pins
    <3>5. CASE field = "draft"
      <4>1. now.draft + 1 \in 1 .. MaxDraft
        BY <3>1, <3>2, <3>3, <3>5
      <4>2. now' = [now EXCEPT !.draft = now.draft + 1]
        BY <3>3, <3>5
      <4>3. QED
        BY <3>1, <3>2, <3>3, <4>1, <4>2 DEF Pins
    <3>6. CASE field = "evidence"
      BY <3>1, <3>2, <3>3, <3>6 DEF Pins
    <3>7. CASE field = "settings"
      BY <3>1, <3>2, <3>3, <3>7 DEF Pins
    <3>8. CASE field = "provider"
      BY <3>1, <3>2, <3>3, <3>8 DEF Pins
    <3>9. QED
      BY <3>4, <3>5, <3>6, <3>7, <3>8
  <2>3. QED
    BY <2>1, <2>2
<1>2. UNCHANGED <<running, post, message, run, proposal, apply, applied>>
  BY DEF ExecutionMoves, Changes
<1>3. TypeOK'
  BY <1>1, <1>2 DEF IInv, TypeOK
<1>4. \A m \in Posts : ProposalIsFinal(m)'
  <2>1. ASSUME NEW m \in Posts, proposal[m].status = "applied"
        PROVE  proposal[m].base.draft < now'.draft
    <3>1. proposal[m].base.draft < now.draft
      BY <2>1 DEF IInv, ProposalIsFinal
    <3>2. proposal[m].base.draft \in Int /\ now.draft \in Int /\ now'.draft \in Int
      BY <1>1 DEF IInv, TypeOK, Proposal, Pins
    <3>3. QED
      BY <1>1, <3>1, <3>2
  <2>2. QED
    BY <1>2, <2>1 DEF IInv, ProposalIsFinal
<1>5. QED
  BY <1>2, <1>3, <1>4 DEF IInv, OneAnswer, NoPartialProposal, SavedOnce, HoldsItsConversation,
     ResumesItsRun, AnswersItsMessage, ChecksAProposal, Answering, Messages, RunAt

\* What a proposal is stored with is no longer part of an answer.
LEMMA ProposalIsApart ==
    ASSUME IInv, NilAssumption, NEW m \in Posts, proposal[m].status # Nil
    PROVE  /\ \A q \in Posts : Untouched(q, m)
           /\ message[m].status # "running" /\ run[m].status \notin Resumable \cup {"running"}
<1>1. message[m].status # "running" /\ run[m].status \in {Nil, "completed", "stale"}
  BY DEF IInv, NoPartialProposal, ProposalIsFinal
<1>2. run[m].status \notin Resumable \cup {"running"}
  BY <1>1 DEF Nil, Resumable
<1>3. ASSUME NEW q \in Posts PROVE Untouched(q, m)
  <2>1. post[q].at \in UnderWay => Answering(q) # m
    BY <1>1 DEF IInv, AnswersItsMessage
  <2>2. post[q].at = "capturing" => post[q].of # m
    BY <1>2 DEF IInv, ResumesItsRun, NilAssumption
  <2>3. post[q].at \in {"new", "reading", "capturing"} => q # m
    BY DEF IInv, HoldsItsConversation
  <2>4. QED
    BY <2>1, <2>2, <2>3 DEF Untouched
<1>4. QED
  BY <1>1, <1>2, <1>3

LEMMA AnsweredTypes ==
    ASSUME ChatAssumption, IInv, NEW a \in Applies, NEW m \in Posts, NEW pins \in Pins,
           NEW at \in {"checking", "over"}, NEW answer \in {Nil, "active", "stale", "applied"},
           Answered(a, m, pins, at, answer), at = "checking" => proposal[m].status # Nil
    PROVE  /\ apply' \in [Applies -> Apply]
           /\ \A b \in Applies : apply'[b].at = "checking" =>
                 apply'[b].of \in Posts /\ proposal[apply'[b].of].status # Nil
<1> DEFINE new == [at |-> at, of |-> m, pins |-> pins, answer |-> answer]
<1>1. new \in Apply /\ new.at = at /\ new.of = m
  BY DEF Apply
<1>2. apply' = [apply EXCEPT ![a] = new]
  BY DEF Answered
<1> HIDE DEF new
<1>3. /\ apply' \in [Applies -> Apply] /\ apply'[a] = new
      /\ \A b \in Applies \ {a} : apply'[b] = apply[b]
  BY <1>1, <1>2 DEF IInv, TypeOK
<1>4. QED
  BY <1>1, <1>3 DEF IInv, ChecksAProposal

\* An answer to an apply request that changes nothing else.
LEMMA AnsweredKeeps ==
    ASSUME ChatAssumption, IInv, NEW a \in Applies, NEW m \in Posts, NEW pins \in Pins,
           NEW at \in {"checking", "over"}, NEW answer \in {Nil, "active", "stale", "applied"},
           Answered(a, m, pins, at, answer), at = "checking" => proposal[m].status # Nil,
           UNCHANGED <<now, executing, running, post, message, run, proposal, applied>>
    PROVE  IInv'
<1>1. /\ apply' \in [Applies -> Apply]
      /\ \A b \in Applies : apply'[b].at = "checking" =>
            apply'[b].of \in Posts /\ proposal[apply'[b].of].status # Nil
  BY AnsweredTypes
<1>2. TypeOK' /\ \A b \in Applies : ChecksAProposal(b)'
  BY <1>1 DEF IInv, TypeOK, ChecksAProposal
<1>3. QED
  BY <1>2 DEF IInv, OneAnswer, NoPartialProposal, SavedOnce, HoldsItsConversation,
     ResumesItsRun, AnswersItsMessage, ProposalIsFinal, Answering, Messages, RunAt

\* A proposal is applied to its base, and that draft is the latest no more.
LEMMA AppliedKeeps ==
    ASSUME ChatAssumption, NilAssumption, IInv, NEW a \in Applies, NEW m \in Posts,
           proposal[m].status # Nil, Applied(a, m)
    PROVE  IInv'
<1>0. /\ now \in Pins /\ MaxDraft \in Nat /\ proposal[m] \in Proposal /\ NoPins \in Pins
      /\ applied \in Seq(Posts) /\ UNCHANGED <<executing, running, post, message, run>>
  BY UnusedIsRequest DEF IInv, TypeOK, ChatAssumption, Applied
<1>1. now' \in Pins /\ now'.draft = now.draft + 1
  <2>1. now.draft \in 1 .. MaxDraft /\ now.draft + 1 \in 1 .. MaxDraft
    BY <1>0 DEF Pins, Applied
  <2>2. now' = [now EXCEPT !.draft = now.draft + 1]
    BY DEF Applied
  <2>3. QED
    BY <1>0, <2>1, <2>2 DEF Pins
<1>2. proposal[m].base.draft = now.draft /\ proposal[m].status = "pending"
  <2>1. proposal[m].base.draft = now.draft /\ now.draft \in Int
    BY <1>0 DEF Applied, Fresh, Pins
  <2>2. proposal[m].status # "applied"
    BY <2>1 DEF IInv, ProposalIsFinal
  <2>3. QED
    BY <1>0, <2>1, <2>2 DEF Proposal
<1> DEFINE saved == [proposal[m] EXCEPT !.status = "applied"]
<1>3. /\ saved \in Proposal /\ saved.status = "applied" /\ saved.base = proposal[m].base
      /\ saved.whole = proposal[m].whole
  BY <1>0 DEF Proposal
<1>4. proposal' = [proposal EXCEPT ![m] = saved]
  BY DEF Applied
<1> HIDE DEF saved
<1>5. /\ proposal' \in [Posts -> Proposal] /\ proposal'[m] = saved
      /\ \A n \in Posts \ {m} : proposal'[n] = proposal[n]
  BY <1>3, <1>4 DEF IInv, TypeOK
<1>6. /\ apply' \in [Applies -> Apply]
      /\ \A b \in Applies : apply'[b].at = "checking" =>
            apply'[b].of \in Posts /\ proposal[apply'[b].of].status # Nil
  BY <1>0, AnsweredTypes DEF Applied
<1>7. /\ applied' \in Seq(Posts) /\ Len(applied') = Len(applied) + 1
      /\ \A i \in DOMAIN applied : applied'[i] = applied[i]
      /\ applied'[Len(applied) + 1] = m
  BY <1>0 DEF Applied
<1>8. TypeOK'
  BY <1>0, <1>1, <1>5, <1>6, <1>7 DEF IInv, TypeOK
<1>9. \A q \in Posts : HoldsItsConversation(q)' /\ ResumesItsRun(q)' /\ AnswersItsMessage(q)'
  BY <1>0, <1>5, ProposalIsApart, RequestKept
<1>10. OneAnswer' /\ NoPartialProposal'
  BY <1>0, <1>2, <1>3, <1>5 DEF IInv, OneAnswer, NoPartialProposal, Answering, Nil
<1>11. \A n \in Posts : ProposalIsFinal(n)'
  <2>1. ASSUME NEW n \in Posts, proposal'[n].status = "applied"
        PROVE  proposal'[n].base.draft < now'.draft
    <3>1. proposal[n].base.draft \in Int /\ now.draft \in Int
      BY <1>0 DEF IInv, TypeOK, Proposal, Pins
    <3>2. proposal'[n].base = proposal[n].base /\ proposal[n].base.draft <= now.draft
      BY <1>2, <1>3, <1>5, <2>1, <3>1 DEF IInv, ProposalIsFinal
    <3>3. QED
      BY <1>1, <3>1, <3>2
  <2>2. ASSUME NEW n \in Posts, proposal'[n].status # Nil
        PROVE  run'[n].status \in {Nil, "completed", "stale"}
    BY <1>0, <1>5, <2>2 DEF IInv, ProposalIsFinal
  <2>3. QED
    BY <2>1, <2>2 DEF ProposalIsFinal
<1>12. \A b \in Applies : ChecksAProposal(b)'
  BY <1>3, <1>5, <1>6 DEF ChecksAProposal, Nil
<1>13. \A i \in DOMAIN applied : applied[i] \in Posts \ {m}
  BY <1>0, <1>2 DEF IInv
<1>14. SavedOnce' /\ \A i \in DOMAIN applied' : proposal'[applied'[i]].status = "applied"
  <2>1. DOMAIN applied' = DOMAIN applied \cup {Len(applied) + 1}
    BY <1>0, <1>7
  <2>2. \A i \in DOMAIN applied : applied[i] # m /\ proposal'[applied[i]].status = "applied"
    BY <1>5, <1>13 DEF IInv
  <2>3. QED
    BY <1>3, <1>5, <1>7, <2>1, <2>2 DEF IInv, SavedOnce
<1>15. QED
  BY <1>8, <1>9, <1>10, <1>11, <1>12, <1>14 DEF IInv

LEMMA HarnessMovedKeeps ==
    ASSUME ChatAssumption, NilAssumption, IInv, NEW a \in Applies, NEW m \in Posts, HarnessMoved(a, m)
    PROVE  IInv'
<1>0. /\ proposal[m].status # Nil /\ run[m] \in HarnessRun /\ NoPins \in Pins
      /\ UNCHANGED <<now, executing, running, post, message, proposal, applied>>
  BY UnusedIsRequest DEF IInv, TypeOK, HarnessMoved, ChecksAProposal
<1>1. /\ run' = [run EXCEPT ![m] = [run[m] EXCEPT !.status = "stale"]]
      /\ [run[m] EXCEPT !.status = "stale"] \in HarnessRun
  BY <1>0 DEF HarnessMoved, HarnessRun
<1>2. /\ run' \in [Posts -> HarnessRun] /\ run'[m].status = "stale"
      /\ \A n \in Posts \ {m} : run'[n] = run[n]
  BY <1>0, <1>1 DEF IInv, TypeOK, HarnessRun
<1>3. /\ apply' \in [Applies -> Apply]
      /\ \A b \in Applies : apply'[b].at = "checking" =>
            apply'[b].of \in Posts /\ proposal[apply'[b].of].status # Nil
  BY <1>0, AnsweredTypes DEF HarnessMoved
<1>4. TypeOK' /\ \A b \in Applies : ChecksAProposal(b)'
  BY <1>0, <1>2, <1>3 DEF IInv, TypeOK, ChecksAProposal
<1>5. \A q \in Posts : HoldsItsConversation(q)' /\ ResumesItsRun(q)' /\ AnswersItsMessage(q)'
  BY <1>0, <1>2, ProposalIsApart, RequestKept
<1>6. OneAnswer' /\ NoPartialProposal' /\ SavedOnce'
  BY <1>0, <1>2, ProposalIsApart DEF IInv, OneAnswer, NoPartialProposal, SavedOnce, Answering
<1>7. \A n \in Posts : ProposalIsFinal(n)'
  BY <1>0, <1>2 DEF IInv, ProposalIsFinal
<1>8. QED
  BY <1>0, <1>4, <1>5, <1>6, <1>7 DEF IInv

LEMMA AppliesKeep ==
    ASSUME ChatAssumption, NilAssumption, IInv, NEW a \in Applies, NEW m \in Posts,
           \/ AppliesAgain(a, m) \/ HarnessApplies(a, m) \/ PlainApplies(a, m)
           \/ HarnessMoved(a, m) \/ HarnessHeld(a, m)
    PROVE  IInv'
<1>0. NoPins \in Pins /\ now \in Pins
  BY UnusedIsRequest DEF IInv, TypeOK
<1>1. CASE AppliesAgain(a, m)
  BY <1>0, <1>1, AnsweredKeeps DEF AppliesAgain
<1>2. CASE HarnessApplies(a, m)
  BY <1>0, <1>2, AnsweredKeeps DEF HarnessApplies, Nil
<1>3. ASSUME proposal[m].status # Nil, Decides(a, m) PROVE IInv'
  <2>1. CASE ApplyRefused(a, m)
    <3>1. (IF executing THEN "active" ELSE "stale") \in {Nil, "active", "stale", "applied"}
      OBVIOUS
    <3>2. QED
      BY <1>0, <2>1, <3>1, AnsweredKeeps DEF ApplyRefused
  <2>2. QED
    BY <1>3, <2>1, AppliedKeeps DEF Decides
<1>4. CASE PlainApplies(a, m)
  BY <1>3, <1>4 DEF PlainApplies, Nil
<1>5. CASE HarnessHeld(a, m)
  BY <1>3, <1>5 DEF HarnessHeld, IInv, ChecksAProposal
<1>6. QED
  BY <1>1, <1>2, <1>4, <1>5, HarnessMovedKeeps

\* Nothing is under way after a restart, and a proposal that was saved by the turn the
\* server died in is of all of an answer.
LEMMA StartsUpKeeps ==
    ASSUME ChatAssumption, NilAssumption, IInv, StartsUp, proposal' \in [Posts -> Proposal],
           \A m \in Posts : \/ proposal'[m] = proposal[m]
                           \/ /\ proposal'[m].status = "pending" /\ proposal'[m].whole
                              /\ message[m].status = "running" /\ run[m].status \in {Nil, "completed"}
    PROVE  IInv'
<1>0. UNCHANGED <<now, executing, applied>>
  BY DEF StartsUp
<1>1. /\ message' \in [Posts -> Message] /\ run' \in [Posts -> HarnessRun]
      /\ \A m \in Posts : /\ message'[m].status # "running" /\ run'[m].status # "running"
                          /\ message[m].status = "running" => message'[m].status = "interrupted"
                          /\ message[m].status # "running" => message'[m] = message[m]
                          /\ run[m].status # "running" => run'[m] = run[m]
  <2>1. message \in [Posts -> Message] /\ run \in [Posts -> HarnessRun]
    BY DEF IInv, TypeOK
  <2>2. \A m \in Posts : LET told == [message[m] EXCEPT !.status = "interrupted"]
                             ended == [run[m] EXCEPT !.status = "interrupted"]
                         IN  /\ told \in Message /\ told.status = "interrupted"
                             /\ ended \in HarnessRun /\ ended.status = "interrupted"
    BY <2>1 DEF Message, HarnessRun, Resumable
  <2>3. /\ message' = [m \in Posts |-> IF message[m].status = "running"
                                        THEN [message[m] EXCEPT !.status = "interrupted"] ELSE message[m]]
        /\ run' = [m \in Posts |-> IF run[m].status = "running"
                                    THEN [run[m] EXCEPT !.status = "interrupted"] ELSE run[m]]
    BY DEF StartsUp, Restarted
  <2>4. QED
    BY <2>1, <2>2, <2>3
<1>2. /\ post' \in [Posts -> PostRow] /\ running' \in [Conversations -> Posts \cup {Nil}]
      /\ \A q \in Posts : post'[q].at \in {"new", "over"} /\ (post'[q].at = "new" => post'[q] = post[q])
      /\ \A q \in Posts : post'[q].of # Nil => post'[q] = post[q]
  BY UnusedIsRequest DEF IInv, TypeOK, StartsUp, PostRow
<1>3. /\ apply' \in [Applies -> Apply]
      /\ \A a \in Applies : apply'[a].at # "checking"
  <2>1. NoPins \in Pins /\ \A a \in Applies : apply[a] \in Apply
    BY UnusedIsRequest DEF IInv, TypeOK
  <2>2. \A a \in Applies : LET over == [apply[a] EXCEPT !.at = "over", !.pins = NoPins]
                           IN  over \in Apply /\ over.at = "over"
    BY <2>1 DEF Apply
  <2>3. apply' = [a \in Applies |-> IF apply[a].at = "new" THEN apply[a]
                                    ELSE [apply[a] EXCEPT !.at = "over", !.pins = NoPins]]
    BY DEF StartsUp
  <2>4. QED
    BY <2>1, <2>2, <2>3
<1>4. TypeOK'
  BY <1>0, <1>1, <1>2, <1>3 DEF IInv, TypeOK
<1>5. \A q \in Posts : HoldsItsConversation(q)' /\ ResumesItsRun(q)' /\ AnswersItsMessage(q)'
  BY <1>0, <1>1, <1>2
  DEF IInv, HoldsItsConversation, ResumesItsRun, AnswersItsMessage, Nil, Holding, UnderWay
<1>6. OneAnswer'
  BY <1>1, <1>2 DEF OneAnswer, Holding, UnderWay
<1>7. NoPartialProposal'
  BY <1>1 DEF IInv, NoPartialProposal, Nil
<1>8. \A m \in Posts : ProposalIsFinal(m)'
  BY <1>0, <1>1 DEF IInv, ProposalIsFinal, Nil
<1>9. SavedOnce' /\ \A i \in DOMAIN applied' : proposal'[applied'[i]].status = "applied"
  <2>1. \A i \in DOMAIN applied : applied[i] \in Posts
    BY DEF IInv, TypeOK
  <2>2. QED
    BY <1>0, <2>1 DEF IInv, SavedOnce, NoPartialProposal, Nil
<1>10. QED
  BY <1>3, <1>4, <1>5, <1>6, <1>7, <1>8, <1>9 DEF IInv, ChecksAProposal

LEMMA RestartsKeeps ==
    ASSUME ChatAssumption, NilAssumption, IInv,
           Restarts \/ \E r \in Posts : DiesAfterProposal(r)
    PROVE  IInv'
<1>1. CASE Restarts
  BY <1>1, StartsUpKeeps DEF Restarts, IInv, TypeOK
<1>2. ASSUME NEW r \in Posts, DiesAfterProposal(r) PROVE IInv'
  <2>1. post[r].at \in UnderWay /\ post[r].at = "answered" /\ StartsUp /\ Saves(r)
    BY <1>2 DEF DiesAfterProposal, MayComplete, UnderWay
  <2> DEFINE m     == Answering(r)
             offer == [status |-> "pending", base |-> post[r].pins, whole |-> post[r].at = "answered"]
  <2>2. /\ m \in Posts /\ offer \in Proposal /\ offer.whole
        /\ message[m].status = "running" /\ run[m].status \in {Nil, "completed"}
    BY <2>1, UnderWayTypes DEF RunAt, Proposal
  <2>3. proposal' = [proposal EXCEPT ![m] = offer] /\ offer.status = "pending"
    BY <2>1 DEF Saves
  <2> HIDE DEF offer
  <2>4. /\ proposal' \in [Posts -> Proposal] /\ proposal'[m] = offer
        /\ \A n \in Posts \ {m} : proposal'[n] = proposal[n]
    BY <2>2, <2>3 DEF IInv, TypeOK
  <2>5. QED
    BY <2>1, <2>2, <2>3, <2>4, StartsUpKeeps
<1>3. QED
  BY <1>1, <1>2

LEMMA InitIInv == ChatAssumption /\ NilAssumption /\ Init => IInv
<1> SUFFICES ASSUME ChatAssumption, Init PROVE IInv
  OBVIOUS
<1>1. NoPins \in Pins
  BY UnusedIsRequest
<1>2. TypeOK
  <2>1. now \in Pins /\ executing \in BOOLEAN /\ running \in [Conversations -> Posts \cup {Nil}]
    BY <1>1 DEF Init
  <2>2. post \in [Posts -> PostRow] /\ message \in [Posts -> Message]
    BY <1>1 DEF Init, Unused, PostRow, Message
  <2>3. run \in [Posts -> HarnessRun] /\ proposal \in [Posts -> Proposal]
    BY <1>1 DEF Init, HarnessRun, Proposal
  <2>4. apply \in [Applies -> Apply] /\ applied \in Seq(Posts)
    BY <1>1 DEF Init, Apply
  <2>5. QED
    BY <2>1, <2>2, <2>3, <2>4 DEF TypeOK
<1>3. QED
  BY <1>2 DEF Init, IInv, OneAnswer, NoPartialProposal, SavedOnce, HoldsItsConversation, ResumesItsRun,
     AnswersItsMessage, ProposalIsFinal, ChecksAProposal, Unused, Nil, Holding, UnderWay

LEMMA NextIInv == ChatAssumption /\ NilAssumption /\ IInv /\ [Next]_vars => IInv'
<1> SUFFICES ASSUME ChatAssumption, NilAssumption, IInv, [Next]_vars PROVE IInv'
  OBVIOUS
<1>1. CASE ExecutionMoves \/ \E field \in DOMAIN now : Changes(field)
  BY <1>1, OthersKeep
<1>2. CASE Restarts \/ \E r \in Posts : DiesAfterProposal(r)
  BY <1>2, RestartsKeeps
<1>3. ASSUME NEW r \in Posts, NEW c \in Conversations, Begins(r, c) PROVE IInv'
  BY <1>3, BeginsKeeps
<1>4. ASSUME NEW r \in Posts, NEW m \in Posts \cup {Nil}, NEW harness \in BOOLEAN, Accepts(r, m, harness)
      PROVE  IInv'
  BY <1>4, AcceptsKeeps
<1>5. ASSUME NEW r \in Posts, Refuses(r) PROVE IInv'
  BY <1>5, EndedTurn DEF Refuses
<1>6. ASSUME NEW r \in Posts, Aborts(r) \/ ResumeIsStale(r) PROVE IInv'
  BY <1>6, AbortsKeeps, ResumeIsStaleKeeps
<1>7. ASSUME NEW r \in Posts, NEW fits \in BOOLEAN, Streams(r, fits) PROVE IInv'
  BY <1>7, StreamsKeeps
<1>8. ASSUME NEW r \in Posts,
             Settles(r) \/ CompletionUnsaved(r) \/ \E proposes \in BOOLEAN : Completes(r, proposes)
      PROVE  IInv'
  BY <1>8, EndsKeeps
<1>9. ASSUME NEW a \in Applies, NEW m \in Posts,
             \/ AppliesAgain(a, m) \/ HarnessApplies(a, m) \/ PlainApplies(a, m)
             \/ HarnessMoved(a, m) \/ HarnessHeld(a, m)
      PROVE  IInv'
  BY <1>9, AppliesKeep
<1>10. CASE UNCHANGED vars
  BY <1>10 DEF vars, IInv, TypeOK, OneAnswer, NoPartialProposal, SavedOnce, HoldsItsConversation,
     ResumesItsRun, AnswersItsMessage, ProposalIsFinal, ChecksAProposal, Answering, Messages, RunAt
<1>11. QED
  BY <1>1, <1>2, <1>3, <1>4, <1>5, <1>6, <1>7, <1>8, <1>9, <1>10 DEF Next

------------------------------------------------------------------------------
(***************************************************************************)
(* The theorems.                                                           *)
(***************************************************************************)
\* A request holds its conversation until it ends, and what it answers is touched by
\* no other request: the inductive invariant holds of every state.
THEOREM Invariance == ASSUME ChatAssumption, NilAssumption PROVE Spec => []IInv
  BY InitIInv, NextIInv, PTL DEF Spec

\* The requests, messages, runs and proposals keep to their types.
THEOREM TypeCorrectness == ASSUME ChatAssumption, NilAssumption PROVE Spec => []TypeOK
<1>1. IInv => TypeOK
  BY DEF IInv
<1>2. QED
  BY <1>1, Invariance, PTL

\* A conversation has one answer under way, and what is under way has a request.
THEOREM AnswerSafety == ASSUME ChatAssumption, NilAssumption PROVE Spec => []OneAnswer
<1>1. IInv => OneAnswer
  BY DEF IInv
<1>2. QED
  BY <1>1, Invariance, PTL

\* Only an answer that arrived in full holds a proposal, and one that was not stopped
\* and is not taken up again, wherever the server died and whichever write failed.
THEOREM ProposalSafety == ASSUME ChatAssumption, NilAssumption PROVE Spec => []NoPartialProposal
<1>1. IInv => NoPartialProposal
  BY DEF IInv
<1>2. QED
  BY <1>1, Invariance, PTL

\* However apply requests overlap, a proposal is saved as one draft only.
THEOREM SavedAsOneDraft == ASSUME ChatAssumption, NilAssumption PROVE Spec => []SavedOnce
<1>1. IInv => SavedOnce
  BY DEF IInv
<1>2. QED
  BY <1>1, Invariance, PTL

\* What the one step that applies a proposal looks at.
LEMMA AppliesToBaseStep == NilAssumption /\ IInv /\ [Next]_vars => AppliedToItsBaseStep
<1> SUFFICES ASSUME NilAssumption, IInv, [Next]_vars PROVE AppliedToItsBaseStep
  OBVIOUS
<1>1. SUFFICES ASSUME NEW m \in Posts, proposal[m].status = "pending", proposal'[m].status = "applied"
               PROVE  /\ now.draft = proposal[m].base.draft
                      /\ now.evidence = proposal[m].base.evidence /\ ~executing
  BY DEF AppliedToItsBaseStep
<1>2. proposal \in [Posts -> Proposal] /\ proposal' # proposal
  BY <1>1 DEF IInv, TypeOK
<1>3. ASSUME NEW a \in Applies, NEW n \in Posts, Applied(a, n)
      PROVE  now.draft = proposal[m].base.draft /\ now.evidence = proposal[m].base.evidence /\ ~executing
  <2>1. n = m
    BY <1>1, <1>2, <1>3 DEF Applied
  <2>2. QED
    BY <1>3, <2>1 DEF Applied, Fresh
<1>4. ASSUME NEW r \in Posts, Saves(r) PROVE FALSE
  <2> DEFINE offer == [status |-> "pending", base |-> post[r].pins, whole |-> post[r].at = "answered"]
  <2>1. proposal' = [proposal EXCEPT ![Answering(r)] = offer] /\ offer.status = "pending"
    BY <1>4 DEF Saves
  <2> HIDE DEF offer
  <2>2. QED
    BY <1>1, <1>2, <2>1
<1>5. QED
  BY <1>2, <1>3, <1>4 DEF Next, vars, Changes, ExecutionMoves, Restarts, DiesAfterProposal, Begins,
     Accepts, Refuses, Aborts, ResumeIsStale, Settles, CaptureFails, AnswerArrives, RunFails, Fails,
     Completes, CompletionUnsaved, Streams, AppliesAgain, HarnessApplies, PlainApplies, HarnessMoved,
     HarnessHeld, Decides, ApplyRefused

\* A proposal is written over the draft and the evidence it was made from, and never
\* under a running execution, although its check waits.
THEOREM AppliesToBase == ASSUME ChatAssumption, NilAssumption PROVE Spec => AppliedToItsBase
  BY AppliesToBaseStep, Invariance, PTL DEF Spec, AppliedToItsBase

\* What the turn looks at that completes an answer or keeps its proposal.
LEMMA AcceptsUnderPinsStep == NilAssumption /\ IInv /\ [Next]_vars => AcceptedUnderPinsStep
<1> SUFFICES ASSUME NilAssumption, IInv, [Next]_vars PROVE AcceptedUnderPinsStep
  OBVIOUS
<1>1. SUFFICES ASSUME NEW r \in Posts, post[r].at \in UnderWay,
                      message[Answering(r)].status = "running",
                      message'[Answering(r)].status = "completed" \/ proposal'[Answering(r)].status = "pending"
               PROVE  RequestPinsHold(r)
  BY DEF AcceptedUnderPinsStep
<1> DEFINE m == Answering(r)
<1>2. /\ message \in [Posts -> Message] /\ proposal \in [Posts -> Proposal] /\ m \in Posts
      /\ \A q \in Posts \ {r} : post[q].at \in UnderWay => Answering(q) # m
  BY <1>1, AnsweringAlone DEF IInv, TypeOK, Holding
<1>3. proposal[m].status = Nil /\ Nil # "pending"
  BY <1>1, <1>2 DEF IInv, NoPartialProposal, Nil
<1>4. ASSUME NEW q \in Posts, MayComplete(q),
             \E status \in Ended : Tells(q, status) /\ (Saves(q) \/ UNCHANGED proposal)
      PROVE  RequestPinsHold(r)
  <2>1. post[q].at \in UnderWay /\ RequestPinsHold(q)
    BY <1>4 DEF MayComplete, UnderWay
  <2>2. q = r \/ (message'[m] = message[m] /\ proposal'[m] = proposal[m])
    BY <1>2, <1>4, <2>1 DEF Tells, Saves
  <2>3. QED
    BY <1>1, <1>3, <2>1, <2>2
<1>5. ASSUME NEW q \in Posts, (\E proposes \in BOOLEAN : Completes(q, proposes)) \/ CompletionUnsaved(q)
      PROVE  RequestPinsHold(r)
  BY <1>4, <1>5 DEF Completes, CompletionUnsaved, Ended
<1>6. StartsUp => message'[m].status # "completed"
  <2>1. [message[m] EXCEPT !.status = "interrupted"].status = "interrupted"
    BY <1>2 DEF Message
  <2>2. QED
    BY <1>1, <1>2, <2>1 DEF StartsUp, Restarted
<1>7. ASSUME NEW q \in Posts, DiesAfterProposal(q) PROVE RequestPinsHold(r)
  <2>1. post[q].at \in UnderWay /\ RequestPinsHold(q) /\ StartsUp /\ Saves(q)
    BY <1>7 DEF DiesAfterProposal, MayComplete, UnderWay
  <2>2. q = r \/ proposal'[m] = proposal[m]
    BY <1>2, <2>1 DEF Saves
  <2>3. QED
    BY <1>1, <1>3, <1>6, <2>1, <2>2
<1>9. ASSUME NEW q \in Posts, NEW fits \in BOOLEAN, Streams(q, fits) PROVE FALSE
  <2> DEFINE told == IF post[q].of # Nil THEN [message[Answering(q)] EXCEPT !.status = "running"]
                     ELSE [status |-> IF fits THEN "running" ELSE "failed",
                           conversation |-> post[q].conversation, order |-> NextOrder]
  <2>1. Answering(q) \in Posts
    BY <1>9, AnsweringAlone DEF Streams, Holding
  <2>2. told.status # "completed"
    BY <1>2, <2>1 DEF Message
  <2>3. message' = [message EXCEPT ![Answering(q)] = told] /\ UNCHANGED proposal
    BY <1>9 DEF Streams
  <2> HIDE DEF told
  <2>4. QED
    BY <1>1, <1>2, <1>3, <2>2, <2>3
<1>11. ASSUME NEW q \in Posts, Fails(q) PROVE FALSE
  <2>1. message' = [message EXCEPT ![Answering(q)] = [message[Answering(q)] EXCEPT !.status = FailureOf(q)]]
        /\ FailureOf(q) # "completed" /\ UNCHANGED proposal
    BY <1>11 DEF Fails, Tells, FailureOf
  <2>2. [message[m] EXCEPT !.status = FailureOf(q)].status = FailureOf(q)
    BY <1>2 DEF Message
  <2>3. QED
    BY <1>1, <1>2, <1>3, <2>1, <2>2
<1>12. CASE Restarts
  BY <1>1, <1>3, <1>6, <1>12 DEF Restarts
<1>13. ASSUME NEW a \in Applies, NEW n \in Posts, Applied(a, n) PROVE FALSE
  <2>1. proposal' = [proposal EXCEPT ![n] = [proposal[n] EXCEPT !.status = "applied"]] /\ UNCHANGED message
    BY <1>13 DEF Applied
  <2>2. [proposal[m] EXCEPT !.status = "applied"].status = "applied"
    BY <1>2 DEF Proposal
  <2>3. QED
    BY <1>1, <1>2, <1>3, <2>1, <2>2
<1>14. QED
  BY <1>1, <1>3, <1>5, <1>7, <1>9, <1>11, <1>12, <1>13 DEF Next, vars, Changes, ExecutionMoves,
     Begins, Accepts, Refuses, Aborts, ResumeIsStale, Settles, CaptureFails, AnswerArrives, RunFails,
     AppliesAgain, HarnessApplies, PlainApplies, HarnessMoved, HarnessHeld, Decides, ApplyRefused

\* An answer that is accepted, and a proposal that is kept, was made under the settings
\* and the provider that are in force when it is.
THEOREM AcceptsUnderPins == ASSUME ChatAssumption, NilAssumption PROVE Spec => AcceptedUnderPins
  BY AcceptsUnderPinsStep, Invariance, PTL DEF Spec, AcceptedUnderPins


------------------------------------------------------------------------------
(***************************************************************************)
(* The operators of the model.                                             *)
(***************************************************************************)

\* A run that has stages left is at one of the three, which has its room.
LEMMA StageOfRun ==
    ASSUME HarnessAssumption, NEW r \in Runs, row[r].handoffs \in Seq(Values),
           Len(row[r].handoffs) < Len(Stages)
    PROVE  /\ Stage(r) \in Range(Stages)
           /\ Room[Stage(r)] \in Nat
<1>1. Len(Stages) = 3 /\ DOMAIN Stages = 1..3
  BY DEF Stages
<1>2. Len(row[r].handoffs) + 1 \in DOMAIN Stages
  BY <1>1
<1>3. QED
  BY <1>2 DEF Stage, Range, HarnessAssumption

\* What is left for an answer is at most what the budget leaves.
LEMMA LimitOfStage ==
    ASSUME HarnessAssumption, NEW r \in Runs, row[r].handoffs \in Seq(Values),
           Len(row[r].handoffs) < Len(Stages), work[r].used \in Nat
    PROVE  OutputLimit(r) \in Int /\ OutputLimit(r) <= Budget - work[r].used - InputTokens
  BY StageOfRun DEF OutputLimit, Min2, HarnessAssumption

\* A cached result is 0 when there is none, or the value of an entry with the key.
LEMMA CachedIsOfKey ==
    ASSUME HarnessAssumption, HarnessTypeOK, NEW r \in Runs
    PROVE  /\ Cached(r) \in Values \cup {0}
           /\ Cached(r) # 0 =>
                 \E i \in DOMAIN cache : cache[i].key = Key(r) /\ cache[i].value = Cached(r)
<1>1. CASE RowsOf(Key(r)) = {}
  BY <1>1 DEF Cached
<1>2. CASE RowsOf(Key(r)) # {}
  <2> DEFINE i == CHOOSE i \in RowsOf(Key(r)) : TRUE
  <2>1. i \in DOMAIN cache /\ cache[i].key = Key(r)
    BY <1>2 DEF RowsOf
  <2>2. Cached(r) = cache[i].value
    BY <1>2 DEF Cached
  <2> HIDE DEF i
  <2>3. cache[i].value \in Values
    <3>1. cache[i] \in Entry
      BY <2>1 DEF HarnessTypeOK
    <3>2. QED
      BY <3>1 DEF Entry
  <2>4. QED
    BY <2>1, <2>2, <2>3
<1>3. QED
  BY <1>1, <1>2

\* RemoveAt closes the gap it leaves.
LEMMA Removed ==
    ASSUME NEW S, NEW s \in Seq(S), NEW i \in 1..Len(s)
    PROVE  /\ RemoveAt(s, i) \in Seq(S) /\ Len(RemoveAt(s, i)) = Len(s) - 1
           /\ \A j \in 1..(Len(s) - 1) : RemoveAt(s, i)[j] = IF j < i THEN s[j] ELSE s[j + 1]
<1> DEFINE front == SubSeq(s, 1, i - 1)
           back  == SubSeq(s, i + 1, Len(s))
<1>1. /\ front \in Seq(S) /\ Len(front) = i - 1
      /\ \A j \in 1..(i - 1) : front[j] = s[j]
  <2>1. \A j \in 1..(i - 1) : s[j] \in S
    OBVIOUS
  <2>2. /\ SubSeq(s, 1, i - 1) \in Seq(S)
        /\ Len(SubSeq(s, 1, i - 1)) = IF 1 <= i - 1 THEN (i - 1) - 1 + 1 ELSE 0
        /\ \A j \in 1..((i - 1) - 1 + 1) : SubSeq(s, 1, i - 1)[j] = s[1 + j - 1]
    BY <2>1, SubSeqProperties
  <2>3. QED
    BY <2>2
<1>2. /\ back \in Seq(S) /\ Len(back) = Len(s) - i
      /\ \A j \in 1..(Len(s) - i) : back[j] = s[i + j]
  <2>1. \A j \in (i + 1)..Len(s) : s[j] \in S
    OBVIOUS
  <2>2. /\ SubSeq(s, i + 1, Len(s)) \in Seq(S)
        /\ Len(SubSeq(s, i + 1, Len(s))) =
              IF i + 1 <= Len(s) THEN Len(s) - (i + 1) + 1 ELSE 0
        /\ \A j \in 1..(Len(s) - (i + 1) + 1) : SubSeq(s, i + 1, Len(s))[j] = s[(i + 1) + j - 1]
    BY <2>1, SubSeqProperties
  <2>3. QED
    BY <2>2
<1> HIDE DEF front, back
<1>3. /\ front \o back \in Seq(S) /\ Len(front \o back) = Len(s) - 1
      /\ \A j \in 1..(Len(s) - 1) : (front \o back)[j] = IF j < i THEN s[j] ELSE s[j + 1]
  <2>1. /\ front \o back \in Seq(S) /\ Len(front \o back) = Len(front) + Len(back)
        /\ \A j \in 1..(Len(front) + Len(back)) : (front \o back)[j] =
              IF j <= Len(front) THEN front[j] ELSE back[j - Len(front)]
    BY <1>1, <1>2, ConcatProperties
  <2>2. QED
    BY <1>1, <1>2, <2>1
<1>4. QED
  BY <1>3 DEF RemoveAt, front, back

\* The entries of other keys are entries of the cache, and no more of them.
LEMMA OthersAreKept ==
    ASSUME NEW key, cache \in Seq(Entry)
    PROVE  /\ Others(key) \in Seq(Entry) /\ Len(Others(key)) <= Len(cache)
           /\ \A j \in DOMAIN Others(key) : \E k \in DOMAIN cache : Others(key)[j] = cache[k]
<1>1. CASE RowsOf(key) = {}
  BY <1>1 DEF Others
<1>2. CASE RowsOf(key) # {}
  <2> DEFINE i == CHOOSE i \in RowsOf(key) : TRUE
  <2>1. i \in 1..Len(cache) /\ Others(key) = RemoveAt(cache, i)
    BY <1>2 DEF RowsOf, Others
  <2> HIDE DEF i
  <2>2. /\ Others(key) \in Seq(Entry) /\ Len(Others(key)) = Len(cache) - 1
        /\ \A j \in 1..(Len(cache) - 1) : Others(key)[j] = IF j < i THEN cache[j] ELSE cache[j + 1]
    BY <2>1, Removed
  <2>3. QED
    BY <2>1, <2>2
<1>3. QED
  BY <1>1, <1>2

\* Writing an entry over that of its key adds that entry and no other one.
LEMMA KeptEntries ==
    ASSUME HarnessAssumption, NEW key, NEW entry \in Entry, cache \in Seq(Entry),
           Len(cache) <= CacheSize
    PROVE  LET new == Kept(Append(Others(key), entry)) IN
           /\ new \in Seq(Entry) /\ Len(new) <= CacheSize
           /\ \A j \in DOMAIN new : new[j] = entry \/ \E k \in DOMAIN cache : new[j] = cache[k]
<1> DEFINE all == Append(Others(key), entry)
<1>1. /\ all \in Seq(Entry) /\ Len(all) <= CacheSize + 1
      /\ \A j \in DOMAIN all : all[j] = entry \/ \E k \in DOMAIN cache : all[j] = cache[k]
  <2>1. /\ Others(key) \in Seq(Entry) /\ Len(Others(key)) <= CacheSize
        /\ \A j \in DOMAIN Others(key) : \E k \in DOMAIN cache : Others(key)[j] = cache[k]
    BY OthersAreKept DEF HarnessAssumption
  <2> DEFINE others == Others(key)
  <2> HIDE DEF others
  <2>2. others \in Seq(Entry) => Append(others, entry) \in Seq(Entry) /\ Len(Append(others, entry)) = Len(others) + 1
           /\ \A j \in DOMAIN Append(others, entry) : Append(others, entry)[j] = entry \/ (j \in DOMAIN others /\ Append(others, entry)[j] = others[j])
    OBVIOUS
  <2>3. QED
    BY <2>1, <2>2 DEF others, HarnessAssumption
<1> HIDE DEF all
<1>2. CASE Len(all) > CacheSize
  <2>1. /\ Tail(all) \in Seq(Entry) /\ Len(Tail(all)) = Len(all) - 1
        /\ \A j \in DOMAIN Tail(all) : Tail(all)[j] = all[j + 1] /\ j + 1 \in DOMAIN all
    BY <1>1, <1>2 DEF HarnessAssumption
  <2>2. QED
    BY <1>1, <1>2, <2>1 DEF Kept, all, HarnessAssumption
<1>3. CASE ~(Len(all) > CacheSize)
  BY <1>1, <1>3 DEF Kept, all, HarnessAssumption
<1>4. QED
  BY <1>2, <1>3

------------------------------------------------------------------------------
(***************************************************************************)
(* One step per action.                                                    *)
(***************************************************************************)
\* What a run keeps when its stages, its usage and its handoffs are left alone: the
\* invariant, if what it holds is kept too or given up.
SameRow(r) ==
    /\ row'[r].handoffs = row[r].handoffs
    /\ row'[r].estimated = row[r].estimated
    /\ row'[r].reported = row[r].reported

LEMMA HeldIsKept ==
    ASSUME HarnessIInv, NEW r \in Runs, SameRow(r), made \subseteq made',
           work'[r] = work[r] \/ work'[r].at \in {"rest", "between"}
    PROVE  StageWithinBudget(r)' /\ StageIsMade(r)'
<1>1. CASE work'[r] = work[r]
  BY <1>1 DEF SameRow, HarnessIInv, StageWithinBudget, StageIsMade, Output, Stage, Used, OutputLimit
<1>2. CASE work'[r].at \in {"rest", "between"}
  BY <1>2 DEF StageWithinBudget, StageIsMade
<1>3. QED
  BY <1>1, <1>2

\* The handoffs, the cache and the usage are left alone by all but two actions.
LEMMA RecordsKept ==
    ASSUME HarnessIInv, made \subseteq made', UNCHANGED <<cache, spent>>,
           \A r \in Runs : SameRow(r)
    PROVE  UsageIsRecorded' /\ HandoffsFollow' /\ CacheIsMade'
  BY DEF HarnessIInv, SameRow, UsageIsRecorded, HandoffsFollow, CacheIsMade

\* The rest of the type invariant follows when what a run and its runner are is kept
\* to their types.
LEMMA TypesKept ==
    ASSUME HarnessTypeOK, UNCHANGED <<cache, spent>>, moved' \in BOOLEAN,
           row' \in [Runs -> Row], work' \in [Runs -> Work],
           \A r \in Runs : RunnerOfRow(r)'
    PROVE  HarnessTypeOK'
  BY DEF HarnessTypeOK

LEMMA RestingIsWork == Resting \in Work
  BY DEF Resting, Work

LEMMA StageEndsKeeps ==
    ASSUME HarnessIInv, NEW r \in Runs, NEW status \in Finished, Ends(r, status),
           UNCHANGED <<cache, moved, spent, made>>
    PROVE  HarnessIInv'
<1> USE DEF HarnessIInv, HarnessTypeOK
<1>1. row' \in [Runs -> Row]
  BY DEF Ends, Row
<1>2. work' \in [Runs -> Work]
  BY RestingIsWork DEF Ends
<1>3. \A q \in Runs : RunnerOfRow(q)'
  BY DEF Ends, Resting, RunnerOfRow, Row, Finished
<1>4. \A q \in Runs : SameRow(q) /\ (work'[q] = work[q] \/ work'[q].at = "rest")
  BY DEF SameRow, Ends, Resting, Row
<1>5. QED
  BY <1>1, <1>2, <1>3, <1>4, HeldIsKept, RecordsKept, TypesKept

LEMMA PinsMoveKeeps ==
    ASSUME HarnessIInv, PinsMove
    PROVE  HarnessIInv'
<1>1. HarnessTypeOK'
  BY DEF HarnessIInv, HarnessTypeOK, PinsMove, RunnerOfRow
<1>2. \A q \in Runs : SameRow(q) /\ work'[q] = work[q]
  BY DEF SameRow, PinsMove
<1>3. QED
  BY <1>1, <1>2, HeldIsKept, RecordsKept DEF HarnessIInv, PinsMove

LEMMA InvokesKeeps ==
    ASSUME HarnessIInv, NEW r \in Runs, Invokes(r)
    PROVE  HarnessIInv'
<1> USE DEF HarnessIInv, HarnessTypeOK
<1>1. row' \in [Runs -> Row]
  <2>1. row[r] \in Row /\ row[r].attempts + 1 \in Nat
    BY DEF Row
  <2>2. \A n \in Nat : [row[r] EXCEPT !.status = "running", !.attempts = n] \in Row
    BY <2>1 DEF Row
  <2>3. QED
    BY <2>1, <2>2 DEF Invokes
<1>2. work' \in [Runs -> Work]
  BY DEF Invokes, Work
<1>3. \A q \in Runs : RunnerOfRow(q)'
  BY DEF Invokes, RunnerOfRow, Row, Work
<1>4. \A q \in Runs : SameRow(q) /\ (work'[q] = work[q] \/ work'[q].at = "between")
  BY DEF SameRow, Invokes, Row, Work
<1>5. QED
  BY <1>1, <1>2, <1>3, <1>4, HeldIsKept, RecordsKept, TypesKept DEF Invokes

LEMMA HarnessRestartsKeeps ==
    ASSUME HarnessIInv, HarnessRestarts
    PROVE  HarnessIInv'
<1> USE DEF HarnessIInv, HarnessTypeOK
<1>1. row' \in [Runs -> Row]
  BY DEF HarnessRestarts, Row
<1>2. work' \in [Runs -> Work]
  BY RestingIsWork DEF HarnessRestarts
<1>3. \A q \in Runs : RunnerOfRow(q)'
  BY DEF HarnessRestarts, RunnerOfRow, Resting, Row
<1>4. \A q \in Runs : SameRow(q) /\ work'[q].at = "rest"
  BY DEF SameRow, HarnessRestarts, Row, Resting
<1>5. QED
  BY <1>1, <1>2, <1>3, <1>4, HeldIsKept, RecordsKept, TypesKept DEF HarnessRestarts

\* What the stage reads is the usage of the run, and a cached result of its handoffs.
LEMMA StageBeginsKeeps ==
    ASSUME HarnessAssumption, HarnessIInv, NEW r \in Runs, StageBegins(r)
    PROVE  HarnessIInv'
<1> DEFINE new == [Resting EXCEPT !.at = "pins", !.used = Used(r), !.cached = Cached(r)]
<1>0. Cached(r) \in Values \cup {0} /\ Used(r) \in Nat
  BY CachedIsOfKey DEF HarnessIInv, Used, Max2, HarnessTypeOK, Row
<1>1. new \in Work /\ new.at = "pins" /\ new.used = Used(r) /\ new.cached = Cached(r)
      /\ new.raw = 0
  BY <1>0 DEF Resting, Work
<1> HIDE DEF new
<1>2. row' = row /\ work' = [work EXCEPT ![r] = new] /\ UNCHANGED <<cache, moved, spent, made>>
  BY DEF StageBegins, new
<1>3. work' \in [Runs -> Work] /\ work'[r] = new /\ \A q \in Runs \ {r} : work'[q] = work[q]
  BY <1>1, <1>2 DEF HarnessIInv, HarnessTypeOK
<1>4. HarnessTypeOK'
  <2>1. \A q \in Runs : RunnerOfRow(q)'
    BY <1>1, <1>2, <1>3 DEF HarnessIInv, HarnessTypeOK, RunnerOfRow, StageBegins
  <2>2. QED
    BY <1>2, <1>3, <2>1, TypesKept DEF HarnessIInv, HarnessTypeOK
<1>5. \A q \in Runs : SameRow(q) /\ (q # r => work'[q] = work[q])
  BY <1>2, <1>3 DEF SameRow
<1>6. StageWithinBudget(r)'
  BY <1>1, <1>2, <1>3 DEF StageWithinBudget, Used
<1>7. StageIsMade(r)'
  <2>1. Cached(r) # 0 => Output(r, Cached(r)) \in made
    BY CachedIsOfKey DEF HarnessIInv, CacheIsMade, Key, Output
  <2>2. QED
    BY <1>1, <1>2, <1>3, <2>1 DEF StageIsMade, Output, Stage
<1>8. QED
  BY <1>2, <1>4, <1>5, <1>6, <1>7, HeldIsKept, RecordsKept DEF HarnessIInv

\* What a step of the stage does to what the runner holds, and to nothing else of the
\* run, is enough to look at.
LEMMA WorkSteps ==
    ASSUME HarnessIInv, NEW r \in Runs, NEW new \in Work,
           work' = [work EXCEPT ![r] = new], UNCHANGED <<row, cache, moved, spent>>,
           made \subseteq made',
           work[r].at \in {"pins", "streaming", "accepting"},
           new.at \in {"streaming", "accepting"},
           StageWithinBudget(r)', StageIsMade(r)'
    PROVE  HarnessIInv'
<1>1. /\ work' \in [Runs -> Work] /\ work'[r] = new
      /\ \A q \in Runs : SameRow(q) /\ (q # r => work'[q] = work[q])
  BY DEF HarnessIInv, HarnessTypeOK, SameRow
<1>2. \A q \in Runs : RunnerOfRow(q)'
  BY <1>1 DEF HarnessIInv, HarnessTypeOK, RunnerOfRow
<1>3. HarnessTypeOK'
  BY <1>1, <1>2, TypesKept DEF HarnessIInv, HarnessTypeOK
<1>4. QED
  BY <1>1, <1>3, HeldIsKept, RecordsKept DEF HarnessIInv

LEMMA PinsHeldKeeps ==
    ASSUME HarnessAssumption, HarnessIInv, NEW r \in Runs, PinsHeld(r)
    PROVE  HarnessIInv'
<1> DEFINE at  == IF work[r].cached # 0 THEN "accepting" ELSE "streaming"
           new == [work[r] EXCEPT !.at = at]
<1>0. work[r] \in Work
  BY DEF HarnessIInv, HarnessTypeOK
<1>1. new \in Work /\ new.at = at /\ new.used = work[r].used /\ new.cached = work[r].cached
      /\ new.raw = work[r].raw
  BY <1>0 DEF Work
<1> HIDE DEF new
<1>2. work' = [work EXCEPT ![r] = new] /\ work'[r] = new /\ UNCHANGED <<row, cache, moved, spent, made>>
  BY DEF PinsHeld, new, HarnessIInv, HarnessTypeOK
<1>3. StageWithinBudget(r)'
  <2>1. OutputLimit(r)' = OutputLimit(r) /\ Used(r)' = Used(r)
    BY <1>1, <1>2 DEF OutputLimit, Stage, Used
  <2>2. OutputLimit(r) \in Int
    BY <1>0, LimitOfStage DEF HarnessIInv, HarnessTypeOK, RunnerOfRow, Row, Work, PinsHeld
  <2>3. QED
    BY <1>0, <1>1, <1>2, <2>1, <2>2 DEF PinsHeld, StageWithinBudget, HarnessIInv, HarnessAssumption
<1>4. StageIsMade(r)'
  BY <1>0, <1>1, <1>2 DEF PinsHeld, StageIsMade, HarnessIInv, Output, Stage
<1>5. QED
  BY <1>1, <1>2, <1>3, <1>4, WorkSteps DEF PinsHeld

LEMMA DeltaKeeps ==
    ASSUME HarnessAssumption, HarnessIInv, NEW r \in Runs, Delta(r)
    PROVE  HarnessIInv'
<1> DEFINE new == [work[r] EXCEPT !.raw = @ + 1]
<1>0. /\ work[r] \in Work /\ row[r] \in Row /\ RunnerOfRow(r)
  BY DEF HarnessIInv, HarnessTypeOK
<1>1. new \in Work /\ new.at = "streaming" /\ new.used = work[r].used
      /\ new.cached = work[r].cached /\ new.raw = work[r].raw + 1
  BY <1>0 DEF Work, Delta
<1> HIDE DEF new
<1>2. work' = [work EXCEPT ![r] = new] /\ work'[r] = new /\ UNCHANGED <<row, cache, moved, spent, made>>
  BY DEF Delta, new, HarnessIInv, HarnessTypeOK
<1>3. OutputLimit(r) \in Int
  BY <1>0, LimitOfStage DEF RunnerOfRow, Row, Work, Delta
<1>4. StageWithinBudget(r)'
  <2>1. OutputLimit(r)' = OutputLimit(r) /\ Used(r)' = Used(r)
    BY <1>1, <1>2 DEF OutputLimit, Stage, Used
  <2>2. work[r].raw + 1 <= OutputLimit(r)
    BY <1>0, <1>3 DEF Delta, Work
  <2>3. QED
    BY <1>1, <1>2, <2>1, <2>2 DEF Delta, StageWithinBudget, HarnessIInv
<1>5. StageIsMade(r)'
  BY <1>1, <1>2 DEF StageIsMade
<1>6. QED
  BY <1>1, <1>2, <1>4, <1>5, WorkSteps DEF Delta

LEMMA ReportsUsageKeeps ==
    ASSUME HarnessIInv, NEW r \in Runs, ReportsUsage(r)
    PROVE  HarnessIInv'
<1> DEFINE new == [work[r] EXCEPT !.reported = @ + 1]
<1>0. work[r] \in Work
  BY DEF HarnessIInv, HarnessTypeOK
<1>1. new \in Work /\ new.at = "streaming" /\ new.used = work[r].used
      /\ new.cached = work[r].cached /\ new.raw = work[r].raw
  BY <1>0 DEF Work, ReportsUsage
<1> HIDE DEF new
<1>2. work' = [work EXCEPT ![r] = new] /\ work'[r] = new /\ UNCHANGED <<row, cache, moved, spent, made>>
  BY DEF ReportsUsage, new, HarnessIInv, HarnessTypeOK
<1>3. StageWithinBudget(r)'
  BY <1>1, <1>2 DEF ReportsUsage, StageWithinBudget, HarnessIInv, OutputLimit, Stage, Used
<1>4. StageIsMade(r)'
  BY <1>1, <1>2 DEF StageIsMade
<1>5. QED
  BY <1>1, <1>2, <1>3, <1>4, WorkSteps DEF ReportsUsage

LEMMA StreamValidatesKeeps ==
    ASSUME HarnessIInv, NEW r \in Runs, NEW value \in Values \cup {-1}, StreamValidates(r, value)
    PROVE  HarnessIInv'
<1> DEFINE new == [work[r] EXCEPT !.at = "accepting", !.value = value]
<1>0. work[r] \in Work /\ value \in Values
  BY DEF HarnessIInv, HarnessTypeOK, StreamValidates
<1>1. new \in Work /\ new.at = "accepting" /\ new.used = work[r].used
      /\ new.cached = work[r].cached /\ new.raw = work[r].raw /\ new.value = value
      /\ new.reported = work[r].reported
  BY <1>0 DEF Work
<1> HIDE DEF new
<1>2. /\ work' = [work EXCEPT ![r] = new] /\ work'[r] = new /\ UNCHANGED <<row, cache, moved, spent>>
      /\ made' = made \cup {Output(r, value)}
  BY DEF StreamValidates, new, HarnessIInv, HarnessTypeOK
<1>3. StageWithinBudget(r)'
  BY <1>1, <1>2 DEF StreamValidates, StageWithinBudget, HarnessIInv, OutputLimit, Stage, Used
<1>4. StageIsMade(r)'
  BY <1>1, <1>2 DEF StreamValidates, StageIsMade, Output, Stage, HarnessIInv, StageWithinBudget
<1>5. QED
  BY <1>1, <1>2, <1>3, <1>4, WorkSteps DEF StreamValidates

\* What an attempt that ends in failure adds to the usage is recorded as it is spent.
LEMMA AttemptFailsKeeps ==
    ASSUME HarnessAssumption, HarnessIInv, NEW r \in Runs, NEW status \in Finished, NEW over \in Nat,
           AttemptFails(r, over, status), UNCHANGED <<cache, moved, made>>
    PROVE  HarnessIInv'
<1> DEFINE tokens == InputTokens + work[r].raw + over
           ended == [row[r] EXCEPT !.status = status,
                                 !.estimated = @ + InputTokens + work[r].raw + over,
                                 !.reported = @ + work[r].reported]
<1> HIDE DEF ended
<1>0. row[r] \in Row /\ work[r] \in Work /\ InputTokens \in Nat
  BY DEF HarnessIInv, HarnessTypeOK, HarnessAssumption
<1>1. /\ tokens \in Nat
      /\ row[r].estimated + InputTokens + work[r].raw + over = row[r].estimated + tokens
      /\ row[r].estimated + tokens \in Nat /\ row[r].reported + work[r].reported \in Nat
  <2>1. /\ row[r].estimated \in Nat /\ row[r].reported \in Nat
        /\ work[r].raw \in Nat /\ work[r].reported \in Nat
    BY <1>0 DEF Row, Work
  <2>2. QED
    BY <1>0, <2>1
<1>2. ended = [row[r] EXCEPT !.status = status, !.estimated = row[r].estimated + tokens,
                           !.reported = row[r].reported + work[r].reported]
  BY <1>1 DEF ended
<1> HIDE DEF tokens
<1>3. /\ ended \in Row /\ ended.status = status /\ ended.handoffs = row[r].handoffs
      /\ ended.estimated = row[r].estimated + tokens
  <2>1. \A e, p \in Nat : LET new == [row[r] EXCEPT !.status = status, !.estimated = e, !.reported = p]
           IN  /\ new \in Row /\ new.status = status
               /\ new.handoffs = row[r].handoffs /\ new.estimated = e
    BY <1>0 DEF Row
  <2>2. QED
    BY <1>1, <1>2, <2>1
<1>4. /\ row' = [row EXCEPT ![r] = ended] /\ work' = [work EXCEPT ![r] = Resting]
      /\ spent' = [spent EXCEPT ![r] = @ + InputTokens + work[r].raw + over]
  BY DEF AttemptFails, ended
<1>5. /\ row' \in [Runs -> Row] /\ row'[r] = ended /\ \A q \in Runs \ {r} : row'[q] = row[q]
      /\ work' \in [Runs -> Work] /\ work'[r] = Resting
      /\ \A q \in Runs \ {r} : work'[q] = work[q]
  BY <1>3, <1>4, RestingIsWork DEF HarnessIInv, HarnessTypeOK
<1>6. /\ spent[r] \in Nat /\ spent' \in [Runs -> Nat] /\ spent'[r] = spent[r] + tokens
      /\ \A q \in Runs \ {r} : spent'[q] = spent[q]
  <2>1. spent \in [Runs -> Nat] /\ spent[r] \in Nat
    BY DEF HarnessIInv, HarnessTypeOK
  <2>2. spent[r] + InputTokens + work[r].raw + over = spent[r] + tokens /\ spent[r] + tokens \in Nat
    BY <1>0, <2>1 DEF Work, tokens
  <2>3. spent' = [spent EXCEPT ![r] = spent[r] + tokens]
    BY <1>4, <2>2
  <2>4. QED
    BY <2>1, <2>2, <2>3
<1>7. HarnessTypeOK'
  <2>1. RunnerOfRow(r)'
    BY <1>3, <1>5 DEF HarnessIInv, HarnessTypeOK, RunnerOfRow, Resting, Finished
  <2>2. \A q \in Runs \ {r} : RunnerOfRow(q)'
    BY <1>5 DEF HarnessIInv, HarnessTypeOK, RunnerOfRow
  <2>3. QED
    BY <1>5, <1>6, <2>1, <2>2 DEF HarnessIInv, HarnessTypeOK
<1>8. UsageIsRecorded'
  BY <1>3, <1>5, <1>6 DEF HarnessIInv, UsageIsRecorded
<1>9. HandoffsFollow' /\ CacheIsMade'
  BY <1>3, <1>5 DEF HarnessIInv, HandoffsFollow, CacheIsMade
<1>10. \A q \in Runs : StageWithinBudget(q)' /\ StageIsMade(q)'
  <2>1. StageWithinBudget(r)' /\ StageIsMade(r)'
    BY <1>5 DEF StageWithinBudget, StageIsMade, Resting
  <2>2. ASSUME NEW q \in Runs \ {r} PROVE StageWithinBudget(q)' /\ StageIsMade(q)'
    BY <1>5, HeldIsKept DEF SameRow
  <2>3. QED
    BY <2>1, <2>2
<1>11. QED
  BY <1>7, <1>8, <1>9, <1>10 DEF HarnessIInv

\* What a checkpoint appends to the handoffs, and adds to the usage.
AcceptedValue(r) == IF work[r].cached # 0 THEN work[r].cached ELSE work[r].value
Tokens(r)   == IF work[r].cached # 0 THEN 0 ELSE InputTokens + work[r].raw

LEMMA Checkpointed ==
    ASSUME HarnessAssumption, HarnessIInv, NEW r \in Runs, Checkpoints(r)
    PROVE  /\ AcceptedValue(r) \in Values /\ Output(r, AcceptedValue(r)) \in made /\ Tokens(r) \in Nat
           /\ row' \in [Runs -> Row] /\ \A q \in Runs \ {r} : row'[q] = row[q]
           /\ row'[r].handoffs = Append(row[r].handoffs, AcceptedValue(r))
           /\ row'[r].status = row[r].status
           /\ row'[r].estimated = row[r].estimated + Tokens(r)
           /\ row'[r].reported = row[r].reported + work[r].reported
<1> DEFINE ended == [row[r] EXCEPT !.handoffs = Append(@, AcceptedValue(r)), !.estimated = @ + Tokens(r),
                                 !.reported = @ + work[r].reported]
           h == Append(row[r].handoffs, AcceptedValue(r))
           e == row[r].estimated + Tokens(r)
           p == row[r].reported + work[r].reported
<1> HIDE DEF ended
<1>1. /\ row[r] \in Row /\ work[r] \in Work /\ InputTokens \in Nat
      /\ StageIsMade(r) /\ work[r].at = "accepting"
  BY DEF HarnessIInv, HarnessTypeOK, HarnessAssumption, Checkpoints
<1>2. AcceptedValue(r) \in Values /\ Output(r, AcceptedValue(r)) \in made
  BY <1>1 DEF StageIsMade, Work, AcceptedValue
<1>3. /\ Tokens(r) \in Nat /\ row[r].handoffs \in Seq(Values) /\ row[r].estimated \in Nat
      /\ row[r].reported \in Nat /\ work[r].reported \in Nat
  BY <1>1 DEF Row, Work, Tokens
<1>4. h \in Seq(Values) /\ e \in Nat /\ p \in Nat
  BY <1>2, <1>3
<1>5. ended = [row[r] EXCEPT !.handoffs = h, !.estimated = e, !.reported = p]
  BY DEF ended
<1> HIDE DEF h, e, p
<1>6. /\ ended \in Row /\ ended.handoffs = h /\ ended.status = row[r].status
      /\ ended.estimated = e /\ ended.reported = p
  BY <1>1, <1>4, <1>5 DEF Row
<1>7. row' = [row EXCEPT ![r] = ended]
  BY DEF Checkpoints, ended, AcceptedValue, Tokens
<1>8. row' \in [Runs -> Row] /\ row'[r] = ended /\ \A q \in Runs \ {r} : row'[q] = row[q]
  BY <1>6, <1>7 DEF HarnessIInv, HarnessTypeOK
<1>9. QED
  BY <1>2, <1>3, <1>6, <1>8 DEF h, e, p

\* A checkpoint appends what was made from the handoffs before it, and records what
\* it took.
LEMMA CheckpointsKeeps ==
    ASSUME HarnessAssumption, HarnessIInv, NEW r \in Runs, Checkpoints(r)
    PROVE  HarnessIInv'
<1> DEFINE cached == work[r].cached # 0
           value == AcceptedValue(r)
           entry == [key |-> Key(r), value |-> value]
           new == [Resting EXCEPT !.at = "between"]
<1> HIDE DEF new
<1>0. /\ row[r] \in Row /\ RunnerOfRow(r) /\ work[r].at = "accepting"
      /\ spent \in [Runs -> Nat] /\ spent[r] \in Nat
      /\ row[r].handoffs \in Seq(Values)
  BY DEF HarnessIInv, HarnessTypeOK, Checkpoints, Row
<1>1. /\ work' = [work EXCEPT ![r] = new]
      /\ cache' = IF cached THEN cache ELSE Kept(Append(Others(Key(r)), entry))
      /\ spent' = [spent EXCEPT ![r] = @ + Tokens(r)] /\ UNCHANGED <<moved, made>>
  BY DEF Checkpoints, new, AcceptedValue, Tokens
<1>2. value \in Values /\ Output(r, value) \in made /\ Tokens(r) \in Nat
  BY Checkpointed
<1>4. /\ row' \in [Runs -> Row] /\ \A q \in Runs \ {r} : row'[q] = row[q]
      /\ row'[r].handoffs = Append(row[r].handoffs, value)
      /\ row'[r].status = row[r].status
      /\ row'[r].estimated = row[r].estimated + Tokens(r)
  BY Checkpointed
<1> HIDE DEF value, entry, cached
<1>5. new \in Work /\ new.at = "between"
  BY RestingIsWork DEF new, Resting, Work
<1>6. cache' \in Seq(Entry) /\ Len(cache') <= CacheSize
      /\ \A j \in DOMAIN cache' : \/ cache'[j] = entry
                                  \/ \E k \in DOMAIN cache : cache'[j] = cache[k]
  <2>1. cache \in Seq(Entry) /\ Len(cache) <= CacheSize
    BY DEF HarnessIInv, HarnessTypeOK
  <2>2. CASE cached
    BY <1>1, <2>1, <2>2
  <2>3. CASE ~cached
    <3>1. Stage(r) \in Range(Stages)
      BY <1>0, StageOfRun DEF RunnerOfRow
    <3>2. entry \in Entry
      BY <1>0, <1>2, <3>1 DEF Entry, Key, entry
    <3>3. QED
      BY <1>1, <2>1, <2>3, <3>2, KeptEntries
  <2>4. QED
    BY <2>2, <2>3
<1>7. /\ spent' \in [Runs -> Nat] /\ spent'[r] = spent[r] + Tokens(r)
      /\ \A q \in Runs \ {r} : spent'[q] = spent[q]
  BY <1>0, <1>1, <1>2
<1>8. /\ work' \in [Runs -> Work] /\ work'[r] = new /\ \A q \in Runs \ {r} : work'[q] = work[q]
  BY <1>1, <1>5 DEF HarnessIInv, HarnessTypeOK
<1>9. /\ Len(row'[r].handoffs) = Len(row[r].handoffs) + 1
      /\ \A i \in DOMAIN row[r].handoffs : row'[r].handoffs[i] = row[r].handoffs[i]
      /\ row'[r].handoffs[Len(row'[r].handoffs)] = value
  BY <1>0, <1>2, <1>4
<1>10. HarnessTypeOK'
  <2>1. RunnerOfRow(r)'
    BY <1>0, <1>4, <1>5, <1>8, <1>9 DEF RunnerOfRow
  <2>2. \A q \in Runs \ {r} : RunnerOfRow(q)'
    BY <1>4, <1>8 DEF HarnessIInv, HarnessTypeOK, RunnerOfRow
  <2>3. QED
    BY <1>1, <1>4, <1>6, <1>7, <1>8, <2>1, <2>2 DEF HarnessIInv, HarnessTypeOK
<1>11. UsageIsRecorded'
  BY <1>4, <1>7 DEF HarnessIInv, UsageIsRecorded
<1>12. HandoffsFollow'
  <2>1. ASSUME NEW i \in DOMAIN row'[r].handoffs
        PROVE  [stage |-> Stages[i], handoffs |-> SubSeq(row'[r].handoffs, 1, i - 1),
                value |-> row'[r].handoffs[i]] \in made
    <3>0. row'[r].handoffs \in Seq(Values) /\ i \in 1..(Len(row[r].handoffs) + 1)
      BY <1>0, <1>2, <1>4, <1>9
    <3>1. SubSeq(row'[r].handoffs, 1, i - 1) = SubSeq(row[r].handoffs, 1, i - 1)
      BY <1>0, <1>2, <1>4, <3>0
    <3>2. CASE i \in DOMAIN row[r].handoffs
      BY <1>9, <3>1, <3>2 DEF HarnessIInv, HandoffsFollow
    <3>3. CASE i = Len(row[r].handoffs) + 1
      <4>1. SubSeq(row[r].handoffs, 1, i - 1) = row[r].handoffs
        BY <1>0, <3>3
      <4>2. row'[r].handoffs[i] = value
        BY <1>9, <3>3
      <4>3. QED
        BY <1>2, <3>1, <3>3, <4>1, <4>2 DEF Output, Stage
    <3>4. QED
      BY <1>0, <3>0, <3>2, <3>3
  <2>2. QED
    BY <1>1, <1>4, <2>1 DEF HarnessIInv, HandoffsFollow
<1>13. CacheIsMade'
  <2>1. ASSUME NEW e, e = entry
        PROVE  [stage |-> e.key[1], handoffs |-> e.key[2], value |-> e.value] \in made
    BY <1>2, <2>1 DEF entry, Key, Output
  <2>2. ASSUME NEW j \in DOMAIN cache'
        PROVE  [stage |-> cache'[j].key[1], handoffs |-> cache'[j].key[2], value |-> cache'[j].value] \in made
    <3>1. CASE cache'[j] = entry
      BY <2>1, <3>1
    <3>2. CASE \E k \in DOMAIN cache : cache'[j] = cache[k]
      BY <3>2 DEF HarnessIInv, CacheIsMade
    <3>3. QED
      BY <1>6, <2>2, <3>1, <3>2
  <2>3. QED
    BY <1>1, <2>2 DEF CacheIsMade
<1>14. \A q \in Runs : StageWithinBudget(q)' /\ StageIsMade(q)'
  <2>1. StageWithinBudget(r)' /\ StageIsMade(r)'
    BY <1>5, <1>8 DEF StageWithinBudget, StageIsMade
  <2>2. ASSUME NEW q \in Runs \ {r} PROVE StageWithinBudget(q)' /\ StageIsMade(q)'
    BY <1>1, <1>4, <1>8, HeldIsKept DEF SameRow
  <2>3. QED
    BY <2>1, <2>2
<1>15. QED
  BY <1>10, <1>11, <1>12, <1>13, <1>14 DEF HarnessIInv

LEMMA EndsBeforeCallKeeps ==
    ASSUME HarnessIInv, NEW r \in Runs, EndsBeforeCall(r) \/ AllStagesDone(r)
    PROVE  HarnessIInv'
<1>1. PICK status \in Finished : Ends(r, status)
  BY DEF EndsBeforeCall, AllStagesDone, Finished
<1>2. UNCHANGED <<cache, moved, spent, made>>
  BY DEF EndsBeforeCall, AllStagesDone
<1>3. QED
  BY <1>1, <1>2, StageEndsKeeps

LEMMA CallFailsKeeps ==
    ASSUME HarnessAssumption, HarnessIInv, NEW r \in Runs, CallFails(r)
    PROVE  HarnessIInv'
<1>1. PICK status \in Finished, over \in {0, 1} : AttemptFails(r, over, status)
  BY DEF CallFails, Finished
<1>2. over \in Nat /\ UNCHANGED <<cache, moved, made>>
  BY DEF CallFails
<1>3. QED
  BY <1>1, <1>2, AttemptFailsKeeps

LEMMA HarnessInitIInv == HarnessAssumption /\ HarnessInit => HarnessIInv
<1> SUFFICES ASSUME HarnessAssumption, HarnessInit PROVE HarnessIInv
  OBVIOUS
<1>1. HarnessTypeOK
  <2>1. row \in [Runs -> Row]
    BY DEF HarnessInit, Row
  <2>2. work \in [Runs -> Work] /\ \A r \in Runs : RunnerOfRow(r)
    <3>1. \A r \in Runs : RunnerOfRow(r)
      BY DEF HarnessInit, RunnerOfRow, Resting, Stages
    <3>2. QED
      BY <3>1, RestingIsWork DEF HarnessInit
  <2>3. cache \in Seq(Entry) /\ Len(cache) <= CacheSize
    BY DEF HarnessInit, HarnessAssumption
  <2>4. moved \in BOOLEAN /\ spent \in [Runs -> Nat]
    BY DEF HarnessInit
  <2>5. QED
    BY <2>1, <2>2, <2>3, <2>4 DEF HarnessTypeOK
<1>2. QED
  BY <1>1 DEF HarnessInit, HarnessIInv, UsageIsRecorded, HandoffsFollow, CacheIsMade, StageWithinBudget,
              StageIsMade, Resting

LEMMA HarnessNextIInv == HarnessAssumption /\ HarnessIInv /\ [HarnessNext]_harnessVars => HarnessIInv'
<1> SUFFICES ASSUME HarnessAssumption, HarnessIInv, [HarnessNext]_harnessVars PROVE HarnessIInv'
  OBVIOUS
<1>1. CASE PinsMove
  BY <1>1, PinsMoveKeeps
<1>2. CASE HarnessRestarts
  BY <1>2, HarnessRestartsKeeps
<1>3. ASSUME NEW r \in Runs, Invokes(r) PROVE HarnessIInv'
  BY <1>3, InvokesKeeps
<1>4. ASSUME NEW r \in Runs, Steps(r) PROVE HarnessIInv'
  BY <1>4, StageBeginsKeeps, EndsBeforeCallKeeps, PinsHeldKeeps, CallFailsKeeps,
     CheckpointsKeeps DEF Steps
<1>5. ASSUME NEW r \in Runs, Delta(r) PROVE HarnessIInv'
  BY <1>5, DeltaKeeps
<1>6. ASSUME NEW r \in Runs, ReportsUsage(r) PROVE HarnessIInv'
  BY <1>6, ReportsUsageKeeps
<1>7. ASSUME NEW r \in Runs, NEW value \in Values \cup {-1}, StreamValidates(r, value) PROVE HarnessIInv'
  BY <1>7, StreamValidatesKeeps
<1>8. CASE UNCHANGED harnessVars
  BY <1>8 DEF harnessVars, HarnessIInv, HarnessTypeOK, RunnerOfRow, UsageIsRecorded, HandoffsFollow, CacheIsMade,
              StageWithinBudget, StageIsMade, Used, OutputLimit, Stage, Output
<1>9. QED
  BY <1>1, <1>2, <1>3, <1>4, <1>5, <1>6, <1>7, <1>8 DEF HarnessNext

------------------------------------------------------------------------------
(***************************************************************************)
(* The theorems.                                                           *)
(***************************************************************************)
\* What a stage of the harness has read of its run still describes the run when the
\* stage is checkpointed: the inductive invariant holds of every state.
THEOREM HarnessInvariance == ASSUME HarnessAssumption PROVE HarnessSpec => []HarnessIInv
  BY HarnessInitIInv, HarnessNextIInv, PTL DEF HarnessSpec

\* The rows of the runs, their runners and the cache keep to their types, the cache
\* keeps to its size, and a run is under way exactly as long as it has a runner.
THEOREM HarnessTypeCorrectness == ASSUME HarnessAssumption PROVE HarnessSpec => []HarnessTypeOK
<1>1. HarnessIInv => HarnessTypeOK
  BY DEF HarnessIInv
<1>2. QED
  BY <1>1, HarnessInvariance, PTL

\* Whatever ended a run's attempts, their tokens are in the run's usage.
THEOREM UsageSafety == ASSUME HarnessAssumption PROVE HarnessSpec => []UsageIsRecorded
<1>1. HarnessIInv => UsageIsRecorded
  BY DEF HarnessIInv
<1>2. QED
  BY <1>1, HarnessInvariance, PTL

\* Every handoff of a run was made by its stage from the handoffs before it, also when
\* it came from a cache that several runs share.
THEOREM HandoffSafety == ASSUME HarnessAssumption PROVE HarnessSpec => []HandoffsFollow
<1>1. HarnessIInv => HandoffsFollow
  BY DEF HarnessIInv
<1>2. QED
  BY <1>1, HarnessInvariance, PTL

\* The handoffs of a run change at its checkpoints only.
LEMMA HandoffsMove ==
    ASSUME HarnessIInv, [HarnessNext]_harnessVars, NEW r \in Runs, ~Checkpoints(r)
    PROVE  row'[r].handoffs = row[r].handoffs
<1> USE DEF HarnessIInv, HarnessTypeOK
<1>1. row \in [Runs -> Row]
  OBVIOUS
<1>2. ASSUME NEW q \in Runs, NEW status, Ends(q, status) PROVE row'[r].handoffs = row[r].handoffs
  BY <1>1, <1>2 DEF Ends, Row
<1>3. ASSUME NEW q \in Runs, NEW over, NEW status, AttemptFails(q, over, status)
      PROVE  row'[r].handoffs = row[r].handoffs
  <2>1. PICK e, p : row' = [row EXCEPT ![q] = [row[q] EXCEPT !.status = status, !.estimated = e, !.reported = p]]
    BY <1>3 DEF AttemptFails
  <2>2. QED
    BY <1>1, <2>1 DEF Row
<1>4. ASSUME NEW q \in Runs, Invokes(q) PROVE row'[r].handoffs = row[r].handoffs
  <2>1. PICK n : row' = [row EXCEPT ![q] = [row[q] EXCEPT !.status = "running", !.attempts = n]]
    BY <1>4 DEF Invokes
  <2>2. QED
    BY <1>1, <2>1 DEF Row
<1>5. ASSUME NEW q \in Runs \ {r}, Checkpoints(q) PROVE row'[r].handoffs = row[r].handoffs
  <2>1. PICK ended : row' = [row EXCEPT ![q] = ended]
    BY <1>5 DEF Checkpoints
  <2>2. QED
    BY <2>1
<1>6. CASE HarnessRestarts
  BY <1>1, <1>6 DEF HarnessRestarts, Row
<1>7. ASSUME NEW q \in Runs, Steps(q) PROVE row'[r].handoffs = row[r].handoffs
  BY <1>2, <1>3, <1>5, <1>7 DEF Steps, StageBegins, AllStagesDone, EndsBeforeCall, PinsHeld, CallFails
<1>8. CASE row' = row
  BY <1>8
<1>9. QED
  BY <1>4, <1>6, <1>7, <1>8 DEF HarnessNext, harnessVars, PinsMove, Delta, ReportsUsage, StreamValidates

\* A stage that was sent to a provider is checkpointed within what it read was left.
LEMMA BudgetOnAcceptanceStep == HarnessAssumption /\ HarnessIInv /\ [HarnessNext]_harnessVars => AcceptedWithinBudgetStep
<1> SUFFICES ASSUME HarnessAssumption, HarnessIInv, [HarnessNext]_harnessVars PROVE AcceptedWithinBudgetStep
  OBVIOUS
<1>0. Budget \in Nat /\ InputTokens \in Nat
  BY DEF HarnessAssumption
<1>1. SUFFICES ASSUME NEW r \in Runs, work[r].at = "accepting", work[r].cached = 0, Checkpoints(r)
               PROVE  row'[r].estimated <= Budget /\ row'[r].reported <= Budget
  BY HandoffsMove DEF AcceptedWithinBudgetStep
<1>2. /\ row[r].handoffs \in Seq(Values) /\ Len(row[r].handoffs) < Len(Stages)
      /\ row[r].estimated \in Nat /\ row[r].reported \in Nat
      /\ work[r].used \in Nat /\ work[r].raw \in Nat /\ work[r].reported \in Nat
  BY <1>1 DEF HarnessIInv, HarnessTypeOK, RunnerOfRow, Row, Work
<1>3. OutputLimit(r) \in Int /\ OutputLimit(r) <= Budget - work[r].used - InputTokens
  BY <1>2, LimitOfStage
<1>4. /\ work[r].raw <= OutputLimit(r) /\ work[r].reported <= Budget - work[r].used
      /\ row[r].estimated <= work[r].used /\ row[r].reported <= work[r].used
  BY <1>1, <1>2 DEF HarnessIInv, StageWithinBudget, Used, Max2
<1>5. /\ row'[r].estimated = row[r].estimated + InputTokens + work[r].raw
      /\ row'[r].reported = row[r].reported + work[r].reported
  <2>1. Tokens(r) = InputTokens + work[r].raw
    BY <1>1 DEF Tokens
  <2>2. /\ row'[r].estimated = row[r].estimated + Tokens(r)
        /\ row'[r].reported = row[r].reported + work[r].reported
    BY <1>1, Checkpointed
  <2>3. QED
    BY <1>0, <1>2, <2>1, <2>2
<1>6. /\ row[r].estimated + InputTokens + work[r].raw <= Budget
      /\ row[r].reported + work[r].reported <= Budget
  <2>1. \A estimated, raw, limit, used, b, i \in Int :
           raw <= limit /\ limit <= b - used - i /\ estimated <= used => estimated + i + raw <= b
    OBVIOUS
  <2>2. row[r].estimated + InputTokens + work[r].raw <= Budget
    BY <1>0, <1>2, <1>3, <1>4, <2>1
  <2>3. row[r].reported + work[r].reported <= Budget
    BY <1>0, <1>2, <1>4
  <2>4. QED
    BY <2>2, <2>3
<1>7. QED
  BY <1>5, <1>6

\* A stage that was sent to a provider is accepted only while the run is within its
\* budget, by estimate and by report.
THEOREM BudgetOnAcceptance == ASSUME HarnessAssumption PROVE HarnessSpec => AcceptedWithinBudget
  BY BudgetOnAcceptanceStep, HarnessInvariance, PTL DEF HarnessSpec, AcceptedWithinBudget

\* A step leaves the handoffs alone, or appends to them.
LEMMA CheckpointsLastStep == HarnessAssumption /\ HarnessIInv /\ [HarnessNext]_harnessVars => HandoffsStayStep
<1> SUFFICES ASSUME HarnessAssumption, HarnessIInv, [HarnessNext]_harnessVars PROVE HandoffsStayStep
  OBVIOUS
<1>1. SUFFICES ASSUME NEW r \in Runs PROVE IsPrefix(row[r].handoffs, row'[r].handoffs)
  BY DEF HandoffsStayStep
<1>2. row[r].handoffs \in Seq(Values)
  BY DEF HarnessIInv, HarnessTypeOK, Row
<1>3. CASE Checkpoints(r)
  <2>1. PICK value \in Values : row'[r].handoffs = Append(row[r].handoffs, value)
    BY <1>3, Checkpointed
  <2>2. QED
    BY <1>2, <2>1 DEF IsPrefix
<1>4. CASE ~Checkpoints(r)
  BY <1>2, <1>4, HandoffsMove DEF IsPrefix
<1>5. QED
  BY <1>3, <1>4

\* A checkpoint outlives every failure, stop, crash and resume.
THEOREM CheckpointsLast == ASSUME HarnessAssumption PROVE HarnessSpec => HandoffsStay
  BY CheckpointsLastStep, HarnessInvariance, PTL DEF HarnessSpec, HandoffsStay


------------------------------------------------------------------------------
(***************************************************************************)
(* HarnessMemory                                                           *)
(***************************************************************************)

\* What a record is, and that its pins are of its scope.
LEMMA RecordOf ==
    ASSUME MemoryAssumption, MemoryTypeOK, NEW i \in Ids, record[i] # None
    PROVE  record[i] \in Record /\ record[i].pins \in [record[i].scope -> Versions]
  BY DEF MemoryTypeOK

\* What is captured of a scope whose nodes are all in the draft.
LEMMA PinnedScope ==
    ASSUME MemoryTypeOK, NEW scope \in SUBSET Nodes, Captures(scope)
    PROVE  Pinned(scope) \in [scope -> Versions] /\ Pinned(scope) \in NodePins
<1>1. \A n \in scope : node[n] \in Versions
  BY DEF MemoryTypeOK, Captures, Versions
<1>2. Pinned(scope) \in [scope -> Versions]
  BY <1>1 DEF Pinned
<1>3. [scope -> Versions] \in {[s -> Versions] : s \in SUBSET Nodes}
  OBVIOUS
<1> QED  BY <1>2, <1>3 DEF NodePins

\* An inspection marks a record; nothing else of it changes.
LEMMA InspectedRecord ==
    ASSUME MemoryAssumption, NEW r \in Record
    PROVE  /\ Inspected(r) \in Record
           /\ Inspected(r).scope = r.scope /\ Inspected(r).pins = r.pins
           /\ Inspected(r).sync = r.sync /\ Inspected(r).revision = r.revision
           /\ Inspected(r).reviewed = r.reviewed
           /\ \/ Inspected(r).state = r.state
              \/ r.state \in Accepted /\ Inspected(r).state = "stale"
  BY DEF Inspected, Record, States, Accepted

\* A record that was sent has a digest.
LEMMA DigestOf == ASSUME NEW r \in Record PROVE Digest(r) \in Digests
  BY DEF Digest, Digests, Record

\* A record with another outcome of its sync.
LEMMA SyncedRecord ==
    ASSUME NEW r \in Record, NEW s \in Sync
    PROVE  /\ [r EXCEPT !.sync = s] \in Record /\ [r EXCEPT !.sync = s].sync = s
           /\ [r EXCEPT !.sync = s].scope = r.scope /\ [r EXCEPT !.sync = s].pins = r.pins
           /\ [r EXCEPT !.sync = s].state = r.state /\ [r EXCEPT !.sync = s].revision = r.revision
  BY DEF Record

\* What a server holds for a record that says it is synced.
Held(i, r) == r.sync.status = "synced" => [id |-> i, digest |-> r.sync.digest, at |-> r.sync.at] \in remote

\* A step that replaces one record, and what it has to show of the new one.
LEMMA OneRecordKeeps ==
    ASSUME MemoryAssumption, MemoryIInv, NEW i \in Ids, NEW r \in Record,
           r.pins \in [r.scope -> Versions], Held(i, r),
           record' = [record EXCEPT ![i] = r],
           UNCHANGED <<node, config, remote, recall>>,
           \/ UNCHANGED syncing
           \/ syncing' = [syncing EXCEPT ![i] = None]
    PROVE  MemoryIInv'
<1> USE DEF MemoryIInv
<1>1. record' \in [Ids -> Record \cup {None}] /\ syncing' \in [Ids -> Sending \cup {None}]
  BY DEF MemoryTypeOK
<1>2. \A j \in Ids : record'[j] = IF j = i THEN r ELSE record[j]
  BY DEF MemoryTypeOK
<1>3. r # None
  BY DEF MemoryAssumption
<1>4. \A j \in Ids : syncing'[j] # None => syncing'[j] = syncing[j]
  BY DEF MemoryTypeOK
<1>5. MemoryTypeOK'
  <2>1. \A j \in Ids : record'[j] # None => record'[j].pins \in [record'[j].scope -> Versions]
    BY <1>2 DEF MemoryTypeOK
  <2>2. \A j \in Ids : syncing'[j] # None => record'[j] # None /\ syncing'[j].record.state \in Accepted
    BY <1>2, <1>3, <1>4 DEF MemoryTypeOK
  <2>3. \A j \in recall'.asked : record'[j] # None
    BY <1>2, <1>3 DEF MemoryTypeOK
  <2> QED  BY <1>1, <2>1, <2>2, <2>3 DEF MemoryTypeOK
<1>6. SyncedIsStored'
  BY <1>2 DEF SyncedIsStored, Held
<1> QED  BY <1>5, <1>6

\* A step that inspects some of the records.
LEMMA InspectionKeeps ==
    ASSUME MemoryAssumption, MemoryIInv, NEW some \in SUBSET Ids,
           record' = [i \in Ids |-> IF i \in some /\ record[i] # None THEN Inspected(record[i]) ELSE record[i]],
           UNCHANGED <<node, config, remote, syncing>>,
           recall' \in [at : {"rest", "waiting"}, asked : SUBSET Ids, items : SUBSET Ids],
           \A i \in recall'.asked : record[i] # None
    PROVE  MemoryIInv'
<1> USE DEF MemoryIInv
<1>1. \A i \in Ids : \/ record'[i] = record[i]
                     \/ record[i] # None /\ record'[i] = Inspected(record[i])
  OBVIOUS
<1>2. \A i \in Ids : record'[i] \in Record \cup {None} /\ (record[i] # None => record'[i] # None)
  BY <1>1, InspectedRecord DEF MemoryTypeOK, MemoryAssumption
<1>3. record' \in [Ids -> Record \cup {None}]
  BY <1>2
<1>4. \A i \in Ids : record'[i] # None =>
          /\ record[i] # None
          /\ record'[i].pins = record[i].pins /\ record'[i].scope = record[i].scope
          /\ record'[i].sync = record[i].sync
  BY <1>1, RecordOf, InspectedRecord
<1>5. MemoryTypeOK'
  <2>1. \A j \in Ids : record'[j] # None => record'[j].pins \in [record'[j].scope -> Versions]
    BY <1>4 DEF MemoryTypeOK
  <2>2. \A j \in Ids : syncing'[j] # None => record'[j] # None /\ syncing'[j].record.state \in Accepted
    BY <1>2 DEF MemoryTypeOK
  <2>3. \A j \in recall'.asked : record'[j] # None
    BY <1>2
  <2> QED  BY <1>3, <2>1, <2>2, <2>3 DEF MemoryTypeOK
<1>6. SyncedIsStored'
  BY <1>4 DEF SyncedIsStored
<1> QED  BY <1>5, <1>6

\* What an answer inspects is a set of records that are there.
LEMMA AnswersKeep ==
    ASSUME MemoryAssumption, MemoryIInv, NEW items \in SUBSET Ids,
           \A i \in items : record[i] # None,
           Answers(items)
    PROVE  MemoryIInv'
<1> DEFINE some == IF config.enabled THEN items ELSE {}
<1>1. record' = [i \in Ids |-> IF i \in some /\ record[i] # None THEN Inspected(record[i]) ELSE record[i]]
  BY DEF Answers
<1>2. /\ recall' \in [at : {"rest", "waiting"}, asked : SUBSET Ids, items : SUBSET Ids]
      /\ \A i \in recall'.asked : record[i] # None
  BY DEF Answers
<1>3. UNCHANGED <<node, config, remote, syncing>>
  BY DEF Answers
<1>4. some \in SUBSET Ids
  OBVIOUS
<1> HIDE DEF some
<1> QED  BY <1>1, <1>2, <1>3, <1>4, InspectionKeeps

LEMMA MemoryInitIInv == MemoryAssumption /\ MemoryInit => MemoryIInv
  BY DEF MemoryAssumption, MemoryInit, MemoryIInv, MemoryTypeOK, SyncedIsStored, Versions

\* A step of the memory, action by action.
LEMMA RememberKeeps ==
    ASSUME MemoryAssumption, MemoryIInv, NEW i \in Ids, NEW scope \in SUBSET Nodes, NEW state \in Reviewed,
           Remember(i, scope, state) \/ Update(i, scope, state)
    PROVE  MemoryIInv'
<1> USE DEF MemoryIInv
<1>0. Captures(scope)
  BY DEF Remember, Update
<1>1. Pinned(scope) \in [scope -> Versions] /\ Pinned(scope) \in NodePins
  BY <1>0, PinnedScope
<1>2. state \in States
  BY DEF States
<1>3. CASE Remember(i, scope, state)
  <2> DEFINE r == [scope |-> scope, pins |-> Pinned(scope), state |-> state,
                   reviewed |-> 1, revision |-> 1, sync |-> NoSync]
  <2>1. r \in Record
    BY <1>1, <1>2 DEF Record, Sync, NoSync, MemoryAssumption
  <2>2. r.pins \in [r.scope -> Versions] /\ Held(i, r)
    BY <1>1 DEF Held, NoSync
  <2>3. /\ record' = [record EXCEPT ![i] = r]
        /\ UNCHANGED <<node, config, remote, recall>> /\ UNCHANGED syncing
    BY <1>3 DEF Remember
  <2> HIDE DEF r
  <2> QED  BY <2>1, <2>2, <2>3, OneRecordKeeps
<1>4. CASE Update(i, scope, state)
  <2> DEFINE old == record[i]
             sync == IF old.sync.status = "none" THEN NoSync ELSE [old.sync EXCEPT !.status = "stale"]
             r == [scope |-> scope, pins |-> Pinned(scope), state |-> state,
                   reviewed |-> old.revision + 1, revision |-> old.revision + 1, sync |-> sync]
  <2>1. old \in Record /\ old.revision < MaxRevision
    BY <1>4, RecordOf DEF Update
  <2>2. old.revision + 1 \in 1 .. MaxRevision
    BY <2>1 DEF Record, MemoryAssumption
  <2>3. sync \in Sync /\ sync.status # "synced"
    BY <2>1 DEF Record, Sync, NoSync
  <2>4. record' = [record EXCEPT ![i] = r]
    BY <1>4 DEF Update, MemoryTypeOK
  <2> HIDE DEF old, sync
  <2>5. r \in Record
    BY <1>1, <1>2, <2>2, <2>3 DEF Record
  <2>6. r.pins \in [r.scope -> Versions] /\ Held(i, r)
    BY <1>1, <2>3 DEF Held
  <2>7. UNCHANGED <<node, config, remote, recall>> /\ UNCHANGED syncing
    BY <1>4 DEF Update
  <2> HIDE DEF r
  <2> QED  BY <2>4, <2>5, <2>6, <2>7, OneRecordKeeps
<1> QED  BY <1>3, <1>4

\* A record that was forgotten.
LEMMA ForgottenRecord ==
    ASSUME MemoryAssumption, NEW r \in Record, r.revision < MaxRevision
    PROVE  LET new == [r EXCEPT !.state = "forgotten", !.reviewed = r.reviewed + 1, !.revision = r.revision + 1]
           IN /\ new \in Record /\ new.state = "forgotten" /\ new.revision = r.revision + 1
              /\ new.scope = r.scope /\ new.pins = r.pins /\ new.sync = r.sync
<1> DEFINE a == [r EXCEPT !.state = "forgotten"]
           b == [a EXCEPT !.reviewed = r.reviewed + 1]
           c == [b EXCEPT !.revision = r.revision + 1]
<1>0. r.reviewed + 1 \in Nat /\ r.revision + 1 \in 1 .. MaxRevision
  BY DEF Record, MemoryAssumption
<1>1. a \in Record /\ a.state = "forgotten" /\ a.scope = r.scope /\ a.pins = r.pins /\ a.sync = r.sync
  BY DEF Record, States
<1> HIDE DEF a
<1>2. b \in Record /\ b.state = a.state /\ b.scope = a.scope /\ b.pins = a.pins /\ b.sync = a.sync
  BY <1>0, <1>1 DEF Record
<1> HIDE DEF b
<1>3. c \in Record /\ c.state = b.state /\ c.scope = b.scope /\ c.pins = b.pins /\ c.sync = b.sync
      /\ c.revision = r.revision + 1
  BY <1>0, <1>2 DEF Record
<1> QED  BY <1>1, <1>2, <1>3 DEF a, b

LEMMA ForgetKeeps ==
    ASSUME MemoryAssumption, MemoryIInv, NEW i \in Ids, Forget(i)
    PROVE  MemoryIInv'
<1> USE DEF MemoryIInv
<1> DEFINE old == record[i]
           r == [old EXCEPT !.state = "forgotten", !.reviewed = old.reviewed + 1, !.revision = old.revision + 1]
<1>1. old \in Record /\ old.pins \in [old.scope -> Versions] /\ old.revision < MaxRevision
  BY RecordOf DEF Forget
<1>2. record' = [record EXCEPT ![i] = r]
  BY DEF Forget, MemoryTypeOK
<1>3. Held(i, old)
  BY DEF Forget, Held, SyncedIsStored
<1>4. UNCHANGED <<node, config, remote, recall>> /\ UNCHANGED syncing
  BY DEF Forget
<1> HIDE DEF old
<1>5. r \in Record /\ r.scope = old.scope /\ r.pins = old.pins /\ r.sync = old.sync
  BY <1>1, ForgottenRecord
<1> HIDE DEF r
<1>6. r.pins \in [r.scope -> Versions] /\ Held(i, r)
  BY <1>1, <1>3, <1>5 DEF Held
<1> QED  BY <1>2, <1>4, <1>5, <1>6, OneRecordKeeps

\* An acknowledgement is of the snapshot that was sent.
LEMMA FinishSyncKeeps ==
    ASSUME MemoryAssumption, MemoryIInv, NEW i \in Ids, NEW delivered \in {"synced", "unconfirmed"},
           syncing[i] # None, FinishSync(i, delivered),
           delivered = "synced" =>
              [id |-> i, digest |-> Digest(syncing[i].record), at |-> syncing[i].at] \in remote
    PROVE  MemoryIInv'
<1> USE DEF MemoryIInv
<1> DEFINE latest == Inspected(record[i])
           unchanged == Digest(latest) = Digest(syncing[i].record) /\ Current(latest) /\ latest.state \in Accepted
           sync == [status |-> IF delivered = "synced" /\ ~unchanged THEN "stale" ELSE delivered,
                    digest |-> Digest(syncing[i].record), at |-> syncing[i].at]
           r == [latest EXCEPT !.sync = sync]
<1>1. record[i] # None /\ syncing[i] \in Sending
  BY DEF MemoryTypeOK
<1>2. latest \in Record /\ latest.pins \in [latest.scope -> Versions]
  BY <1>1, RecordOf, InspectedRecord
<1>3. /\ record' = [record EXCEPT ![i] = r]
      /\ syncing' = [syncing EXCEPT ![i] = None] /\ UNCHANGED <<node, config, remote, recall>>
  BY DEF FinishSync
<1>4. Digest(syncing[i].record) \in Digests /\ syncing[i].at \in Remotes
  BY <1>1, DigestOf DEF Sending
<1> HIDE DEF latest, unchanged
<1>5. sync \in Sync
  BY <1>4 DEF Sync
<1>6. sync.status = "synced" => [id |-> i, digest |-> sync.digest, at |-> sync.at] \in remote
  OBVIOUS
<1> HIDE DEF sync
<1>7. r \in Record /\ r.pins = latest.pins /\ r.scope = latest.scope /\ r.sync = sync
  BY <1>2, <1>5, SyncedRecord
<1> HIDE DEF r
<1>8. r.pins \in [r.scope -> Versions] /\ Held(i, r)
  BY <1>2, <1>6, <1>7 DEF Held
<1> QED  BY <1>3, <1>7, <1>8, OneRecordKeeps

LEMMA SyncBeginsKeeps ==
    ASSUME MemoryAssumption, MemoryIInv, NEW i \in Ids, SyncBegins(i) \/ Retained(i)
    PROVE  MemoryIInv'
<1> USE DEF MemoryIInv
<1>1. CASE SyncBegins(i)
  <2>1. record[i] # None /\ record[i] \in Record /\ record[i].state \in Accepted /\ config.provider \in Remotes
    BY <1>1, RecordOf DEF SyncBegins, Usable, MemoryTypeOK
  <2>2. [record |-> record[i], at |-> config.provider] \in Sending
    BY <2>1 DEF Sending
  <2>3. \A j \in Ids : syncing'[j] = IF j = i THEN [record |-> record[i], at |-> config.provider] ELSE syncing[j]
    BY <1>1 DEF SyncBegins, MemoryTypeOK
  <2>4. syncing' \in [Ids -> Sending \cup {None}]
    BY <1>1, <2>2 DEF SyncBegins, MemoryTypeOK
  <2>5. UNCHANGED <<node, record, config, remote, recall>>
    BY <1>1 DEF SyncBegins
  <2> QED  BY <2>1, <2>3, <2>4, <2>5 DEF MemoryTypeOK, SyncedIsStored
<1>2. CASE Retained(i)
  BY <1>2 DEF Retained, MemoryTypeOK, SyncedIsStored
<1> QED  BY <1>1, <1>2

LEMMA RecallKeeps ==
    ASSUME MemoryAssumption, MemoryIInv, List \/ RecallLocally \/ RecallRemotely \/ Hints
    PROVE  MemoryIInv'
<1> USE DEF MemoryIInv
<1>1. \A i \in Candidates : i \in Ids /\ record[i] # None
  BY DEF Candidates, Usable
<1>2. CASE RecallLocally
  BY <1>1, <1>2, AnswersKeep DEF RecallLocally
<1>3. CASE Hints
  <2>1. recall.asked \in SUBSET Ids /\ \A i \in recall.asked : record[i] # None
    BY DEF MemoryTypeOK
  <2> QED  BY <1>3, <2>1, AnswersKeep DEF Hints
<1>4. CASE List \/ RecallRemotely
  <2>1. record' = [i \in Ids |-> IF i \in Ids /\ record[i] # None THEN Inspected(record[i]) ELSE record[i]]
    BY <1>4 DEF List, RecallRemotely
  <2>2. /\ recall' \in [at : {"rest", "waiting"}, asked : SUBSET Ids, items : SUBSET Ids]
        /\ \A i \in recall'.asked : record[i] # None
    BY <1>1, <1>4 DEF List, RecallRemotely, MemoryTypeOK
  <2>3. UNCHANGED <<node, config, remote, syncing>>
    BY <1>4 DEF List, RecallRemotely
  <2> QED  BY <2>1, <2>2, <2>3, InspectionKeeps
<1> QED  BY <1>2, <1>3, <1>4

LEMMA MemoryNextIInv == MemoryAssumption /\ MemoryIInv /\ [MemoryNext]_memoryVars => MemoryIInv'
<1> SUFFICES ASSUME MemoryAssumption, MemoryIInv, [MemoryNext]_memoryVars
             PROVE  MemoryIInv'
  OBVIOUS
<1>1. CASE UNCHANGED memoryVars
  BY <1>1 DEF memoryVars, MemoryIInv, MemoryTypeOK, SyncedIsStored
<1>2. CASE \E n \in Nodes : NodeChanges(n)
  <2> PICK n \in Nodes : NodeChanges(n)
    BY <1>2
  <2>1. node' \in [Nodes -> {0} \cup Versions]
    BY DEF NodeChanges, MemoryIInv, MemoryTypeOK, Versions, MemoryAssumption
  <2> QED  BY <2>1 DEF NodeChanges, MemoryIInv, MemoryTypeOK, SyncedIsStored
<1>3. CASE SettingsChange
  BY <1>3 DEF SettingsChange, MemoryIInv, MemoryTypeOK, SyncedIsStored
<1>4. CASE List \/ RecallLocally \/ RecallRemotely \/ Hints
  BY <1>4, RecallKeeps
<1>5. CASE MemoryRestarts
  BY <1>5 DEF MemoryRestarts, MemoryIInv, MemoryTypeOK, SyncedIsStored
<1>6. ASSUME NEW i \in Ids, NEW scope \in SUBSET Nodes, NEW state \in Reviewed,
             Remember(i, scope, state) \/ Update(i, scope, state)
      PROVE  MemoryIInv'
  BY <1>6, RememberKeeps
<1>7. ASSUME NEW i \in Ids, Forget(i) PROVE MemoryIInv'
  BY <1>7, ForgetKeeps
<1>8. ASSUME NEW i \in Ids, SyncBegins(i) \/ Retained(i) PROVE MemoryIInv'
  BY <1>8, SyncBeginsKeeps
<1>9. ASSUME NEW i \in Ids, Acknowledged(i) \/ Unconfirmed(i) PROVE MemoryIInv'
  BY <1>9, FinishSyncKeeps DEF Acknowledged, Unconfirmed
<1> QED  BY <1>1, <1>2, <1>3, <1>4, <1>5, <1>6, <1>7, <1>8, <1>9 DEF MemoryNext

------------------------------------------------------------------------------
\* What is answered is looked up again when it is answered, not when it was asked.
LEMMA RecalledStep == [MemoryNext]_memoryVars => RecalledIsCurrentStep
<1>1. ASSUME NEW items, Answers(items) PROVE RecalledIsCurrentStep
  BY <1>1 DEF Answers, RecalledIsCurrentStep
<1>2. RecallLocally \/ Hints => RecalledIsCurrentStep
  BY <1>1 DEF RecallLocally, Hints
<1>3. RecallRemotely \/ MemoryRestarts => RecalledIsCurrentStep
  BY DEF RecallRemotely, MemoryRestarts, RecalledIsCurrentStep
<1>4. recall' = recall => RecalledIsCurrentStep
  BY DEF RecalledIsCurrentStep
<1>5. (\E n \in Nodes : NodeChanges(n)) \/ SettingsChange \/ List => recall' = recall
  BY DEF NodeChanges, SettingsChange, List
<1>6. ASSUME NEW i \in Ids, NEW scope, NEW state, Remember(i, scope, state) \/ Update(i, scope, state)
      PROVE  recall' = recall
  BY <1>6 DEF Remember, Update
<1>7. ASSUME NEW i \in Ids, Forget(i) \/ SyncBegins(i) \/ Retained(i) \/ Acknowledged(i) \/ Unconfirmed(i)
      PROVE  recall' = recall
  BY <1>7 DEF Forget, SyncBegins, Retained, Acknowledged, Unconfirmed, FinishSync
<1> QED  BY <1>2, <1>3, <1>4, <1>5, <1>6, <1>7 DEF MemoryNext, memoryVars

\* How a step may change the record of one id.
LEMMA RecordSteps ==
    ASSUME MemoryAssumption, MemoryIInv, [MemoryNext]_memoryVars, NEW i \in Ids
    PROVE  \/ record'[i] = record[i]
           \/ /\ record[i] # None /\ record'[i] # None /\ record'[i].revision = record[i].revision
              /\ \/ record'[i].state = record[i].state
                 \/ record[i].state \in Accepted /\ record'[i].state = "stale"
           \/ /\ record[i] # None /\ record'[i] # None /\ record'[i].revision = record[i].revision + 1
              /\ record'[i].state = "forgotten"
           \/ /\ record'[i] # None /\ (record[i] = None \/ record'[i].revision = record[i].revision + 1)
              /\ Captures(record'[i].scope) /\ record'[i].pins = Pinned(record'[i].scope)
<1> USE DEF MemoryIInv
<1>1. CASE UNCHANGED record
  BY <1>1
<1>2. ASSUME record'[i] = Inspected(record[i]), record[i] # None
      PROVE  /\ record'[i] # None /\ record'[i].revision = record[i].revision
             /\ \/ record'[i].state = record[i].state
                \/ record[i].state \in Accepted /\ record'[i].state = "stale"
  BY <1>2, RecordOf, InspectedRecord DEF MemoryAssumption
<1>3. CASE List \/ RecallRemotely
  BY <1>2, <1>3 DEF List, RecallRemotely
<1>4. ASSUME NEW items \in SUBSET Ids, \A j \in items : record[j] # None, Answers(items)
      PROVE  \/ record'[i] = record[i]
             \/ record[i] # None /\ record'[i] = Inspected(record[i])
  BY <1>4 DEF Answers
<1>5. CASE RecallLocally \/ Hints
  <2>1. Candidates \in SUBSET Ids /\ \A j \in Candidates : record[j] # None
    BY DEF Candidates, Usable
  <2>2. recall.asked \in SUBSET Ids /\ \A j \in recall.asked : record[j] # None
    BY DEF MemoryTypeOK
  <2> QED  BY <1>2, <1>4, <1>5, <2>1, <2>2 DEF RecallLocally, Hints
<1>6. ASSUME NEW j \in Ids, NEW scope \in SUBSET Nodes, NEW state \in Reviewed,
             Remember(j, scope, state) \/ Update(j, scope, state), record'[i] # record[i]
      PROVE  /\ record'[i] # None /\ (record[i] = None \/ record'[i].revision = record[i].revision + 1)
             /\ Captures(record'[i].scope) /\ record'[i].pins = Pinned(record'[i].scope)
  <2>1. j = i
    BY <1>6 DEF Remember, Update, MemoryTypeOK
  <2>2. MemoryIInv'
    BY <1>6, RememberKeeps
  <2>3. CASE Remember(j, scope, state)
    <3>1. record'[i] = [scope |-> scope, pins |-> Pinned(scope), state |-> state,
                        reviewed |-> 1, revision |-> 1, sync |-> NoSync]
      BY <2>1, <2>3 DEF Remember, MemoryTypeOK
    <3>2. record'[i] # None
      <4>1. Pinned(scope) \in NodePins
        BY <2>3, PinnedScope DEF Remember
      <4>2. record'[i] \in Record
        BY <3>1, <4>1 DEF Record, Sync, NoSync, MemoryAssumption, States
      <4> QED  BY <4>2 DEF MemoryAssumption
    <3> QED  BY <2>1, <2>3, <3>1, <3>2 DEF Remember
  <2>4. CASE Update(j, scope, state)
    <3> DEFINE sync == IF record[i].sync.status = "none" THEN NoSync ELSE [record[i].sync EXCEPT !.status = "stale"]
    <3>1. record'[i] = [scope |-> scope, pins |-> Pinned(scope), state |-> state,
                        reviewed |-> record[i].revision + 1, revision |-> record[i].revision + 1, sync |-> sync]
      BY <2>1, <2>4 DEF Update, MemoryTypeOK
    <3> HIDE DEF sync
    <3>2. record[i] # None /\ Captures(scope)
      BY <2>1, <2>4 DEF Update
    <3>3. record'[i].revision = record[i].revision + 1 /\ record'[i].scope = scope
          /\ record'[i].pins = Pinned(scope)
      BY <3>1
    <3>4. record'[i] # None
      <4>1. record[i] \in Record /\ record[i].revision < MaxRevision
        BY <2>1, <2>4, RecordOf DEF Update
      <4>2. Pinned(scope) \in NodePins
        BY <3>2, PinnedScope
      <4>3. sync \in Sync
        BY <4>1 DEF sync, Record, Sync, NoSync
      <4>4. record[i].revision + 1 \in 1 .. MaxRevision
        BY <4>1 DEF Record, MemoryAssumption
      <4>5. record'[i] \in Record
        BY <3>1, <4>2, <4>3, <4>4 DEF Record, States
      <4> QED  BY <4>5 DEF MemoryAssumption
    <3> QED  BY <3>2, <3>3, <3>4
  <2> QED  BY <1>6, <2>3, <2>4
<1>7. ASSUME NEW j \in Ids, Forget(j), record'[i] # record[i]
      PROVE  /\ record[i] # None /\ record'[i] # None /\ record'[i].revision = record[i].revision + 1
             /\ record'[i].state = "forgotten"
  <2>1. j = i /\ record[i] # None /\ record[i].revision < MaxRevision
    BY <1>7 DEF Forget, MemoryTypeOK
  <2>2. record[i] \in Record
    BY <2>1, RecordOf
  <2>3. record'[i] = [record[i] EXCEPT !.state = "forgotten", !.reviewed = record[i].reviewed + 1,
                                       !.revision = record[i].revision + 1]
    BY <1>7, <2>1 DEF Forget, MemoryTypeOK
  <2>4. /\ record'[i] \in Record
        /\ record'[i].revision = record[i].revision + 1 /\ record'[i].state = "forgotten"
    BY <2>1, <2>2, <2>3, ForgottenRecord
  <2> QED  BY <2>1, <2>4 DEF MemoryAssumption
<1>8. ASSUME NEW j \in Ids, Acknowledged(j) \/ Unconfirmed(j), record'[i] # record[i]
      PROVE  /\ record[i] # None /\ record'[i] # None /\ record'[i].revision = record[i].revision
             /\ \/ record'[i].state = record[i].state
                \/ record[i].state \in Accepted /\ record'[i].state = "stale"
  <2>1. PICK delivered \in {"synced", "unconfirmed"} : FinishSync(j, delivered) /\ syncing[j] # None
    BY <1>8 DEF Acknowledged, Unconfirmed
  <2> DEFINE latest == Inspected(record[i])
             unchanged == Digest(latest) = Digest(syncing[i].record) /\ Current(latest) /\ latest.state \in Accepted
             sync == [status |-> IF delivered = "synced" /\ ~unchanged THEN "stale" ELSE delivered,
                      digest |-> Digest(syncing[i].record), at |-> syncing[i].at]
  <2>2. j = i
    BY <1>8, <2>1 DEF FinishSync, MemoryTypeOK
  <2>3. record[i] # None /\ record[i] \in Record /\ syncing[i] \in Sending
    BY <2>1, <2>2, RecordOf DEF MemoryTypeOK
  <2>4. record'[i] = [latest EXCEPT !.sync = sync]
    BY <2>1, <2>2 DEF FinishSync, MemoryTypeOK
  <2>5. Digest(syncing[i].record) \in Digests /\ syncing[i].at \in Remotes
    BY <2>3, DigestOf DEF Sending
  <2>6. /\ latest \in Record /\ latest.revision = record[i].revision
        /\ \/ latest.state = record[i].state
           \/ record[i].state \in Accepted /\ latest.state = "stale"
    BY <2>3, InspectedRecord
  <2> HIDE DEF latest, unchanged
  <2>7. sync \in Sync
    BY <2>5 DEF Sync
  <2> HIDE DEF sync
  <2>8. /\ record'[i] \in Record /\ record'[i].revision = latest.revision
        /\ record'[i].state = latest.state
    BY <2>4, <2>6, <2>7, SyncedRecord
  <2>9. record'[i] # None
    BY <2>8 DEF MemoryAssumption
  <2> QED  BY <2>3, <2>6, <2>8, <2>9
<1>9. (\E n \in Nodes : NodeChanges(n)) \/ SettingsChange \/ MemoryRestarts => UNCHANGED record
  BY DEF NodeChanges, SettingsChange, MemoryRestarts
<1>10. ASSUME NEW j \in Ids, SyncBegins(j) \/ Retained(j) PROVE UNCHANGED record
  BY <1>10 DEF SyncBegins, Retained
<1> QED  BY <1>1, <1>3, <1>2, <1>5, <1>6, <1>7, <1>8, <1>9, <1>10 DEF MemoryNext, memoryVars

LEMMA LocalEditsStep == MemoryAssumption /\ MemoryIInv /\ [MemoryNext]_memoryVars => LocalEditsStayStep
<1> SUFFICES ASSUME MemoryAssumption, MemoryIInv, [MemoryNext]_memoryVars, NEW i \in Ids, record[i] # None
             PROVE  /\ record'[i] # None /\ record'[i].revision >= record[i].revision
                    /\ record'[i].revision = record[i].revision =>
                          \/ record'[i].state = record[i].state
                          \/ record[i].state \in Accepted /\ record'[i].state = "stale"
  BY DEF LocalEditsStayStep
<1>1. record[i].revision \in Nat
  BY RecordOf DEF MemoryIInv, Record
<1> QED  BY <1>1, RecordSteps

LEMMA ReviewStep == MemoryAssumption /\ MemoryIInv /\ [MemoryNext]_memoryVars => ReviewIsOfThisStateStep
<1> SUFFICES ASSUME MemoryAssumption, MemoryIInv, [MemoryNext]_memoryVars, NEW i \in Ids,
                    record'[i] # None, record'[i].state \in Accepted, record[i] # record'[i],
                    record[i] = None \/ record'[i].revision # record[i].revision
             PROVE  \A n \in record'[i].scope : record'[i].pins[n] = node[n] /\ node[n] # 0
  BY DEF ReviewIsOfThisStateStep
<1>1. "forgotten" \notin Accepted
  BY DEF Accepted
<1>2. Captures(record'[i].scope) /\ record'[i].pins = Pinned(record'[i].scope)
  BY <1>1, RecordSteps
<1> QED  BY <1>2 DEF Captures, Pinned

\* "A remote result can rank an entry only when [it matches] a known synced projection":
\* a record that says it is synced as it stands is on that server, whatever was edited,
\* forgotten or lost while it was sent.  "Local edits, exclusion, provenance invalidation, or
\* deletion remain authoritative": a late acknowledgement takes none of them back.  "Only
\* current user-confirmed or validated records enter recall", also when they change while
\* hints are awaited, and what is confirmed is confirmed for the nodes of that moment.
THEOREM MemoriesAreKept ==
    ASSUME MemoryAssumption
    PROVE  MemorySpec => []SyncedIsStored /\ LocalEditsStay /\ RecalledIsCurrent /\ ReviewIsOfThisState
<1>1. MemoryIInv => SyncedIsStored
  BY DEF MemoryIInv
<1>2. MemoryIInv /\ [MemoryNext]_memoryVars =>
          MemoryIInv' /\ LocalEditsStayStep /\ RecalledIsCurrentStep /\ ReviewIsOfThisStateStep
  BY MemoryNextIInv, LocalEditsStep, RecalledStep, ReviewStep
<1> QED
  BY <1>1, <1>2, MemoryInitIInv, PTL DEF MemorySpec, LocalEditsStay, RecalledIsCurrent, ReviewIsOfThisState

------------------------------------------------------------------------------
(***************************************************************************)
(* Traces                                                                  *)
(***************************************************************************)
\* What the order in which spans end is made of.
LEMMA Enumerated ==
    ASSUME NEW S, IsFiniteSet(S)
    PROVE  /\ Cardinality(S) \in Nat
           /\ \A n \in 1 .. Cardinality(S) : SetToSeq(S)[n] \in S
           /\ \A m, n \in 1 .. Cardinality(S) : SetToSeq(S)[m] = SetToSeq(S)[n] => m = n
<1>1. Cardinality(S) \in Nat /\ ExistsBijection(1 .. Cardinality(S), S)
  BY FS_CardinalityType
<1>2. \E f \in [1 .. Cardinality(S) -> S] : IsInjective(f)
  BY <1>1 DEF ExistsBijection, Bijection, Injection
<1>3. SetToSeq(S) \in [1 .. Cardinality(S) -> S] /\ IsInjective(SetToSeq(S))
  BY <1>2 DEF SetToSeq
<1>4. QED
  BY <1>1, <1>3 DEF IsInjective

LEMMA RowTypes ==
    ASSUME NEW d \in Rows
    PROVE  /\ d = [traces |-> d.traces, spans |-> d.spans, log |-> d.log]
           /\ \A t \in Traces : /\ d.traces[t] = [status |-> d.traces[t].status, root |-> d.traces[t].root]
                                /\ d.traces[t].status \in SpanStatuses \cup {"none"} /\ d.traces[t].root \in Nat
           /\ d.traces \in [Traces -> [status : SpanStatuses \cup {"none"}, root : Nat]]
           /\ d.spans \in Seq(Span) /\ Len(d.spans) \in Nat /\ DOMAIN d.spans = 1 .. Len(d.spans)
           /\ \A s \in DOMAIN d.spans : d.spans[s] \in Span
           /\ d.log \in Seq(Event) /\ Len(d.log) \in Nat /\ DOMAIN d.log = 1 .. Len(d.log)
           /\ \A n \in DOMAIN d.log : d.log[n] \in Event
<1>1. d.spans \in Seq(Span) /\ d.log \in Seq(Event)
  BY DEF Rows
<1>2. /\ Len(d.spans) \in Nat /\ DOMAIN d.spans = 1 .. Len(d.spans)
      /\ \A s \in DOMAIN d.spans : d.spans[s] \in Span
  BY <1>1
<1>3. /\ Len(d.log) \in Nat /\ DOMAIN d.log = 1 .. Len(d.log)
      /\ \A n \in DOMAIN d.log : d.log[n] \in Event
  BY <1>1
<1>4. QED
  BY <1>1, <1>2, <1>3 DEF Rows

LEMMA SpansAreFinite ==
    ASSUME NEW d \in Rows, NEW spans \in SUBSET DOMAIN d.spans
    PROVE  IsFiniteSet(spans)
<1>1. Len(d.spans) \in Nat /\ spans \in SUBSET (1 .. Len(d.spans))
  BY RowTypes
<1>2. IsFiniteSet(1 .. Len(d.spans))
  BY <1>1, FS_Interval
<1>3. QED
  BY <1>1, <1>2, FS_Subset

LEMMA FunctionIsSeq ==
    ASSUME NEW S, NEW size \in Nat, NEW f \in [1 .. size -> S]
    PROVE  f \in Seq(S) /\ Len(f) = size
  OBVIOUS


\* The rows after one more event.
Types == {"trace.started", "span.started", "span.event", "span.ended", "trace.ended"}

LogsIn(d, e, type, t, s, returned) ==
    /\ e \in Rows /\ e.traces = d.traces /\ e.spans = d.spans
    /\ Len(e.log) = Len(d.log) + 1
    /\ \A n \in DOMAIN d.log : e.log[n] = d.log[n]
    /\ e.log[Len(e.log)] = [type |-> type, trace |-> t, span |-> s, returned |-> returned]

LEMMA LoggedRows ==
    ASSUME NEW d \in Rows, NEW type \in Types,
           NEW t \in Traces, NEW s \in Nat, NEW returned \in BOOLEAN
    PROVE  LogsIn(d, Logged(d, type, t, s, returned), type, t, s, returned)
<1> DEFINE e == Logged(d, type, t, s, returned)
           x == [type |-> type, trace |-> t, span |-> s, returned |-> returned]
<1>1. x \in Event
  BY DEF Event, Types
<1>2. d.log \in Seq(Event) /\ d.spans \in Seq(Span) /\ d.traces \in [Traces -> [status : SpanStatuses \cup {"none"}, root : Nat]]
  BY DEF Rows
<1>3. e = [d EXCEPT !.log = Append(@, x)]
  BY DEF Logged
<1>4. e.log = Append(d.log, x) /\ e.traces = d.traces /\ e.spans = d.spans /\ e \in Rows
  <2> HIDE DEF x
  <2>1. Append(d.log, x) \in Seq(Event)
    BY <1>1, <1>2
  <2>2. QED
    BY <2>1, <1>3 DEF Rows
<1>5. QED
  <2> HIDE DEF x, e
  <2>1. /\ Len(e.log) = Len(d.log) + 1 /\ Len(d.log) \in Nat
        /\ \A n \in DOMAIN d.log : e.log[n] = d.log[n]
        /\ e.log[Len(d.log) + 1] = x
    BY <1>1, <1>2, <1>4
  <2>2. QED
    BY <2>1, <1>4 DEF e, x, LogsIn

\* The rows after spans of a trace have ended.
EndsIn(d, e, t, spans, status, auto, returned) ==
    /\ e \in Rows /\ e.traces = d.traces
    /\ DOMAIN e.spans = DOMAIN d.spans
    /\ \A s \in DOMAIN d.spans :
          /\ e.spans[s].trace = d.spans[s].trace /\ e.spans[s].parent = d.spans[s].parent
          /\ s \in spans => e.spans[s].status = status /\ e.spans[s].auto = auto
          /\ s \notin spans => e.spans[s] = d.spans[s]
    /\ Len(d.log) <= Len(e.log) /\ (spans = {} => Len(e.log) = Len(d.log))
    /\ \A n \in DOMAIN d.log : e.log[n] = d.log[n]
    /\ \A n \in Len(d.log) + 1 .. Len(e.log) :
          /\ e.log[n].type = "span.ended" /\ e.log[n].trace = t /\ e.log[n].span \in spans
          /\ e.log[n].returned = returned
    /\ \A m, n \in Len(d.log) + 1 .. Len(e.log) : e.log[n].span = e.log[m].span => m = n

LEMMA EndSpansRows ==
    ASSUME NEW d \in Rows, NEW t \in Traces, NEW spans \in SUBSET SpansOf(d, t), NEW status \in SpanStatuses,
           NEW auto \in BOOLEAN, NEW returned \in BOOLEAN
    PROVE  EndsIn(d, EndSpans(d, t, spans, status, auto, returned), t, spans, status, auto, returned)
<1> DEFINE e == EndSpans(d, t, spans, status, auto, returned)
           size == Cardinality(spans)
           changed(s) == [d.spans[s] EXCEPT !.status = status, !.auto = auto]
           rows == [s \in DOMAIN d.spans |-> IF s \in spans THEN changed(s) ELSE d.spans[s]]
           tail == [n \in 1 .. size |-> [type |-> "span.ended", trace |-> t, span |-> SetToSeq(spans)[n], returned |-> returned]]
<1>1. /\ Len(d.spans) \in Nat /\ DOMAIN d.spans = 1 .. Len(d.spans) /\ \A s \in DOMAIN d.spans : d.spans[s] \in Span
      /\ d.log \in Seq(Event) /\ Len(d.log) \in Nat /\ DOMAIN d.log = 1 .. Len(d.log)
      /\ d.traces \in [Traces -> [status : SpanStatuses \cup {"none"}, root : Nat]]
  BY RowTypes
<1>2. spans \in SUBSET DOMAIN d.spans /\ IsFiniteSet(spans)
  <2>1. spans \in SUBSET DOMAIN d.spans
    BY DEF SpansOf
  <2>2. QED
    BY <2>1, SpansAreFinite
<1>3. /\ size \in Nat /\ \A n \in 1 .. size : SetToSeq(spans)[n] \in spans
      /\ \A m, n \in 1 .. size : SetToSeq(spans)[m] = SetToSeq(spans)[n] => m = n
  BY <1>2, Enumerated
<1>4. tail \in Seq(Event) /\ Len(tail) = size
  <2>1. \A n \in 1 .. size : SetToSeq(spans)[n] \in Nat
    BY <1>1, <1>2, <1>3
  <2>2. tail \in [1 .. size -> Event]
    BY <2>1 DEF Event
  <2>3. QED
    BY <2>2, <1>3, FunctionIsSeq
<1>5. /\ rows \in Seq(Span) /\ DOMAIN rows = DOMAIN d.spans
      /\ \A s \in DOMAIN d.spans :
                 /\ rows[s].trace = d.spans[s].trace /\ rows[s].parent = d.spans[s].parent
                 /\ s \in spans => rows[s].status = status /\ rows[s].auto = auto
                 /\ s \notin spans => rows[s] = d.spans[s]
  <2>1. ASSUME NEW s \in DOMAIN d.spans
        PROVE  /\ rows[s] \in Span /\ rows[s].trace = d.spans[s].trace /\ rows[s].parent = d.spans[s].parent
               /\ s \in spans => rows[s].status = status /\ rows[s].auto = auto
               /\ s \notin spans => rows[s] = d.spans[s]
    <3> DEFINE x == d.spans[s]
               y == [x EXCEPT !.status = status, !.auto = auto]
    <3>1. x \in Span
      BY <1>1
    <3>2. rows[s] = IF s \in spans THEN y ELSE x
      OBVIOUS
    <3> HIDE DEF x
    <3>3. y \in Span /\ y.trace = x.trace /\ y.parent = x.parent /\ y.status = status /\ y.auto = auto
      BY <3>1 DEF Span
    <3> HIDE DEF y, rows
    <3>4. /\ rows[s] \in Span /\ rows[s].trace = x.trace /\ rows[s].parent = x.parent
          /\ s \in spans => rows[s].status = status /\ rows[s].auto = auto
          /\ s \notin spans => rows[s] = x
      BY <3>1, <3>2, <3>3
    <3>5. QED
      BY <3>4 DEF x
  <2>2. rows \in [1 .. Len(d.spans) -> Span]
    BY <2>1, <1>1
  <2> HIDE DEF rows
  <2>3. QED
    BY <2>1, <2>2, <1>1, FunctionIsSeq
<1>6. e = [d EXCEPT !.spans = rows, !.log = @ \o tail]
  BY DEF EndSpans
<1> HIDE DEF rows, tail, size
<1>7. /\ d.log \o tail \in Seq(Event) /\ Len(d.log \o tail) = Len(d.log) + size
      /\ \A n \in 1 .. Len(d.log) : (d.log \o tail)[n] = d.log[n]
      /\ \A n \in Len(d.log) + 1 .. Len(d.log) + size : (d.log \o tail)[n] = tail[n - Len(d.log)]
  <2> DEFINE log == d.log
  <2>1. log \in Seq(Event) /\ tail \in Seq(Event) /\ Len(log) \in Nat /\ Len(tail) = size
    BY <1>1, <1>4
  <2> HIDE DEF log
  <2>2. /\ log \o tail \in Seq(Event) /\ Len(log \o tail) = Len(log) + size
        /\ \A n \in 1 .. Len(log) + size : (log \o tail)[n] = IF n <= Len(log) THEN log[n] ELSE tail[n - Len(log)]
    BY <2>1, ConcatProperties
  <2>3. /\ \A n \in 1 .. Len(log) : (log \o tail)[n] = log[n]
        /\ \A n \in Len(log) + 1 .. Len(log) + size : (log \o tail)[n] = tail[n - Len(log)]
    BY <2>1, <2>2, <1>3
  <2>4. QED
    BY <2>2, <2>3 DEF log
<1>8. e \in Rows /\ e.traces = d.traces /\ e.spans = rows /\ e.log = d.log \o tail
  BY <1>5, <1>6, <1>7 DEF Rows
<1> HIDE DEF e
<1>9. \A n \in Len(d.log) + 1 .. Len(e.log) :
         /\ n - Len(d.log) \in 1 .. size
         /\ e.log[n].type = "span.ended" /\ e.log[n].trace = t /\ e.log[n].returned = returned
         /\ e.log[n].span = SetToSeq(spans)[n - Len(d.log)]
  <2>1. ASSUME NEW n \in Len(d.log) + 1 .. Len(e.log)
        PROVE  n - Len(d.log) \in 1 .. size /\ e.log[n] = tail[n - Len(d.log)]
    BY <1>1, <1>3, <1>7, <1>8
  <2>2. \A n \in 1 .. size : tail[n] = [type |-> "span.ended", trace |-> t, span |-> SetToSeq(spans)[n], returned |-> returned]
    BY DEF tail
  <2>3. ASSUME NEW n \in Len(d.log) + 1 .. Len(e.log)
        PROVE  /\ e.log[n].type = "span.ended" /\ e.log[n].trace = t /\ e.log[n].returned = returned
               /\ e.log[n].span = SetToSeq(spans)[n - Len(d.log)]
    <3>1. e.log[n] = [type |-> "span.ended", trace |-> t, span |-> SetToSeq(spans)[n - Len(d.log)], returned |-> returned]
      BY <2>1, <2>2
    <3>2. QED
      BY <3>1
  <2>4. QED
    BY <2>1, <2>3
<1>10. \A m, n \in Len(d.log) + 1 .. Len(e.log) : e.log[n].span = e.log[m].span => m = n
  <2>1. ASSUME NEW m \in Len(d.log) + 1 .. Len(e.log), NEW n \in Len(d.log) + 1 .. Len(e.log), e.log[n].span = e.log[m].span
        PROVE  m = n
    <3>1. m - Len(d.log) = n - Len(d.log)
      BY <2>1, <1>3, <1>9
    <3>2. QED
      BY <3>1, <1>1, <1>3, <1>7, <1>8
  <2>2. QED
    BY <2>1
<1>11. spans = {} => size = 0
  BY FS_EmptySet DEF size
<1>12. /\ DOMAIN e.spans = DOMAIN d.spans
       /\ \A s \in DOMAIN d.spans :
                 /\ e.spans[s].trace = d.spans[s].trace /\ e.spans[s].parent = d.spans[s].parent
                 /\ s \in spans => e.spans[s].status = status /\ e.spans[s].auto = auto
                 /\ s \notin spans => e.spans[s] = d.spans[s]
  BY <1>5, <1>8
<1>13. /\ Len(d.log) <= Len(e.log) /\ (spans = {} => Len(e.log) = Len(d.log))
       /\ \A n \in DOMAIN d.log : e.log[n] = d.log[n]
  BY <1>1, <1>3, <1>7, <1>8, <1>11
<1>14. \A n \in Len(d.log) + 1 .. Len(e.log) :
          /\ e.log[n].type = "span.ended" /\ e.log[n].trace = t /\ e.log[n].span \in spans
          /\ e.log[n].returned = returned
  BY <1>3, <1>9
<1>15. QED
  <2>1. EndsIn(d, e, t, spans, status, auto, returned)
    BY <1>8, <1>10, <1>12, <1>13, <1>14 DEF EndsIn
  <2>2. QED
    BY <2>1 DEF e

Endings == {"OK", "ERROR", "CANCELLED"}

\* What may be appended to the log of a trace that has not ended: nothing about a span
\* that has, no second end of a span, and nothing after the end of the trace.
LEMMA LogGrows ==
    ASSUME NEW d \in Rows, NEW e \in Rows, NEW t \in Traces, OneStory(d), LogIsOfRows(d),
           TraceEnded(d, t) => Len(e.log) = Len(d.log),
           Len(d.log) <= Len(e.log), \A n \in DOMAIN d.log : e.log[n] = d.log[n],
           \A u \in Traces : SpansOf(d, u) \subseteq SpansOf(e, u),
           \A s \in DOMAIN d.spans : SpanEnded(d, s) => SpanEnded(e, s),
           \A u \in Traces : TraceEnded(d, u) => TraceEnded(e, u),
           \A n \in Len(d.log) + 1 .. Len(e.log) :
              /\ e.log[n].trace = t
              /\ e.log[n].span # 0 => e.log[n].span \in SpansOf(e, t)
              /\ e.log[n].type = "span.ended" => e.log[n].span # 0 /\ SpanEnded(e, e.log[n].span)
              /\ e.log[n].type = "trace.ended" => TraceEnded(e, t) /\ n = Len(e.log)
              /\ e.log[n].type # "trace.ended" /\ e.log[n].span \in DOMAIN d.spans => ~SpanEnded(d, e.log[n].span),
           \A n \in Len(d.log) + 1 .. Len(e.log) : \A m \in Len(d.log) + 1 .. n - 1 :
              e.log[m].type = "span.ended" /\ e.log[n].span = e.log[m].span => e.log[n].type = "trace.ended"
    PROVE  OneStory(e) /\ LogIsOfRows(e)
<1>1. /\ Len(d.log) \in Nat /\ DOMAIN d.log = 1 .. Len(d.log) /\ Len(e.log) \in Nat /\ DOMAIN e.log = 1 .. Len(e.log)
      /\ \A n \in DOMAIN d.log : d.log[n] \in Event
  BY RowTypes
<1>2. ASSUME NEW n \in DOMAIN d.log
      PROVE  /\ d.log[n].trace \in Traces
             /\ d.log[n].span # 0 => d.log[n].span \in SpansOf(d, d.log[n].trace)
             /\ d.log[n].type = "span.ended" => d.log[n].span # 0 /\ SpanEnded(d, d.log[n].span)
             /\ d.log[n].type = "trace.ended" => TraceEnded(d, d.log[n].trace)
  <2>1. d.log[n] \in Event
    BY <1>1
  <2>2. d.log[n].trace \in Traces
    BY <2>1 DEF Event
  <2>3. QED
    BY <2>2 DEF LogIsOfRows
<1>3. ASSUME NEW n \in DOMAIN e.log, NEW m \in 1 .. n - 1
      PROVE  /\ e.log[m].type = "trace.ended" => e.log[n].trace # e.log[m].trace
             /\ e.log[m].type = "span.ended" /\ e.log[n].span = e.log[m].span => e.log[n].type = "trace.ended"
  <2>1. CASE n \in DOMAIN d.log
    <3>1. m \in DOMAIN d.log /\ e.log[m] = d.log[m] /\ e.log[n] = d.log[n]
      BY <2>1, <1>1
    <3>2. QED
      BY <2>1, <3>1 DEF OneStory
  <2>2. CASE n \in Len(d.log) + 1 .. Len(e.log) /\ m \in DOMAIN d.log
    <3>1. e.log[m] = d.log[m] /\ ~TraceEnded(d, t) /\ e.log[n].trace = t
      BY <2>2, <1>1
    <3>2. e.log[m].type = "trace.ended" => e.log[n].trace # e.log[m].trace
      BY <2>2, <3>1, <1>2
    <3>3. ASSUME e.log[m].type = "span.ended", e.log[n].span = e.log[m].span
          PROVE  e.log[n].type = "trace.ended"
      <4>1. e.log[n].span \in DOMAIN d.spans /\ SpanEnded(d, e.log[n].span)
        BY <2>2, <3>1, <3>3, <1>2 DEF SpansOf
      <4>2. QED
        BY <2>2, <4>1
    <3>4. QED
      BY <3>2, <3>3
  <2>3. CASE n \in Len(d.log) + 1 .. Len(e.log) /\ m \in Len(d.log) + 1 .. n - 1
    <3>1. m \in Len(d.log) + 1 .. Len(e.log) /\ m # Len(e.log)
      BY <2>3, <1>1
    <3>2. e.log[m].type # "trace.ended"
      BY <3>1
    <3>3. QED
      BY <2>3, <3>2
  <2>4. QED
    BY <2>1, <2>2, <2>3, <1>1
<1>4. ASSUME NEW n \in DOMAIN e.log
      PROVE  /\ e.log[n].span # 0 => e.log[n].span \in SpansOf(e, e.log[n].trace)
             /\ e.log[n].type = "span.ended" => e.log[n].span # 0 /\ SpanEnded(e, e.log[n].span)
             /\ e.log[n].type = "trace.ended" => TraceEnded(e, e.log[n].trace)
  <2>1. CASE n \in DOMAIN d.log
    <3>1. e.log[n] = d.log[n]
      BY <2>1
    <3>2. d.log[n].span # 0 => d.log[n].span \in SpansOf(e, d.log[n].trace) /\ d.log[n].span \in DOMAIN d.spans
      BY <2>1, <1>2 DEF SpansOf
    <3>3. QED
      BY <2>1, <3>1, <3>2, <1>2
  <2>2. CASE n \in Len(d.log) + 1 .. Len(e.log)
    BY <2>2
  <2>3. QED
    BY <2>1, <2>2, <1>1
<1>5. OneStory(e)
  BY <1>3 DEF OneStory
<1>6. LogIsOfRows(e)
  BY <1>4 DEF LogIsOfRows
<1>7. QED
  BY <1>5, <1>6

\* Spans that end stay where they are.
LEMMA SameTree ==
    ASSUME NEW d \in Rows, NEW e \in Rows, Owned(d), RootsAreSpans(d), DOMAIN e.spans = DOMAIN d.spans,
           \A s \in DOMAIN d.spans : e.spans[s].trace = d.spans[s].trace /\ e.spans[s].parent = d.spans[s].parent,
           \A t \in Traces : e.traces[t].root = d.traces[t].root,
           \A t \in Traces : e.traces[t].status = "none" => d.traces[t].status = "none"
    PROVE  Owned(e) /\ RootsAreSpans(e) /\ \A t \in Traces : SpansOf(e, t) = SpansOf(d, t)
<1>1. \A s \in DOMAIN d.spans : d.spans[s].trace \in Traces /\ d.spans[s].parent \in Nat /\ d.spans[s] \in Span
  BY RowTypes DEF Span
<1>2. \A t \in Traces : SpansOf(e, t) = SpansOf(d, t)
  BY DEF SpansOf
<1>3. RootsAreSpans(e)
  BY <1>2 DEF RootsAreSpans, SpansOf
<1>4. Owned(e)
  <2>1. ASSUME NEW s \in DOMAIN d.spans, d.spans[s].parent # 0
        PROVE  d.spans[s].parent < s /\ d.spans[d.spans[s].parent].trace = d.spans[s].trace
    BY <2>1 DEF Owned
  <2>2. ASSUME NEW s \in DOMAIN d.spans, d.spans[s].parent # 0
        PROVE  d.spans[s].parent \in DOMAIN d.spans
    BY <2>1, <2>2, <1>1, RowTypes
  <2>3. ASSUME NEW s \in DOMAIN d.spans, d.spans[s].parent = 0
        PROVE  e.traces[e.spans[s].trace].root = s
    BY <2>3, <1>1 DEF Owned
  <2>4. QED
    BY <2>1, <2>2, <2>3 DEF Owned
<1>5. QED
  BY <1>2, <1>3, <1>4

\* What a transaction on one trace may do to the rows.
Grows(d, e, t) ==
    /\ Len(d.log) <= Len(e.log) /\ \A n \in DOMAIN d.log : e.log[n] = d.log[n]
    /\ \A u \in Traces : SpansOf(d, u) \subseteq SpansOf(e, u)
    /\ \A u \in Traces \ {t} : e.traces[u] = d.traces[u] /\ SpansOf(e, u) = SpansOf(d, u)
    /\ \A u \in Traces \ {t} : \A s \in SpansOf(d, u) : e.spans[s] = d.spans[s]
    /\ d.traces[t].root # 0 => e.traces[t].root = d.traces[t].root

LEMMA GrowsTwice ==
    ASSUME NEW d \in Rows, NEW e \in Rows, NEW f \in Rows, NEW t \in Traces, Grows(d, e, t), Grows(e, f, t)
    PROVE  Grows(d, f, t)
<1>1. /\ Len(d.log) \in Nat /\ DOMAIN d.log = 1 .. Len(d.log) /\ Len(e.log) \in Nat /\ DOMAIN e.log = 1 .. Len(e.log)
      /\ Len(f.log) \in Nat
  BY RowTypes
<1>2. Len(d.log) <= Len(f.log) /\ \A n \in DOMAIN d.log : f.log[n] = d.log[n]
  BY <1>1 DEF Grows
<1>3. QED
  BY <1>2 DEF Grows

LEMMA GrowsNot == ASSUME NEW d \in Rows, NEW t \in Traces PROVE Grows(d, d, t)
  BY RowTypes DEF Grows

\* Spans that are open are ended by their operation, or by a cancel.
SpansEnd(d, e, t, spans) ==
    /\ RowsAreSound(e) /\ Grows(d, e, t) /\ e.traces = d.traces
    /\ SpansOf(e, t) = SpansOf(d, t) /\ OpenSpans(e, t) = OpenSpans(d, t) \ spans

LEMMA EndSpansSound ==
    ASSUME NEW d, RowsAreSound(d), NEW t \in Traces, NEW spans \in SUBSET OpenSpans(d, t), NEW status \in Endings
    PROVE  SpansEnd(d, EndSpans(d, t, spans, status, FALSE, TRUE), t, spans)
<1> DEFINE e == EndSpans(d, t, spans, status, FALSE, TRUE)
<1>1. d \in Rows /\ spans \in SUBSET SpansOf(d, t) /\ status \in SpanStatuses
  BY DEF RowsAreSound, OpenSpans, Endings, SpanStatuses
<1>2. /\ e \in Rows /\ e.traces = d.traces
      /\ DOMAIN e.spans = DOMAIN d.spans
      /\ \A s \in DOMAIN d.spans :
            /\ e.spans[s].trace = d.spans[s].trace /\ e.spans[s].parent = d.spans[s].parent
            /\ s \in spans => e.spans[s].status = status /\ e.spans[s].auto = FALSE
            /\ s \notin spans => e.spans[s] = d.spans[s]
      /\ Len(d.log) <= Len(e.log) /\ (spans = {} => Len(e.log) = Len(d.log))
      /\ \A n \in DOMAIN d.log : e.log[n] = d.log[n]
      /\ \A n \in Len(d.log) + 1 .. Len(e.log) :
            e.log[n].type = "span.ended" /\ e.log[n].trace = t /\ e.log[n].span \in spans
      /\ \A m, n \in Len(d.log) + 1 .. Len(e.log) : e.log[n].span = e.log[m].span => m = n
  <2>1. EndsIn(d, e, t, spans, status, FALSE, TRUE)
    BY <1>1, EndSpansRows, Zenon
  <2> HIDE DEF e
  <2>2. QED
    BY <2>1 DEF EndsIn
<1> HIDE DEF e
<1>3. Owned(e) /\ RootsAreSpans(e) /\ \A u \in Traces : SpansOf(e, u) = SpansOf(d, u)
  BY <1>1, <1>2, SameTree DEF RowsAreSound
<1>4. /\ \A s \in DOMAIN d.spans : s \in spans => SpanEnded(e, s) /\ ~SpanEnded(d, s) /\ d.spans[s].trace = t
      /\ \A s \in DOMAIN d.spans : s \notin spans => (SpanEnded(e, s) <=> SpanEnded(d, s))
      /\ \A s \in DOMAIN d.spans : SpanEnded(d, s) => SpanEnded(e, s)
  BY <1>2 DEF OpenSpans, SpansOf, SpanEnded, Endings
<1>5. \A u \in Traces : TraceEnded(e, u) <=> TraceEnded(d, u)
  BY <1>2 DEF TraceEnded
<1>6. OpenSpans(e, t) = OpenSpans(d, t) \ spans /\ \A u \in Traces : OpenSpans(e, u) \subseteq OpenSpans(d, u)
  BY <1>2, <1>3, <1>4 DEF OpenSpans, SpansOf
<1>7. TraceEnded(d, t) => spans = {}
  BY DEF RowsAreSound, EndedIsClosed
<1>8. OneStory(e) /\ LogIsOfRows(e)
  <2>1. Len(d.log) \in Nat /\ Len(e.log) \in Nat
    BY <1>1, <1>2, RowTypes
  <2>2. ASSUME NEW n \in Len(d.log) + 1 .. Len(e.log)
        PROVE  /\ e.log[n].trace = t
               /\ e.log[n].span # 0 => e.log[n].span \in SpansOf(e, t)
               /\ e.log[n].type = "span.ended" => e.log[n].span # 0 /\ SpanEnded(e, e.log[n].span)
               /\ e.log[n].type = "trace.ended" => TraceEnded(e, t) /\ n = Len(e.log)
               /\ e.log[n].type # "trace.ended" /\ e.log[n].span \in DOMAIN d.spans => ~SpanEnded(d, e.log[n].span)
    <3>1. e.log[n].span \in spans /\ e.log[n].span \in SpansOf(d, t) /\ e.log[n].span \in DOMAIN d.spans
      BY <1>1, <1>2 DEF SpansOf
    <3>2. e.log[n].span # 0
      BY <3>1, <1>1, RowTypes
    <3>3. QED
      BY <3>1, <3>2, <1>2, <1>3, <1>4
  <2>3. ASSUME NEW n \in Len(d.log) + 1 .. Len(e.log), NEW m \in Len(d.log) + 1 .. n - 1
        PROVE  e.log[n].span # e.log[m].span
    <3>1. m \in Len(d.log) + 1 .. Len(e.log) /\ m # n
      BY <2>1
    <3>2. QED
      BY <3>1, <1>2
  <2>4. QED
    BY <2>2, <2>3, <1>1, <1>2, <1>3, <1>4, <1>5, <1>7, LogGrows DEF RowsAreSound
<1>9. EndedIsClosed(e)
  <2>1. \A s \in DOMAIN d.spans : e.spans[s].auto => d.spans[s].auto
    BY <1>2
  <2>2. ASSUME NEW u \in Traces, TraceEnded(e, u)
        PROVE  OpenSpans(e, u) = {} /\ (e.traces[u].status = "OK" => \A s \in SpansOf(e, u) : ~e.spans[s].auto)
    <3>1. OpenSpans(d, u) = {} /\ (d.traces[u].status = "OK" => \A s \in SpansOf(d, u) : ~d.spans[s].auto)
      BY <2>2, <1>5 DEF RowsAreSound, EndedIsClosed
    <3>2. QED
      BY <3>1, <2>1, <1>2, <1>3, <1>6 DEF SpansOf
  <2>3. QED
    BY <2>2 DEF EndedIsClosed
<1>10. ForgottenIsEnded(e)
  BY <1>2, <1>5, RowTypes, <1>1 DEF RowsAreSound, ForgottenIsEnded, Span
<1>11. Grows(d, e, t)
  BY <1>2, <1>3 DEF Grows, OpenSpans, SpansOf
<1>12. RowsAreSound(e)
  BY <1>2, <1>3, <1>8, <1>9, <1>10 DEF RowsAreSound
<1>13. SpansEnd(d, e, t, spans)
  BY <1>2, <1>3, <1>6, <1>11, <1>12 DEF SpansEnd
<1>14. QED
  BY <1>13 DEF e

LEMMA EndSpanSound ==
    ASSUME NEW d, RowsAreSound(d), NEW t \in Traces, NEW s \in SpansOf(d, t), NEW status \in Endings
    PROVE  SpansEnd(d, EndSpan(d, s, status), t, {s})
<1>1. d \in Rows /\ d.spans[s].trace = t
  BY DEF RowsAreSound, SpansOf
<1>2. CASE SpanEnded(d, s)
  <2>1. EndSpan(d, s, status) = d
    BY <1>2 DEF EndSpan
  <2>2. OpenSpans(d, t) \ {s} = OpenSpans(d, t)
    BY <1>2 DEF OpenSpans
  <2>3. QED
    BY <2>1, <2>2, <1>1, GrowsNot DEF SpansEnd
<1>3. CASE ~SpanEnded(d, s)
  <2>1. EndSpan(d, s, status) = EndSpans(d, t, {s}, status, FALSE, TRUE)
    BY <1>1, <1>3 DEF EndSpan
  <2>2. {s} \in SUBSET OpenSpans(d, t)
    BY <1>3 DEF OpenSpans
  <2>3. SpansEnd(d, EndSpans(d, t, {s}, status, FALSE, TRUE), t, {s})
    BY <2>2, EndSpansSound, Zenon
  <2>4. QED
    BY <2>1, <2>3, Zenon
<1>4. QED
  BY <1>2, <1>3

LEMMA RootEndsSound ==
    ASSUME NEW d, RowsAreSound(d), NEW t \in Traces, NEW status \in Endings
    PROVE  SpansEnd(d, RootEnds(d, t, status), t, {d.traces[t].root})
<1>1. CASE d.traces[t].root = 0
  <2>1. RootEnds(d, t, status) = d /\ OpenSpans(d, t) = {} /\ d \in Rows
    BY <1>1 DEF RootEnds, RowsAreSound, RootsAreSpans, OpenSpans
  <2>2. QED
    BY <2>1, GrowsNot DEF SpansEnd
<1>2. CASE d.traces[t].root # 0
  <2>1. RootEnds(d, t, status) = EndSpan(d, d.traces[t].root, status) /\ d.traces[t].root \in SpansOf(d, t)
    BY <1>2 DEF RootEnds, RowsAreSound, RootsAreSpans
  <2>2. QED
    BY <2>1, EndSpanSound
<1>3. QED
  BY <1>1, <1>2

\* A trace is created once.
LEMMA CreateSound ==
    ASSUME NEW d, RowsAreSound(d), NEW t \in Traces, d.traces[t].status = "none"
    PROVE  LET e == CreateTrace(d, t) IN
           /\ RowsAreSound(e) /\ Grows(d, e, t) /\ e.spans = d.spans
           /\ e.traces[t].status = "RUNNING" /\ e.traces[t].root = 0
<1> DEFINE c == [d EXCEPT !.traces[t].status = "RUNNING"]
           e == CreateTrace(d, t)
<1>1. d \in Rows
  BY DEF RowsAreSound
<1>2. /\ c \in Rows /\ c.spans = d.spans /\ c.log = d.log
      /\ \A u \in Traces \ {t} : c.traces[u] = d.traces[u]
      /\ c.traces[t].status = "RUNNING" /\ c.traces[t].root = d.traces[t].root
  BY <1>1 DEF Rows, SpanStatuses
<1>3. e = Logged(c, "trace.started", t, 0, TRUE)
  BY DEF CreateTrace
<1> HIDE DEF c, e
<1>4. /\ e \in Rows /\ e.traces = c.traces /\ e.spans = d.spans
      /\ Len(e.log) = Len(d.log) + 1
      /\ \A n \in DOMAIN d.log : e.log[n] = d.log[n]
      /\ e.log[Len(e.log)].type = "trace.started" /\ e.log[Len(e.log)].trace = t /\ e.log[Len(e.log)].span = 0
  <2>1. c \in Rows /\ "trace.started" \in Types /\ 0 \in Nat /\ TRUE \in BOOLEAN
    BY <1>2 DEF Types
  <2>2. LogsIn(c, e, "trace.started", t, 0, TRUE)
    BY <2>1, <1>3, LoggedRows, Zenon
  <2>3. QED
    BY <2>2, <1>2 DEF LogsIn
<1>5. d.traces[t].root = 0
  BY DEF RowsAreSound, RootsAreSpans
<1>6. \A u \in Traces : e.traces[u].root = d.traces[u].root /\ (TraceEnded(e, u) <=> TraceEnded(d, u))
                        /\ (e.traces[u].status = "none" => d.traces[u].status = "none")
                        /\ (e.traces[u].status = "OK" => d.traces[u].status = "OK")
  BY <1>2, <1>4 DEF TraceEnded
<1>7. Owned(e) /\ RootsAreSpans(e) /\ \A u \in Traces : SpansOf(e, u) = SpansOf(d, u)
  BY <1>1, <1>4, <1>6, SameTree DEF RowsAreSound
<1>8. \A s \in DOMAIN d.spans : SpanEnded(e, s) <=> SpanEnded(d, s)
  BY <1>4 DEF SpanEnded
<1>9. \A u \in Traces : OpenSpans(e, u) = OpenSpans(d, u)
  BY <1>7, <1>8 DEF OpenSpans, SpansOf
<1>10. OneStory(e) /\ LogIsOfRows(e)
  <2>1. Len(d.log) \in Nat
    BY <1>1, RowTypes
  <2>2. ~TraceEnded(d, t)
    BY DEF TraceEnded
  <2>3. \A n \in Len(d.log) + 1 .. Len(e.log) : n = Len(e.log)
    BY <2>1, <1>4
  <2>4. 0 \notin DOMAIN d.spans
    BY <1>1, RowTypes
  <2>5. QED
    BY <2>1, <2>2, <2>3, <2>4, <1>1, <1>4, <1>6, <1>7, <1>8, LogGrows DEF RowsAreSound
<1>11. EndedIsClosed(e)
  BY <1>4, <1>6, <1>7, <1>9 DEF RowsAreSound, EndedIsClosed
<1>12. ForgottenIsEnded(e)
  <2>1. \A s \in DOMAIN d.spans : d.spans[s].trace \in Traces
    BY <1>1, RowTypes DEF Span
  <2>2. QED
    BY <2>1, <1>4, <1>6 DEF RowsAreSound, ForgottenIsEnded
<1>13. Grows(d, e, t)
  <2>1. Len(d.log) \in Nat
    BY <1>1, RowTypes
  <2>2. QED
    BY <2>1, <1>2, <1>4, <1>5, <1>7 DEF Grows
<1>14. RowsAreSound(e)
  BY <1>4, <1>7, <1>10, <1>11, <1>12 DEF RowsAreSound
<1>15. QED
  BY <1>2, <1>4, <1>5, <1>13, <1>14 DEF e

\* A span is opened below another one of its trace, or as its first.
LEMMA StartSound ==
    ASSUME NEW d, RowsAreSound(d), NEW t \in Traces, d.traces[t].status = "RUNNING",
           NEW parent, IF parent = 0 THEN d.traces[t].root = 0 ELSE parent \in SpansOf(d, t)
    PROVE  LET e == StartSpan(d, t, parent)
               s == Len(d.spans) + 1 IN
           /\ RowsAreSound(e) /\ Grows(d, e, t) /\ Len(e.spans) = s
           /\ s \in SpansOf(e, t) /\ e.traces[t].status = "RUNNING"
           /\ e.traces[t].root = IF parent = 0 THEN s ELSE d.traces[t].root
<1> DEFINE s == Len(d.spans) + 1
           x == [trace |-> t, parent |-> parent, status |-> "RUNNING", auto |-> FALSE]
           c == [d EXCEPT !.spans = Append(@, x), !.traces[t].root = IF parent = 0 THEN s ELSE @]
           e == StartSpan(d, t, parent)
<1>1. d \in Rows
  BY DEF RowsAreSound
<1>2. /\ Len(d.spans) \in Nat /\ DOMAIN d.spans = 1 .. Len(d.spans) /\ d.spans \in Seq(Span)
      /\ \A r \in DOMAIN d.spans : d.spans[r] \in Span
      /\ Len(d.log) \in Nat /\ DOMAIN d.log = 1 .. Len(d.log) /\ d.log \in Seq(Event)
      /\ d.traces \in [Traces -> [status : SpanStatuses \cup {"none"}, root : Nat]]
  BY <1>1, RowTypes
<1>3. parent \in Nat /\ (parent # 0 => parent \in DOMAIN d.spans /\ d.spans[parent].trace = t /\ parent < s) /\ s \notin DOMAIN d.spans
  BY <1>2 DEF SpansOf
<1>4. x \in Span
  BY <1>3 DEF Span, SpanStatuses
<1>5. x.trace = t /\ x.parent = parent /\ x.status = "RUNNING" /\ x.auto = FALSE
  OBVIOUS
<1>6. e = Logged(c, "span.started", t, s, TRUE)
  BY DEF StartSpan
<1> HIDE DEF x
<1>7. /\ Append(d.spans, x) \in Seq(Span) /\ Len(Append(d.spans, x)) = s
      /\ \A r \in DOMAIN d.spans : Append(d.spans, x)[r] = d.spans[r]
      /\ Append(d.spans, x)[s] = x
  BY <1>2, <1>4
<1>8. /\ c \in Rows /\ c.spans = Append(d.spans, x) /\ c.log = d.log
      /\ \A u \in Traces \ {t} : c.traces[u] = d.traces[u]
      /\ c.traces[t].status = "RUNNING" /\ c.traces[t].root = IF parent = 0 THEN s ELSE d.traces[t].root
  <2>1. s \in Nat
    BY <1>2
  <2> HIDE DEF s
  <2>2. QED
    BY <2>1, <1>1, <1>7 DEF Rows
<1> HIDE DEF c, e
<1>9. /\ e \in Rows /\ e.traces = c.traces /\ e.spans = c.spans
      /\ Len(e.log) = Len(d.log) + 1
      /\ \A n \in DOMAIN d.log : e.log[n] = d.log[n]
      /\ e.log[Len(e.log)].type = "span.started" /\ e.log[Len(e.log)].trace = t /\ e.log[Len(e.log)].span = s
  <2>1. c \in Rows /\ "span.started" \in Types /\ s \in Nat /\ TRUE \in BOOLEAN
    BY <1>2, <1>8 DEF Types
  <2> HIDE DEF s
  <2>2. LogsIn(c, e, "span.started", t, s, TRUE)
    BY <2>1, <1>6, LoggedRows, Zenon
  <2>3. QED
    BY <2>2, <1>8 DEF LogsIn
<1>10. /\ DOMAIN e.spans = DOMAIN d.spans \cup {s} /\ Len(e.spans) = s
       /\ \A r \in DOMAIN d.spans : e.spans[r] = d.spans[r]
       /\ e.spans[s] = x
  BY <1>2, <1>7, <1>8, <1>9
<1>11. \A u \in Traces : /\ TraceEnded(e, u) <=> TraceEnded(d, u)
                         /\ e.traces[u].status = d.traces[u].status
  BY <1>8, <1>9 DEF TraceEnded
<1>12. /\ SpansOf(e, t) = SpansOf(d, t) \cup {s}
       /\ \A u \in Traces \ {t} : SpansOf(e, u) = SpansOf(d, u)
       /\ \A u \in Traces : SpansOf(d, u) \subseteq DOMAIN d.spans
  BY <1>5, <1>10 DEF SpansOf
<1>13. ~TraceEnded(d, t)
  BY DEF TraceEnded
<1>14. OneStory(e) /\ LogIsOfRows(e)
  <2>1. \A n \in Len(d.log) + 1 .. Len(e.log) : n = Len(e.log)
    BY <1>2, <1>9
  <2>2. \A r \in DOMAIN d.spans : SpanEnded(d, r) => SpanEnded(e, r)
    BY <1>10 DEF SpanEnded
  <2>3. \A u \in Traces : SpansOf(d, u) \subseteq SpansOf(e, u)
    BY <1>12
  <2>4. s \in SpansOf(e, t)
    BY <1>12
  <2> HIDE DEF s
  <2>5. ASSUME NEW n \in Len(d.log) + 1 .. Len(e.log)
        PROVE  e.log[n].type = "span.started" /\ e.log[n].trace = t /\ e.log[n].span = s
    BY <2>1, <1>9
  <2>6. \A n \in Len(d.log) + 1 .. Len(e.log) : \A m \in Len(d.log) + 1 .. n - 1 : FALSE
    BY <2>1, <1>2
  <2>7. Len(d.log) <= Len(e.log) /\ OneStory(d) /\ LogIsOfRows(d)
    BY <1>2, <1>9 DEF RowsAreSound
  <2>8. QED
    BY <2>2, <2>3, <2>4, <2>5, <2>6, <2>7, <1>1, <1>3, <1>9, <1>11, <1>13, LogGrows
<1>15. EndedIsClosed(e)
  <2>1. ASSUME NEW u \in Traces, TraceEnded(e, u)
        PROVE  OpenSpans(e, u) = {} /\ (e.traces[u].status = "OK" => \A r \in SpansOf(e, u) : ~e.spans[r].auto)
    <3>1. u # t /\ TraceEnded(d, u) /\ e.traces[u].status = d.traces[u].status
      BY <2>1, <1>11, <1>13
    <3>2. OpenSpans(d, u) = {} /\ (d.traces[u].status = "OK" => \A r \in SpansOf(d, u) : ~d.spans[r].auto)
      BY <3>1 DEF RowsAreSound, EndedIsClosed
    <3>3. SpansOf(e, u) = SpansOf(d, u) /\ \A r \in SpansOf(d, u) : e.spans[r] = d.spans[r]
      BY <3>1, <1>10, <1>12
    <3>4. QED
      BY <3>1, <3>2, <3>3 DEF OpenSpans, SpanEnded
  <2>2. QED
    BY <2>1 DEF EndedIsClosed
<1>16. Owned(e)
  <2>1. ASSUME NEW r \in DOMAIN d.spans
        PROVE  IF d.spans[r].parent = 0 THEN e.traces[d.spans[r].trace].root = r
               ELSE /\ d.spans[r].parent \in DOMAIN d.spans
                    /\ d.spans[r].parent < r /\ d.spans[d.spans[r].parent].trace = d.spans[r].trace
    <3>1. d.spans[r].trace \in Traces /\ d.spans[r].parent \in Nat
      BY <1>2 DEF Span
    <3>2. CASE d.spans[r].parent # 0
      BY <3>1, <3>2, <1>2 DEF RowsAreSound, Owned
    <3>3. CASE d.spans[r].parent = 0
      <4>1. d.traces[d.spans[r].trace].root = r /\ r # 0
        BY <3>3, <1>2 DEF RowsAreSound, Owned
      <4>2. d.spans[r].trace = t => parent # 0
        BY <4>1
      <4>3. QED
        BY <4>1, <4>2, <3>1, <3>3, <1>8, <1>9
    <3>4. QED
      BY <3>2, <3>3
  <2>2. IF x.parent = 0 THEN e.traces[x.trace].root = s ELSE x.parent < s /\ e.spans[x.parent].trace = x.trace
    BY <1>3, <1>5, <1>8, <1>9, <1>10
  <2>3. QED
    BY <2>1, <2>2, <1>10 DEF Owned
<1>17. RootsAreSpans(e)
  <2>1. ASSUME NEW u \in Traces \ {t}
        PROVE  /\ IF e.traces[u].root = 0 THEN SpansOf(e, u) = {}
                  ELSE e.traces[u].root \in SpansOf(e, u) /\ e.spans[e.traces[u].root].parent = 0
               /\ e.traces[u].status = "none" => e.traces[u].root = 0
    <3>1. e.traces[u] = d.traces[u] /\ SpansOf(e, u) = SpansOf(d, u) /\ SpansOf(d, u) \subseteq DOMAIN d.spans
      BY <1>8, <1>9, <1>12
    <3>2. QED
      BY <3>1, <1>10 DEF RowsAreSound, RootsAreSpans
  <2>2. CASE parent = 0
    BY <2>1, <2>2, <1>5, <1>2, <1>8, <1>9, <1>10, <1>12 DEF RootsAreSpans
  <2>3. CASE parent # 0
    <3>1. d.traces[t].root # 0 /\ d.traces[t].root \in SpansOf(d, t) /\ d.spans[d.traces[t].root].parent = 0
      BY <2>3 DEF RowsAreSound, RootsAreSpans
    <3>2. QED
      BY <2>1, <2>3, <3>1, <1>8, <1>9, <1>10, <1>12 DEF RootsAreSpans
  <2>4. QED
    BY <2>2, <2>3
<1>18. ForgottenIsEnded(e)
  <2>1. \A r \in DOMAIN d.spans : d.spans[r].trace \in Traces
    BY <1>2 DEF Span
  <2>2. QED
    BY <2>1, <1>5, <1>10, <1>11 DEF RowsAreSound, ForgottenIsEnded
<1>19. Grows(d, e, t)
  <2>1. d.traces[t].root # 0 => parent # 0
    OBVIOUS
  <2>2. QED
    BY <2>1, <1>2, <1>8, <1>9, <1>10, <1>12 DEF Grows
<1>20. RowsAreSound(e)
  BY <1>9, <1>14, <1>15, <1>16, <1>17, <1>18 DEF RowsAreSound
<1>21. QED
  BY <1>8, <1>9, <1>10, <1>12, <1>19, <1>20 DEF e, s

\* An event is recorded of a span that is open.
LEMMA EventSound ==
    ASSUME NEW d, RowsAreSound(d), NEW t \in Traces, NEW s \in OpenSpans(d, t), ~TraceEnded(d, t)
    PROVE  LET e == Logged(d, "span.event", t, s, TRUE) IN
           RowsAreSound(e) /\ Grows(d, e, t) /\ e.traces = d.traces /\ e.spans = d.spans
<1> DEFINE e == Logged(d, "span.event", t, s, TRUE)
<1>1. d \in Rows /\ s \in SpansOf(d, t) /\ s \in DOMAIN d.spans /\ ~SpanEnded(d, s)
  BY DEF RowsAreSound, OpenSpans, SpansOf
<1>2. Len(d.log) \in Nat /\ DOMAIN d.log = 1 .. Len(d.log) /\ s \in Nat \ {0}
  BY <1>1, RowTypes
<1>3. LogsIn(d, e, "span.event", t, s, TRUE)
  <2>1. "span.event" \in Types /\ s \in Nat /\ TRUE \in BOOLEAN
    BY <1>2 DEF Types
  <2>2. QED
    BY <2>1, <1>1, LoggedRows, Zenon
<1> HIDE DEF e
<1>4. /\ e \in Rows /\ e.traces = d.traces /\ e.spans = d.spans
      /\ Len(e.log) = Len(d.log) + 1
      /\ \A n \in DOMAIN d.log : e.log[n] = d.log[n]
      /\ e.log[Len(e.log)].type = "span.event" /\ e.log[Len(e.log)].trace = t /\ e.log[Len(e.log)].span = s
  BY <1>3 DEF LogsIn
<1>5. /\ \A u \in Traces : SpansOf(e, u) = SpansOf(d, u) /\ OpenSpans(e, u) = OpenSpans(d, u)
      /\ \A u \in Traces : TraceEnded(e, u) <=> TraceEnded(d, u)
      /\ \A r \in DOMAIN d.spans : SpanEnded(e, r) <=> SpanEnded(d, r)
  BY <1>4 DEF SpansOf, OpenSpans, TraceEnded, SpanEnded
<1>6. OneStory(e) /\ LogIsOfRows(e)
  <2>1. ASSUME NEW n \in Len(d.log) + 1 .. Len(e.log)
        PROVE  n = Len(e.log) /\ e.log[n].type = "span.event" /\ e.log[n].trace = t /\ e.log[n].span = s
    BY <1>2, <1>4
  <2>2. \A n \in Len(d.log) + 1 .. Len(e.log) : \A m \in Len(d.log) + 1 .. n - 1 : FALSE
    BY <2>1, <1>2
  <2>3. Len(d.log) <= Len(e.log) /\ OneStory(d) /\ LogIsOfRows(d)
    BY <1>2, <1>4 DEF RowsAreSound
  <2>4. QED
    BY <2>1, <2>2, <2>3, <1>1, <1>2, <1>4, <1>5, LogGrows
<1>7. EndedIsClosed(e) /\ Owned(e) /\ RootsAreSpans(e) /\ ForgottenIsEnded(e)
  BY <1>4, <1>5 DEF RowsAreSound, EndedIsClosed, Owned, RootsAreSpans, ForgottenIsEnded, TraceEnded
<1>8. Grows(d, e, t)
  BY <1>2, <1>4, <1>5 DEF Grows
<1>9. QED
  BY <1>4, <1>6, <1>7, <1>8 DEF e, RowsAreSound

\* The rows after the status of a trace has changed.
LEMMA StatusChanges ==
    ASSUME NEW c \in Rows, NEW t \in Traces, NEW new \in SpanStatuses
    PROVE  LET f == [c EXCEPT !.traces[t].status = new] IN
           /\ f \in Rows /\ f.spans = c.spans /\ f.log = c.log
           /\ \A u \in Traces \ {t} : f.traces[u] = c.traces[u]
           /\ f.traces[t].status = new /\ f.traces[t].root = c.traces[t].root
  BY DEF Rows

\* A trace ends once, and what was open of it is closed.
TraceEnds(d, e, t, status) ==
    /\ RowsAreSound(e) /\ Grows(d, e, t) /\ TraceEnded(e, t) /\ OpenSpans(e, t) = {} /\ SpansOf(e, t) = SpansOf(d, t)
    /\ TraceEnded(d, t) => e = d
    /\ ~TraceEnded(d, t) =>
          /\ e.traces[t].status = TerminalStatus(d, t, status)
          /\ \A s \in SpansOf(d, t) :
                e.spans[s].parent = d.spans[s].parent /\ (e.spans[s].auto <=> s \in OpenSpans(d, t))

LEMMA EndTraceSound ==
    ASSUME NEW d, RowsAreSound(d), NEW t \in Traces, NEW status \in Endings
    PROVE  TraceEnds(d, EndTrace(d, t, status), t, status)
<1>1. d \in Rows
  BY DEF RowsAreSound
<1>2. CASE TraceEnded(d, t)
  <2>1. EndTrace(d, t, status) = d /\ OpenSpans(d, t) = {}
    BY <1>2 DEF EndTrace, RowsAreSound, EndedIsClosed
  <2>2. QED
    BY <2>1, <1>1, <1>2, GrowsNot DEF TraceEnds
<1>3. CASE ~TraceEnded(d, t)
  <2> DEFINE forgotten == IF status = "CANCELLED" THEN "CANCELLED" ELSE "ERROR"
             spans == OpenSpans(d, t)
             c == EndSpans(d, t, spans, forgotten, TRUE, FALSE)
             f == [c EXCEPT !.traces[t].status = TerminalStatus(d, t, status)]
             root == d.traces[t].root
             e == Logged(f, "trace.ended", t, root, TRUE)
  <2>1. EndTrace(d, t, status) = e
    BY <1>3 DEF EndTrace, Closed
  <2>2. /\ Len(d.log) \in Nat /\ DOMAIN d.log = 1 .. Len(d.log) /\ root \in Nat
        /\ \A s \in DOMAIN d.spans : s # 0 /\ d.spans[s].trace \in Traces
    BY <1>1, RowTypes DEF Span
  <2>3. /\ c \in Rows /\ c.traces = d.traces
        /\ DOMAIN c.spans = DOMAIN d.spans
        /\ \A s \in DOMAIN d.spans :
              /\ c.spans[s].trace = d.spans[s].trace /\ c.spans[s].parent = d.spans[s].parent
              /\ s \in spans => c.spans[s].status = forgotten /\ c.spans[s].auto = TRUE
              /\ s \notin spans => c.spans[s] = d.spans[s]
        /\ Len(d.log) <= Len(c.log)
        /\ \A n \in DOMAIN d.log : c.log[n] = d.log[n]
        /\ \A n \in Len(d.log) + 1 .. Len(c.log) :
              c.log[n].type = "span.ended" /\ c.log[n].trace = t /\ c.log[n].span \in spans
        /\ \A m, n \in Len(d.log) + 1 .. Len(c.log) : c.log[n].span = c.log[m].span => m = n
    <3>1. forgotten \in SpanStatuses /\ spans \in SUBSET SpansOf(d, t) /\ TRUE \in BOOLEAN /\ FALSE \in BOOLEAN
      BY DEF SpanStatuses, OpenSpans
    <3> HIDE DEF forgotten, spans
    <3>2. EndsIn(d, c, t, spans, forgotten, TRUE, FALSE)
      BY <3>1, <1>1, EndSpansRows, Zenon
    <3> HIDE DEF c
    <3>3. QED
      BY <3>2 DEF EndsIn
  <2> HIDE DEF c
  <2>4. TerminalStatus(d, t, status) \in Endings /\ Endings \subseteq SpanStatuses \ {"RUNNING"}
    BY DEF TerminalStatus, Endings, SpanStatuses
  <2>5. /\ f \in Rows /\ f.spans = c.spans /\ f.log = c.log
        /\ \A u \in Traces \ {t} : f.traces[u] = d.traces[u]
        /\ f.traces[t].status = TerminalStatus(d, t, status) /\ f.traces[t].root = root
    <3> DEFINE new == TerminalStatus(d, t, status)
    <3>1. new \in SpanStatuses
      BY <2>4
    <3> HIDE DEF new
    <3>2. /\ f \in Rows /\ f.spans = c.spans /\ f.log = c.log
          /\ \A u \in Traces \ {t} : f.traces[u] = c.traces[u]
          /\ f.traces[t].status = new /\ f.traces[t].root = c.traces[t].root
      <4>1. f = [c EXCEPT !.traces[t].status = new]
        BY DEF new
      <4> HIDE DEF f
      <4>2. QED
        BY <4>1, <3>1, <2>3, StatusChanges
    <3> HIDE DEF f
    <3>3. QED
      BY <3>2, <2>3 DEF new
  <2> HIDE DEF f
  <2>6. LogsIn(f, e, "trace.ended", t, root, TRUE)
    <3>1. "trace.ended" \in Types /\ TRUE \in BOOLEAN
      BY DEF Types
    <3> HIDE DEF root
    <3>2. QED
      BY <3>1, <2>2, <2>5, LoggedRows, Zenon
  <2> HIDE DEF e, root
  <2>7. /\ e \in Rows /\ e.spans = c.spans /\ Len(e.log) = Len(c.log) + 1
        /\ \A u \in Traces \ {t} : e.traces[u] = d.traces[u]
        /\ e.traces[t].status = TerminalStatus(d, t, status) /\ e.traces[t].root = root
        /\ \A n \in DOMAIN c.log : e.log[n] = c.log[n]
        /\ e.log[Len(e.log)].type = "trace.ended" /\ e.log[Len(e.log)].trace = t /\ e.log[Len(e.log)].span = root
    BY <2>5, <2>6 DEF LogsIn
  <2>8. /\ TraceEnded(e, t) /\ \A u \in Traces \ {t} : TraceEnded(e, u) <=> TraceEnded(d, u)
        /\ \A u \in Traces : e.traces[u].root = d.traces[u].root /\ (e.traces[u].status = "none" => d.traces[u].status = "none")
    BY <2>4, <2>7 DEF TraceEnded, Endings, root
  <2>9. Owned(e) /\ RootsAreSpans(e) /\ \A u \in Traces : SpansOf(e, u) = SpansOf(d, u)
    BY <1>1, <2>3, <2>7, <2>8, SameTree DEF RowsAreSound
  <2>10. /\ \A s \in DOMAIN d.spans : s \in spans <=> d.spans[s].trace = t /\ ~SpanEnded(d, s)
         /\ \A s \in DOMAIN d.spans : SpanEnded(e, s) <=> s \in spans \/ SpanEnded(d, s)
         /\ spans \subseteq DOMAIN d.spans
    BY <2>3, <2>7 DEF OpenSpans, SpansOf, SpanEnded
  <2>11. OpenSpans(e, t) = {} /\ \A u \in Traces \ {t} : OpenSpans(e, u) = OpenSpans(d, u)
    BY <2>9, <2>10 DEF OpenSpans, SpansOf
  <2> HIDE DEF spans
  <2>12. Len(c.log) \in Nat /\ DOMAIN c.log = 1 .. Len(c.log) /\ DOMAIN d.log \subseteq DOMAIN c.log
    BY <2>2, <2>3, RowTypes
  <2>13. OneStory(e) /\ LogIsOfRows(e)
    <3>1. ASSUME NEW n \in Len(d.log) + 1 .. Len(e.log)
          PROVE  /\ e.log[n].trace = t
                 /\ n = Len(e.log) => e.log[n].type = "trace.ended" /\ e.log[n].span = root
                 /\ n # Len(e.log) => /\ n \in Len(d.log) + 1 .. Len(c.log)
                                      /\ e.log[n].type = "span.ended" /\ e.log[n].span \in spans
                                      /\ e.log[n] = c.log[n]
      <4>1. CASE n = Len(e.log)
        BY <4>1, <2>7
      <4>2. CASE n # Len(e.log)
        <5>1. n \in Len(d.log) + 1 .. Len(c.log) /\ n \in DOMAIN c.log
          BY <4>2, <2>2, <2>7, <2>12
        <5>2. QED
          BY <4>2, <5>1, <2>3, <2>7
      <4>3. QED
        BY <4>1, <4>2
    <3>2. root # 0 => root \in SpansOf(d, t)
      BY DEF RowsAreSound, RootsAreSpans, root
    <3>3. spans \subseteq SpansOf(d, t)
      BY <2>10 DEF SpansOf
    <3>4. ASSUME NEW n \in Len(d.log) + 1 .. Len(e.log)
          PROVE  /\ e.log[n].trace = t
                 /\ e.log[n].span # 0 => e.log[n].span \in SpansOf(e, t)
                 /\ e.log[n].type = "span.ended" => e.log[n].span # 0 /\ SpanEnded(e, e.log[n].span)
                 /\ e.log[n].type = "trace.ended" => TraceEnded(e, t) /\ n = Len(e.log)
                 /\ e.log[n].type # "trace.ended" /\ e.log[n].span \in DOMAIN d.spans => ~SpanEnded(d, e.log[n].span)
      <4>1. CASE n = Len(e.log)
        BY <4>1, <3>1, <3>2, <2>8, <2>9
      <4>2. CASE n # Len(e.log)
        <5>1. e.log[n].type = "span.ended" /\ e.log[n].span \in spans /\ e.log[n].span \in DOMAIN d.spans
          BY <4>2, <3>1, <2>10
        <5>2. e.log[n].span \in SpansOf(e, t)
          BY <5>1, <3>3, <2>9
        <5>3. QED
          BY <5>1, <5>2, <3>1, <2>2, <2>10
      <4>3. QED
        BY <4>1, <4>2
    <3>5. ASSUME NEW n \in Len(d.log) + 1 .. Len(e.log), NEW m \in Len(d.log) + 1 .. n - 1,
                 e.log[m].type = "span.ended" /\ e.log[n].span = e.log[m].span
          PROVE  e.log[n].type = "trace.ended"
      <4>1. m \in Len(d.log) + 1 .. Len(e.log) /\ m # n /\ m # Len(e.log)
        BY <2>2, <2>7, <2>12
      <4>2. CASE n # Len(e.log)
        <5>1. /\ n \in Len(d.log) + 1 .. Len(c.log) /\ m \in Len(d.log) + 1 .. Len(c.log)
              /\ e.log[n] = c.log[n] /\ e.log[m] = c.log[m]
          BY <4>1, <4>2, <3>1
        <5>2. c.log[n].span = c.log[m].span
          BY <5>1, <3>5
        <5>3. QED
          BY <5>1, <5>2, <4>1, <2>3
      <4>3. QED
        BY <4>2, <3>1
    <3>6. /\ Len(d.log) <= Len(e.log) /\ \A n \in DOMAIN d.log : e.log[n] = d.log[n]
          /\ OneStory(d) /\ LogIsOfRows(d)
      BY <2>2, <2>3, <2>7, <2>12 DEF RowsAreSound
    <3>7. /\ \A u \in Traces : SpansOf(d, u) \subseteq SpansOf(e, u)
          /\ \A s \in DOMAIN d.spans : SpanEnded(d, s) => SpanEnded(e, s)
          /\ \A u \in Traces : TraceEnded(d, u) => TraceEnded(e, u)
      BY <1>3, <2>8, <2>9, <2>10
    <3>8. QED
      BY <3>4, <3>5, <3>6, <3>7, <1>1, <1>3, <2>7, LogGrows
  <2>14. \A s \in SpansOf(d, t) : e.spans[s].parent = d.spans[s].parent /\ (e.spans[s].auto <=> s \in spans)
    <3>1. ASSUME NEW s \in SpansOf(d, t)
          PROVE  s \in DOMAIN d.spans /\ d.spans[s].trace = t /\ ~d.spans[s].auto
      BY <1>3 DEF SpansOf, RowsAreSound, ForgottenIsEnded
    <3>2. QED
      BY <3>1, <2>3, <2>7
  <2>15. EndedIsClosed(e)
    <3>1. ASSUME NEW u \in Traces \ {t}, TraceEnded(e, u)
          PROVE  OpenSpans(e, u) = {} /\ (e.traces[u].status = "OK" => \A s \in SpansOf(e, u) : ~e.spans[s].auto)
      <4>1. OpenSpans(d, u) = {} /\ (d.traces[u].status = "OK" => \A s \in SpansOf(d, u) : ~d.spans[s].auto)
        BY <3>1, <2>8 DEF RowsAreSound, EndedIsClosed
      <4>2. \A s \in SpansOf(d, u) : s \notin spans /\ s \in DOMAIN d.spans
        BY <2>10 DEF SpansOf
      <4>3. QED
        BY <4>1, <4>2, <2>3, <2>7, <2>9, <2>11
    <3>2. e.traces[t].status = "OK" => spans = {}
      BY <2>7 DEF TerminalStatus, spans
    <3>3. e.traces[t].status = "OK" => \A s \in SpansOf(e, t) : ~e.spans[s].auto
      BY <3>2, <2>9, <2>14
    <3>4. QED
      BY <3>1, <3>3, <2>11 DEF EndedIsClosed
  <2>16. ForgottenIsEnded(e)
    BY <2>2, <2>3, <2>7, <2>8, <2>10 DEF RowsAreSound, ForgottenIsEnded
  <2>17. Grows(d, e, t)
    <3>1. ASSUME NEW u \in Traces \ {t}, NEW s \in SpansOf(d, u)
          PROVE  e.spans[s] = d.spans[s]
      BY <2>3, <2>7, <2>10 DEF SpansOf
    <3>2. Len(d.log) <= Len(e.log) /\ \A n \in DOMAIN d.log : e.log[n] = d.log[n]
      BY <2>2, <2>3, <2>7, <2>12
    <3>3. QED
      BY <3>1, <3>2, <2>7, <2>8, <2>9 DEF Grows
  <2>18. RowsAreSound(e)
    BY <2>7, <2>9, <2>13, <2>15, <2>16 DEF RowsAreSound
  <2>19. TraceEnds(d, e, t, status)
    BY <1>3, <2>7, <2>8, <2>9, <2>11, <2>14, <2>17, <2>18 DEF TraceEnds, spans
  <2>20. QED
    BY <2>1, <2>19
<1>4. QED
  BY <1>2, <1>3

------------------------------------------------------------------------------
\* The rows and the stream after a transaction.
LEMMA WriteFollows ==
    ASSUME TracesIInv, NEW t \in Traces, NEW new \in Rows, Grows(db, new, t), CallsWrite(new)
    PROVE  /\ db' = new /\ StreamFollows' /\ StreamIsCurrent'
           /\ stream' \in [open : BOOLEAN, cursor : 0 .. Len(new.log), sent : SUBSET (1 .. Len(new.log))]
<1> DEFINE size == Len(db.log)
           more == Len(new.log)
<1>1. /\ size \in Nat /\ more \in Nat /\ size <= more /\ db' = new
      /\ \A n \in 1 .. size : new.log[n] = db.log[n]
  <2>1. db \in Rows
    BY DEF TracesIInv, TracesTypeOK
  <2>2. QED
    BY <2>1, RowTypes DEF Grows, CallsWrite
<1>2. /\ stream = [open |-> stream.open, cursor |-> stream.cursor, sent |-> stream.sent]
      /\ stream.open \in BOOLEAN /\ stream.cursor \in 0 .. size /\ stream.sent \subseteq 1 .. stream.cursor
      /\ \A n \in 1 .. stream.cursor : db.log[n].returned => n \in stream.sent
      /\ stream.open => \A n \in stream.cursor + 1 .. size : ~db.log[n].returned
  BY DEF TracesIInv, TracesTypeOK, StreamFollows, StreamIsCurrent
<1> DEFINE published == Published(db, new)
<1>3. \A n : n \in published <=> n \in size + 1 .. more /\ new.log[n].returned
  BY DEF Published
<1>4. CASE ~stream.open \/ published = {}
  <2>1. stream' = stream
    BY <1>4 DEF CallsWrite
  <2> HIDE DEF size, more, published
  <2>2. stream' \in [open : BOOLEAN, cursor : 0 .. more, sent : SUBSET (1 .. more)]
    BY <1>1, <1>2, <2>1
  <2>3. \A n \in 1 .. stream.cursor : new.log[n].returned => n \in stream.sent
    BY <1>1, <1>2
  <2>4. stream.open => \A n \in stream.cursor + 1 .. more : ~new.log[n].returned
    <3>1. ASSUME stream.open, NEW n \in stream.cursor + 1 .. more
          PROVE  ~new.log[n].returned
      <4>1. CASE n \in stream.cursor + 1 .. size
        BY <4>1, <3>1, <1>1, <1>2
      <4>2. CASE n \in size + 1 .. more
        BY <4>2, <3>1, <1>3, <1>4
      <4>3. QED
        BY <4>1, <4>2, <1>1, <1>2
    <3>2. QED
      BY <3>1
  <2>5. QED
    BY <1>1, <1>2, <2>1, <2>2, <2>3, <2>4 DEF StreamFollows, StreamIsCurrent, more
<1>5. CASE ~(~stream.open \/ published = {})
  <2>1. PICK last \in published :
           (\A n \in published : n <= last) /\ stream' = [open |-> TRUE, cursor |-> last, sent |-> stream.sent \cup published]
    BY <1>5, Zenon DEF CallsWrite
  <2> HIDE DEF size, more, published
  <2>2. last \in size + 1 .. more /\ published \subseteq size + 1 .. last
    BY <1>1, <1>3, <2>1
  <2>3. stream.open /\ stream' = [open |-> TRUE, cursor |-> last, sent |-> stream.sent \cup published]
    BY <1>5, <2>1
  <2>4. stream.sent \cup published \subseteq 1 .. last
    BY <1>1, <1>2, <2>2
  <2>5. stream' \in [open : BOOLEAN, cursor : 0 .. more, sent : SUBSET (1 .. more)]
    BY <1>1, <1>2, <2>2, <2>3, <2>4
  <2>6. \A n \in 1 .. last : new.log[n].returned => n \in stream.sent \cup published
    <3>1. ASSUME NEW n \in 1 .. last, new.log[n].returned
          PROVE  n \in stream.sent \cup published
      <4>1. CASE n \in 1 .. stream.cursor
        BY <4>1, <3>1, <1>1, <1>2
      <4>2. CASE n \in stream.cursor + 1 .. size
        BY <4>2, <3>1, <1>1, <1>2, <1>5
      <4>3. CASE n \in size + 1 .. last
        BY <4>3, <3>1, <1>1, <1>3, <2>2
      <4>4. QED
        BY <4>1, <4>2, <4>3, <1>1, <1>2, <2>2
    <3>2. QED
      BY <3>1
  <2>7. \A n \in last + 1 .. more : ~new.log[n].returned
    BY <1>1, <1>3, <2>1, <2>2
  <2>8. QED
    BY <1>1, <2>3, <2>4, <2>5, <2>6, <2>7 DEF StreamFollows, StreamIsCurrent, more
<1>6. QED
  BY <1>4, <1>5

\* A call that fails writes nothing.
LEMMA NothingWritten ==
    ASSUME TracesIInv, UNCHANGED <<db, stream>>
    PROVE  CallsWrite(db) /\ RowsAreSound(db) /\ \A t \in Traces : Grows(db, db, t)
<1>1. db \in Rows /\ RowsAreSound(db)
  BY DEF TracesIInv, RowsAreSound
<1>2. Published(db, db) = {}
  BY <1>1, RowTypes DEF Published
<1>3. CallsWrite(db)
  BY <1>2 DEF CallsWrite
<1>4. QED
  BY <1>1, <1>3, GrowsNot

\* What an observer may hold.
HeldIn(d) == UNION {[open -> DOMAIN d.spans] : open \in SUBSET AllKeys}

LEMMA Holds ==
    ASSUME NEW d, NEW open \in SUBSET AllKeys, NEW o \in [open -> DOMAIN d.spans]
    PROVE  o \in HeldIn(d)
  BY DEF HeldIn

LEMMA HoldsNothing ==
    ASSUME NEW d
    PROVE  NoKeys \in HeldIn(d) /\ DOMAIN NoKeys = {}
<1>1. NoKeys \in [{} -> DOMAIN d.spans] /\ DOMAIN NoKeys = {} /\ {} \in SUBSET AllKeys
  BY DEF NoKeys
<1>2. QED
  BY <1>1, Holds

LEMMA HoldsMore ==
    ASSUME NEW d \in Rows, NEW e \in Rows, NEW t \in Traces, Grows(d, e, t), NEW o \in HeldIn(d)
    PROVE  o \in HeldIn(e)
<1>1. DOMAIN d.spans \subseteq DOMAIN e.spans
  <2>1. ASSUME NEW s \in DOMAIN d.spans
        PROVE  s \in DOMAIN e.spans
    <3>1. d.spans[s].trace \in Traces
      BY RowTypes DEF Span
    <3>2. QED
      BY <3>1 DEF Grows, SpansOf
  <2>2. QED
    BY <2>1
<1>2. PICK open \in SUBSET AllKeys : o \in [open -> DOMAIN d.spans]
  BY DEF HeldIn
<1>3. o \in [open -> DOMAIN e.spans]
  BY <1>1, <1>2
<1>4. QED
  BY <1>3, Holds

LEMMA HeldKeys ==
    ASSUME NEW d, NEW o \in HeldIn(d)
    PROVE  DOMAIN o \subseteq AllKeys /\ o \in [DOMAIN o -> DOMAIN d.spans] /\ \A k \in DOMAIN o : o[k] \in DOMAIN d.spans
  BY DEF HeldIn

\* What the invariant says of one trace.
TraceHolds(t) ==
    /\ operation[t] = "none" => db.traces[t].status = "none"
    /\ DOMAIN observer[t] # {} =>
          /\ Observed(t) /\ db.traces[t].root # 0 /\ observer[t]["root"] = db.traces[t].root
          /\ \A k \in DOMAIN observer[t] : observer[t][k] \in SpansOf(db, t)
    /\ failures = 0 =>
          /\ operation[t] # "left"
          /\ operation[t] = "running" => Observed(t) /\ db.traces[t].status \in {"RUNNING", "CANCELLED"}
          /\ operation[t] \in Outcomes => TraceEnded(db, t) /\ OpenSpans(db, t) = {}
          /\ operation[t] = "OK" /\ db.traces[t].status # "CANCELLED" =>
                (db.traces[t].status = "OK" <=> ~\E s \in SpansOf(db, t) : db.spans[s].parent # 0 /\ db.spans[s].auto)

LEMMA EachTraceHolds ==
    (\A t \in Traces : TraceHolds(t)) <=> ObserversHold /\ NothingLost /\ NothingLeftOpen /\ SaysWhatHappened
  BY DEF TraceHolds, ObserversHold, NothingLost, NothingLeftOpen, SaysWhatHappened

\* A step of one trace: the others hold as they did.
LEMMA StepHolds ==
    ASSUME TracesIInv, NEW t \in Traces, NEW new, RowsAreSound(new), Grows(db, new, t), CallsWrite(new),
           failures' \in Nat, failures' = 0 => failures = 0,
           observer' \in [Traces -> HeldIn(new)], operation' \in [Traces -> {"none", "running", "left"} \cup Outcomes],
           \A u \in Traces \ {t} : observer'[u] = observer[u] /\ operation'[u] = operation[u],
           TraceHolds(t)'
    PROVE  TracesIInv'
<1>1. new \in Rows /\ db \in Rows
  BY DEF RowsAreSound, TracesIInv
<1>2. /\ db' = new /\ StreamFollows' /\ StreamIsCurrent'
      /\ stream' \in [open : BOOLEAN, cursor : 0 .. Len(new.log), sent : SUBSET (1 .. Len(new.log))]
  BY <1>1, WriteFollows
<1>3. TracesTypeOK' /\ RowsAreSound(db)'
  BY <1>1, <1>2 DEF TracesTypeOK, HeldIn
<1>4. ASSUME NEW u \in Traces \ {t}
      PROVE  TraceHolds(u)'
  <2>1. TraceHolds(u)
    BY EachTraceHolds DEF TracesIInv
  <2>2. /\ db'.traces[u] = db.traces[u] /\ SpansOf(db', u) = SpansOf(db, u)
        /\ \A s \in SpansOf(db, u) : db'.spans[s] = db.spans[s]
    BY <1>2 DEF Grows
  <2>3. OpenSpans(db', u) = OpenSpans(db, u) /\ (TraceEnded(db', u) <=> TraceEnded(db, u))
    BY <2>2 DEF OpenSpans, SpanEnded, TraceEnded
  <2>4. QED
    BY <2>1, <2>2, <2>3 DEF TraceHolds, Observed
<1>5. (\A u \in Traces : TraceHolds(u)')
  BY <1>4
<1>6. (ObserversHold /\ NothingLost /\ NothingLeftOpen /\ SaysWhatHappened)'
  BY <1>5 DEF TraceHolds, ObserversHold, NothingLost, NothingLeftOpen, SaysWhatHappened
<1>7. QED
  BY <1>2, <1>3, <1>6 DEF TracesIInv

------------------------------------------------------------------------------
\* The invariant, as a step of one trace needs it.
LEMMA OfOneTrace ==
    ASSUME TracesIInv, NEW t \in Traces
    PROVE  /\ db \in Rows /\ RowsAreSound(db) /\ failures \in Nat /\ TraceHolds(t)
           /\ observer \in [Traces -> HeldIn(db)] /\ operation \in [Traces -> {"none", "running", "left"} \cup Outcomes]
           /\ IF db.traces[t].root = 0 THEN SpansOf(db, t) = {}
              ELSE db.traces[t].root \in SpansOf(db, t) /\ db.spans[db.traces[t].root].parent = 0
           /\ db.traces[t].status = "none" => db.traces[t].root = 0
           /\ db.traces[t].status \in SpanStatuses \cup {"none"}
<1>1. db \in Rows /\ RowsAreSound(db) /\ failures \in Nat
  BY DEF TracesIInv, TracesTypeOK
<1>2. TraceHolds(t)
  BY EachTraceHolds DEF TracesIInv
<1>3. observer \in [Traces -> HeldIn(db)] /\ operation \in [Traces -> {"none", "running", "left"} \cup Outcomes]
  BY DEF TracesIInv, TracesTypeOK, HeldIn
<1>4. /\ IF db.traces[t].root = 0 THEN SpansOf(db, t) = {}
         ELSE db.traces[t].root \in SpansOf(db, t) /\ db.spans[db.traces[t].root].parent = 0
      /\ db.traces[t].status = "none" => db.traces[t].root = 0
  BY <1>1 DEF RowsAreSound, RootsAreSpans
<1>5. QED
  BY <1>1, <1>2, <1>3, <1>4, RowTypes

\* finishTrace and what is like it: either both calls worked, or a failure is counted.
LEMMA ClosesSound ==
    ASSUME NEW d, RowsAreSound(d), NEW t \in Traces, NEW status \in Endings, NEW n \in Nat,
           failures \in Nat, ClosesTrace(d, n, t, status)
    PROVE  \E new : /\ RowsAreSound(new) /\ Grows(d, new, t) /\ CallsWrite(new)
                    /\ failures' \in Nat /\ (failures' = 0 => failures = 0 /\ n = 0)
                    /\ failures' = 0 => new = EndTrace(RootEnds(d, t, status), t, status)
<1>1. /\ RowsAreSound(RootEnds(d, t, status)) /\ Grows(d, RootEnds(d, t, status), t)
      /\ d \in Rows /\ RootEnds(d, t, status) \in Rows
  BY RootEndsSound DEF SpansEnd, RowsAreSound
<1>2. /\ RowsAreSound(EndTrace(RootEnds(d, t, status), t, status))
      /\ Grows(RootEnds(d, t, status), EndTrace(RootEnds(d, t, status), t, status), t)
      /\ RowsAreSound(EndTrace(d, t, status)) /\ Grows(d, EndTrace(d, t, status), t)
  BY <1>1, EndTraceSound DEF TraceEnds
<1>3. Grows(d, EndTrace(RootEnds(d, t, status), t, status), t) /\ Grows(d, d, t)
  BY <1>1, <1>2, GrowsTwice, GrowsNot DEF RowsAreSound
<1>4. CASE CallsFail(n) /\ CallsWrite(EndTrace(RootEnds(d, t, status), t, status))
  <2>1. failures' \in Nat /\ (failures' = 0 => failures = 0 /\ n = 0)
    BY <1>4 DEF CallsFail
  <2>2. QED
    BY <2>1, <1>2, <1>3, <1>4
<1>5. ASSUME CallsFail(n + 1) \/ CallsFail(n + 2)
      PROVE  failures' \in Nat /\ failures' # 0
  BY <1>5 DEF CallsFail
<1>6. CASE CallsFail(n + 1) /\ CallsWrite(RootEnds(d, t, status))
  BY <1>1, <1>5, <1>6
<1>7. CASE CallsFail(n + 1) /\ CallsWrite(EndTrace(d, t, status))
  BY <1>2, <1>5, <1>7
<1>8. CASE CallsFail(n + 2) /\ CallsWrite(d)
  BY <1>3, <1>5, <1>8
<1>9. QED
  BY <1>4, <1>6, <1>7, <1>8 DEF ClosesTrace

\* beginTrace
LEMMA BeginTraceHolds ==
    ASSUME TracesIInv, NEW t \in Traces, BeginTrace(t)
    PROVE  TracesIInv'
<1> DEFINE created == CreateTrace(db, t)
           rooted == StartSpan(created, t, 0)
           failed == EndTrace(created, t, "ERROR")
<1>1. /\ db \in Rows /\ RowsAreSound(db) /\ failures \in Nat
      /\ observer \in [Traces -> HeldIn(db)] /\ operation \in [Traces -> {"none", "running", "left"} \cup Outcomes]
      /\ db.traces[t].status = "none" /\ DOMAIN observer[t] = {}
  BY OfOneTrace DEF BeginTrace, TraceHolds, Observed
<1>2. /\ operation' \in [Traces -> {"none", "running", "left"} \cup Outcomes]
      /\ operation'[t] = "running" /\ \A u \in Traces \ {t} : operation'[u] = operation[u]
  BY <1>1 DEF BeginTrace
<1>3. RowsAreSound(created) /\ Grows(db, created, t) /\ created.traces[t].status = "RUNNING" /\ created.traces[t].root = 0
  BY <1>1, CreateSound
<1> HIDE DEF created
<1>4. /\ RowsAreSound(rooted) /\ Grows(created, rooted, t)
      /\ Len(rooted.spans) \in SpansOf(rooted, t) /\ rooted.traces[t].status = "RUNNING"
      /\ rooted.traces[t].root = Len(rooted.spans)
  BY <1>3, StartSound
<1>5. RowsAreSound(failed) /\ Grows(created, failed, t)
  BY <1>3, EndTraceSound DEF TraceEnds, Endings
<1> HIDE DEF rooted, failed
<1>6. Grows(db, rooted, t) /\ Grows(db, failed, t)
  BY <1>1, <1>3, <1>4, <1>5, GrowsTwice DEF RowsAreSound
<1>7. CASE CallsWork /\ CallsWrite(rooted) /\ observer' = [observer EXCEPT ![t] = [k \in {"root"} |-> Len(rooted.spans)]]
  <2>1. /\ observer'[t] = [k \in {"root"} |-> Len(rooted.spans)]
        /\ \A u \in Traces \ {t} : observer'[u] = observer[u]
    BY <1>1, <1>7
  <2>2. Len(rooted.spans) \in DOMAIN rooted.spans /\ Len(rooted.spans) # 0
    BY <1>4, RowTypes DEF SpansOf, RowsAreSound
  <2>3. [k \in {"root"} |-> Len(rooted.spans)] \in HeldIn(rooted)
    BY <2>2, Holds DEF AllKeys
  <2>4. observer' \in [Traces -> HeldIn(rooted)]
    <3>1. \A u \in Traces : observer[u] \in HeldIn(rooted)
      BY <1>1, <1>4, <1>6, HoldsMore DEF RowsAreSound
    <3>2. QED
      BY <3>1, <2>3, <1>1, <1>7
  <2>5. failures' = failures /\ db' = rooted
    BY <1>7 DEF CallsWork, CallsWrite
  <2>6. TraceHolds(t)'
    BY <2>1, <2>2, <2>5, <1>2, <1>4 DEF TraceHolds, Observed, Outcomes
  <2>7. QED
    BY <2>1, <2>4, <2>5, <2>6, <1>1, <1>2, <1>4, <1>6, <1>7, StepHolds
<1>8. ASSUME NEW new, RowsAreSound(new), Grows(db, new, t), CallsWrite(new), observer' = observer,
             CallsFail(1) \/ CallsFail(2)
      PROVE  TracesIInv'
  <2>1. failures' \in Nat /\ failures' # 0
    BY <1>1, <1>8 DEF CallsFail
  <2>2. TraceHolds(t)'
    BY <2>1, <1>1, <1>2, <1>8 DEF TraceHolds
  <2>3. \A u \in Traces : observer[u] \in HeldIn(new)
    BY <1>1, <1>8, HoldsMore DEF RowsAreSound
  <2>4. observer' \in [Traces -> HeldIn(new)]
    BY <2>3, <1>1, <1>8
  <2>5. QED
    BY <2>1, <2>2, <2>4, <1>2, <1>8, StepHolds
<1>9. CASE CallsFail(1) /\ UNCHANGED <<db, stream, observer>>
  BY <1>8, <1>9, NothingWritten
<1>10. CASE CallsFail(1) /\ CallsWrite(failed) /\ UNCHANGED observer
  BY <1>5, <1>6, <1>8, <1>10
<1>11. CASE CallsFail(2) /\ CallsWrite(created) /\ UNCHANGED observer
  BY <1>3, <1>8, <1>11
<1>12. QED
  BY <1>7, <1>9, <1>10, <1>11 DEF BeginTrace, created, rooted, failed

\* startSpan
LEMMA StartsSpanHolds ==
    ASSUME TracesIInv, TracesAssumption, NEW t \in Traces, NEW k \in Keys, StartsSpan(t, k)
    PROVE  TracesIInv'
<1> DEFINE parent == ParentOf(t, k)
           new == StartSpan(db, t, parent)
           o == [j \in DOMAIN observer[t] \cup {k} |-> IF j = k THEN Len(db.spans) + 1 ELSE observer[t][j]]
<1>1. /\ db \in Rows /\ RowsAreSound(db) /\ failures \in Nat /\ TraceHolds(t)
      /\ observer \in [Traces -> HeldIn(db)] /\ operation \in [Traces -> {"none", "running", "left"} \cup Outcomes]
      /\ operation' = operation /\ Observed(t) /\ k # "root"
  BY OfOneTrace DEF StartsSpan, TracesAssumption
<1>2. /\ db.traces[t].root # 0 /\ db.traces[t].root \in SpansOf(db, t)
      /\ observer[t]["root"] = db.traces[t].root
      /\ \A j \in DOMAIN observer[t] : observer[t][j] \in SpansOf(db, t)
      /\ db.traces[t].status \in SpanStatuses
  BY <1>1, OfOneTrace DEF TraceHolds, Observed
<1>3. parent \in SpansOf(db, t) /\ parent # 0
  <2>1. parent \in SpansOf(db, t)
    BY <1>2 DEF ParentOf
  <2>2. QED
    BY <2>1, <1>1, RowTypes DEF SpansOf
<1>4. CASE /\ CallsWork /\ MayStart(db, t, parent) /\ CallsWrite(new)
           /\ observer' = [observer EXCEPT ![t] = [j \in DOMAIN @ \cup {k} |-> IF j = k THEN Len(db.spans) + 1 ELSE @[j]]]
  <2>1. db.traces[t].status = "RUNNING"
    BY <1>2, <1>4 DEF MayStart, TraceEnded, SpanStatuses
  <2> HIDE DEF parent
  <2>2. /\ RowsAreSound(new) /\ Grows(db, new, t) /\ Len(db.spans) + 1 \in SpansOf(new, t)
        /\ new.traces[t].status = "RUNNING" /\ new.traces[t].root = db.traces[t].root
    BY <2>1, <1>1, <1>3, StartSound
  <2> HIDE DEF new
  <2>3. observer'[t] = o /\ \A u \in Traces \ {t} : observer'[u] = observer[u]
    BY <1>1, <1>4
  <2>4. /\ DOMAIN o = DOMAIN observer[t] \cup {k} /\ \A j \in DOMAIN o : o[j] \in SpansOf(new, t)
        /\ "root" \in DOMAIN o /\ o["root"] = db.traces[t].root
    BY <2>2, <1>1, <1>2 DEF Grows, Observed
  <2>5. o \in HeldIn(new)
    <3>1. DOMAIN o \in SUBSET AllKeys
      BY <2>4, <1>1, HeldKeys DEF AllKeys
    <3>2. o \in [DOMAIN o -> DOMAIN new.spans]
      BY <2>4 DEF SpansOf
    <3> HIDE DEF o
    <3>3. QED
      BY <3>1, <3>2, Holds
  <2> HIDE DEF o
  <2>6. observer' \in [Traces -> HeldIn(new)]
    <3>1. \A u \in Traces : observer[u] \in HeldIn(new)
      BY <2>2, <1>1, HoldsMore DEF RowsAreSound
    <3>2. QED
      BY <3>1, <2>3, <2>5, <1>1, <1>4
  <2>7. failures' = failures /\ db' = new
    BY <1>4 DEF CallsWork, CallsWrite
  <2>8. TraceHolds(t)'
    BY <2>2, <2>3, <2>4, <2>7, <1>1, <1>2 DEF TraceHolds, Observed, Outcomes
  <2>9. QED
    BY <2>2, <2>3, <2>6, <2>7, <2>8, <1>1, <1>4, StepHolds
<1>5. CASE CallsFail(1) /\ UNCHANGED <<db, stream, observer>>
  <2>1. failures' \in Nat /\ failures' # 0
    BY <1>1, <1>5 DEF CallsFail
  <2>2. TraceHolds(t)'
    BY <2>1, <1>1, <1>5 DEF TraceHolds, Observed
  <2>3. QED
    BY <2>1, <2>2, <1>1, <1>5, NothingWritten, StepHolds
<1>6. QED
  BY <1>4, <1>5 DEF StartsSpan

\* traceEvent
LEMMA RecordsEventHolds ==
    ASSUME TracesIInv, NEW t \in Traces, NEW k \in Keys, RecordsEvent(t, k)
    PROVE  TracesIInv'
<1> DEFINE s == observer[t][k]
           new == Logged(db, "span.event", t, s, TRUE)
<1>1. /\ db \in Rows /\ RowsAreSound(db) /\ failures \in Nat /\ TraceHolds(t)
      /\ observer \in [Traces -> HeldIn(db)] /\ operation \in [Traces -> {"none", "running", "left"} \cup Outcomes]
      /\ Observed(t) /\ s \in SpansOf(db, t)
      /\ UNCHANGED <<observer, operation, failures>> /\ CallsWrite(new)
  BY OfOneTrace DEF RecordsEvent, TraceHolds
<1>2. s \in OpenSpans(db, t) /\ ~TraceEnded(db, t)
  BY <1>1 DEF RecordsEvent, TakesEvent, OpenSpans, SpansOf
<1>3. RowsAreSound(new) /\ Grows(db, new, t) /\ new.traces = db.traces /\ new.spans = db.spans
  BY <1>1, <1>2, EventSound
<1> HIDE DEF new
<1>4. db' = new
  BY <1>1 DEF CallsWrite
<1>5. SpansOf(new, t) = SpansOf(db, t) /\ OpenSpans(new, t) = OpenSpans(db, t)
  BY <1>3 DEF SpansOf, OpenSpans, SpanEnded
<1>6. TraceHolds(t)'
  BY <1>1, <1>3, <1>4, <1>5 DEF TraceHolds, Observed, TraceEnded
<1>7. observer' \in [Traces -> HeldIn(new)]
  BY <1>1, <1>3 DEF HeldIn
<1>8. QED
  BY <1>1, <1>3, <1>6, <1>7, StepHolds

\* endSpan
LEMMA EndsSpanHolds ==
    ASSUME TracesIInv, NEW t \in Traces, NEW k \in Keys, NEW status \in Outcomes, EndsSpan(t, k, status)
    PROVE  TracesIInv'
<1> DEFINE s == observer[t][k]
           o == [j \in DOMAIN observer[t] \ {k} |-> observer[t][j]]
<1>1. /\ db \in Rows /\ RowsAreSound(db) /\ failures \in Nat /\ TraceHolds(t)
      /\ observer \in [Traces -> HeldIn(db)] /\ operation \in [Traces -> {"none", "running", "left"} \cup Outcomes]
      /\ Observed(t) /\ s \in SpansOf(db, t) /\ k # "root"
      /\ operation' = operation
  BY OfOneTrace DEF EndsSpan, TraceHolds
<1>2. /\ observer'[t] = o /\ \A u \in Traces \ {t} : observer'[u] = observer[u]
      /\ DOMAIN o = DOMAIN observer[t] \ {k} /\ \A j \in DOMAIN o : o[j] = observer[t][j]
      /\ "root" \in DOMAIN o
  BY <1>1 DEF EndsSpan, Observed
<1>3. ASSUME NEW new, RowsAreSound(new), Grows(db, new, t), CallsWrite(new), new.traces = db.traces,
             failures' \in Nat, failures' = 0 => failures = 0
      PROVE  TracesIInv'
  <2>1. observer' \in [Traces -> HeldIn(new)]
    <3>1. o \in HeldIn(db)
      <4>1. DOMAIN o \in SUBSET AllKeys /\ \A j \in DOMAIN o : o[j] \in DOMAIN db.spans
        BY <1>1, <1>2, HeldKeys
      <4>2. o \in [DOMAIN o -> DOMAIN db.spans]
        BY <4>1
      <4> HIDE DEF o
      <4>3. QED
        BY <4>1, <4>2, Holds
    <3> HIDE DEF o
    <3>2. \A u \in Traces : observer'[u] \in HeldIn(db)
      BY <3>1, <1>1, <1>2
    <3>3. \A u \in Traces : observer'[u] \in HeldIn(new)
      BY <3>2, <1>1, <1>3, HoldsMore DEF RowsAreSound
    <3>4. observer' = [u \in Traces |-> observer'[u]]
      BY <1>1 DEF EndsSpan
    <3>5. QED
      BY <3>3, <3>4
  <2> HIDE DEF o
  <2>2. db' = new
    BY <1>3 DEF CallsWrite
  <2>3. TraceHolds(t)'
    BY <1>1, <1>2, <1>3, <2>2 DEF TraceHolds, Observed, Outcomes, Grows
  <2>4. QED
    BY <1>1, <1>2, <1>3, <2>1, <2>3, StepHolds
<1>4. CASE CallsWork /\ CallsWrite(EndSpan(db, s, status))
  <2>1. SpansEnd(db, EndSpan(db, s, status), t, {s})
    <3>1. status \in Endings
      BY DEF Outcomes, Endings
    <3>2. QED
      BY <3>1, <1>1, EndSpanSound
  <2>2. QED
    BY <2>1, <1>1, <1>3, <1>4 DEF SpansEnd, CallsWork
<1>5. CASE CallsFail(1) /\ UNCHANGED <<db, stream>>
  <2>1. failures' \in Nat /\ failures' # 0
    BY <1>1, <1>5 DEF CallsFail
  <2>2. QED
    BY <2>1, <1>3, <1>5, NothingWritten
<1>6. QED
  BY <1>4, <1>5 DEF EndsSpan

\* What a close of which no call failed leaves.
LEMMA WellClosed ==
    ASSUME NEW d, RowsAreSound(d), NEW t \in Traces, NEW status \in Endings,
           NEW new, new = EndTrace(RootEnds(d, t, status), t, status)
    PROVE  /\ TraceEnded(new, t) /\ OpenSpans(new, t) = {}
           /\ d.traces[t].status = "CANCELLED" => new.traces[t].status = "CANCELLED"
           /\ ~TraceEnded(d, t) /\ status = "CANCELLED" => new.traces[t].status = "CANCELLED"
           /\ ~TraceEnded(d, t) /\ status = "OK" =>
                 (new.traces[t].status = "OK" <=> ~\E s \in SpansOf(new, t) : new.spans[s].parent # 0 /\ new.spans[s].auto)
<1> DEFINE c == RootEnds(d, t, status)
<1>1. /\ RowsAreSound(c) /\ c.traces = d.traces /\ SpansOf(c, t) = SpansOf(d, t)
      /\ OpenSpans(c, t) = OpenSpans(d, t) \ {d.traces[t].root}
  BY RootEndsSound DEF SpansEnd
<1> HIDE DEF c
<1>2. /\ TraceEnded(new, t) /\ OpenSpans(new, t) = {} /\ SpansOf(new, t) = SpansOf(c, t)
      /\ TraceEnded(c, t) => new = c
      /\ ~TraceEnded(c, t) =>
            /\ new.traces[t].status = TerminalStatus(c, t, status)
            /\ \A s \in SpansOf(c, t) :
                  new.spans[s].parent = c.spans[s].parent /\ (new.spans[s].auto <=> s \in OpenSpans(c, t))
  <2>1. TraceEnds(c, new, t, status)
    BY <1>1, EndTraceSound DEF c
  <2>2. QED
    BY <2>1 DEF TraceEnds
<1>3. TraceEnded(c, t) <=> TraceEnded(d, t)
  BY <1>1 DEF TraceEnded
<1>4. d.traces[t].status = "CANCELLED" => new.traces[t].status = "CANCELLED"
  BY <1>1, <1>2, <1>3 DEF TraceEnded
<1>5. ~TraceEnded(d, t) /\ status = "CANCELLED" => new.traces[t].status = "CANCELLED"
  BY <1>2, <1>3 DEF TerminalStatus
<1>6. ASSUME ~TraceEnded(d, t), status = "OK"
      PROVE  new.traces[t].status = "OK" <=> ~\E s \in SpansOf(new, t) : new.spans[s].parent # 0 /\ new.spans[s].auto
  <2>1. new.traces[t].status = "OK" <=> OpenSpans(c, t) = {}
    BY <1>2, <1>3, <1>6 DEF TerminalStatus
  <2>2. ASSUME NEW s \in OpenSpans(c, t)
        PROVE  s \in SpansOf(c, t) /\ c.spans[s].parent # 0
    <3>1. s \in SpansOf(c, t) /\ s # c.traces[t].root /\ s \in DOMAIN c.spans /\ c.spans[s].trace = t
      BY <1>1 DEF OpenSpans, SpansOf
    <3>2. QED
      BY <3>1, <1>1 DEF RowsAreSound, Owned
  <2>3. (OpenSpans(c, t) # {}) <=> \E s \in SpansOf(new, t) : new.spans[s].parent # 0 /\ new.spans[s].auto
    BY <2>2, <1>2, <1>3, <1>6
  <2>4. QED
    BY <2>1, <2>3
<1>7. QED
  BY <1>2, <1>4, <1>5, <1>6

\* finishTrace
LEMMA FinishesTraceHolds ==
    ASSUME TracesIInv, NEW t \in Traces, NEW status \in Outcomes, FinishesTrace(t, status)
    PROVE  TracesIInv'
<1>1. /\ db \in Rows /\ RowsAreSound(db) /\ failures \in Nat /\ TraceHolds(t)
      /\ observer \in [Traces -> HeldIn(db)] /\ operation \in [Traces -> {"none", "running", "left"} \cup Outcomes]
      /\ operation[t] = "running" /\ status \in Endings /\ status # "CANCELLED"
  BY OfOneTrace DEF FinishesTrace, Outcomes, Endings
<1>2. /\ observer'[t] = NoKeys /\ \A u \in Traces \ {t} : observer'[u] = observer[u] /\ operation'[u] = operation[u]
      /\ operation'[t] = status /\ operation' \in [Traces -> {"none", "running", "left"} \cup Outcomes]
      /\ observer' = [u \in Traces |-> observer'[u]]
  BY <1>1 DEF FinishesTrace
<1>3. DOMAIN NoKeys = {} /\ \A d : NoKeys \in HeldIn(d)
  BY HoldsNothing
<1>4. ASSUME NEW new, RowsAreSound(new), Grows(db, new, t), CallsWrite(new),
             failures' \in Nat, failures' = 0 => failures = 0,
             failures' = 0 => new = EndTrace(RootEnds(db, t, status), t, status)
      PROVE  TracesIInv'
  <2>1. observer' \in [Traces -> HeldIn(new)]
    <3>1. \A u \in Traces : observer[u] \in HeldIn(new)
      BY <1>1, <1>4, HoldsMore DEF RowsAreSound
    <3>2. \A u \in Traces : observer'[u] \in HeldIn(new)
      BY <3>1, <1>2, <1>3
    <3>3. QED
      BY <3>2, <1>2
  <2>2. db' = new
    BY <1>4 DEF CallsWrite
  <2>3. ASSUME failures' = 0
        PROVE  /\ TraceEnded(new, t) /\ OpenSpans(new, t) = {}
               /\ status = "OK" /\ new.traces[t].status # "CANCELLED" =>
                     (new.traces[t].status = "OK" <=> ~\E s \in SpansOf(new, t) : new.spans[s].parent # 0 /\ new.spans[s].auto)
    <3>1. db.traces[t].status \in {"RUNNING", "CANCELLED"}
      BY <1>1, <1>4, <2>3 DEF TraceHolds
    <3>2. /\ TraceEnded(new, t) /\ OpenSpans(new, t) = {}
          /\ db.traces[t].status = "CANCELLED" => new.traces[t].status = "CANCELLED"
          /\ ~TraceEnded(db, t) /\ status = "OK" =>
                 (new.traces[t].status = "OK" <=> ~\E s \in SpansOf(new, t) : new.spans[s].parent # 0 /\ new.spans[s].auto)
      BY <1>1, <1>4, <2>3, WellClosed
    <3>3. QED
      BY <3>1, <3>2 DEF TraceEnded
  <2>4. TraceHolds(t)'
    BY <1>2, <1>3, <2>2, <2>3 DEF TraceHolds, Outcomes
  <2>5. QED
    BY <1>2, <1>4, <2>1, <2>4, StepHolds
<1>5. CASE Observed(t)
  <2>1. ClosesTrace(db, 0, t, status)
    BY <1>5 DEF FinishesTrace
  <2>2. QED
    BY <2>1, <1>1, <1>4, ClosesSound
<1>6. CASE ~Observed(t)
  <2>1. failures' = failures /\ failures # 0 /\ UNCHANGED <<db, stream>>
    BY <1>1, <1>6 DEF FinishesTrace, TraceHolds, CallsWork
  <2>2. QED
    BY <2>1, <1>1, <1>4, NothingWritten
<1>7. QED
  BY <1>5, <1>6

\* cancelTrace
LEMMA CancelsTraceHolds ==
    ASSUME TracesIInv, NEW t \in Traces, CancelsTrace(t)
    PROVE  TracesIInv'
<1>1. /\ db \in Rows /\ RowsAreSound(db) /\ failures \in Nat /\ TraceHolds(t)
      /\ observer \in [Traces -> HeldIn(db)] /\ operation \in [Traces -> {"none", "running", "left"} \cup Outcomes]
      /\ operation[t] = "running" /\ db.traces[t].status = "RUNNING" /\ UNCHANGED <<observer, operation>>
  BY OfOneTrace DEF CancelsTrace
<1>2. PICK lost \in SUBSET OpenSpans(db, t) :
         ClosesTrace(EndSpans(db, t, OpenSpans(db, t) \ lost, "CANCELLED", FALSE, TRUE), Cardinality(lost), t, "CANCELLED")
  BY DEF CancelsTrace
<1> DEFINE spans == OpenSpans(db, t) \ lost
           d == EndSpans(db, t, spans, "CANCELLED", FALSE, TRUE)
<1>3. SpansEnd(db, d, t, spans)
  <2>1. spans \in SUBSET OpenSpans(db, t) /\ "CANCELLED" \in Endings
    BY DEF Endings
  <2> HIDE DEF spans
  <2>2. QED
    BY <2>1, <1>1, EndSpansSound, Zenon
<1>4. Cardinality(lost) \in Nat
  <2>1. lost \in SUBSET DOMAIN db.spans
    BY DEF OpenSpans, SpansOf
  <2>2. QED
    BY <2>1, <1>1, SpansAreFinite, Enumerated
<1>5. ClosesTrace(d, Cardinality(lost), t, "CANCELLED")
  BY <1>2
<1> HIDE DEF d
<1>6. RowsAreSound(d) /\ Grows(db, d, t) /\ d.traces = db.traces
  BY <1>3 DEF SpansEnd
<1>7. PICK new : /\ RowsAreSound(new) /\ Grows(d, new, t) /\ CallsWrite(new)
                 /\ failures' \in Nat /\ (failures' = 0 => failures = 0)
                 /\ failures' = 0 => new = EndTrace(RootEnds(d, t, "CANCELLED"), t, "CANCELLED")
  BY <1>1, <1>4, <1>5, <1>6, ClosesSound DEF Endings
<1>8. Grows(db, new, t) /\ db' = new
  BY <1>1, <1>6, <1>7, GrowsTwice DEF RowsAreSound, CallsWrite
<1>9. failures' = 0 => new.traces[t].status = "CANCELLED"
  <2>1. ~TraceEnded(d, t) /\ "CANCELLED" \in Endings
    BY <1>1, <1>6 DEF TraceEnded, Endings
  <2>2. QED
    BY <2>1, <1>6, <1>7, WellClosed
<1>10. TraceHolds(t)'
  BY <1>1, <1>7, <1>8, <1>9 DEF TraceHolds, Observed, Outcomes, Grows
<1>11. observer' \in [Traces -> HeldIn(new)]
  <2>1. \A u \in Traces : observer[u] \in HeldIn(new)
    BY <1>1, <1>7, <1>8, HoldsMore DEF RowsAreSound
  <2>2. QED
    BY <2>1, <1>1
<1>12. QED
  BY <1>1, <1>7, <1>8, <1>10, <1>11, StepHolds

\* closeAbandonedTraces
LEMMA ClosesLeftHolds ==
    ASSUME TracesIInv, NEW t \in Traces, ClosesLeft(t)
    PROVE  TracesIInv'
<1>1. /\ db \in Rows /\ RowsAreSound(db) /\ failures \in Nat /\ TraceHolds(t)
      /\ observer \in [Traces -> HeldIn(db)] /\ operation \in [Traces -> {"none", "running", "left"} \cup Outcomes]
      /\ operation[t] = "left" /\ observer' = observer /\ failures # 0 /\ DOMAIN observer[t] = {}
  BY OfOneTrace DEF ClosesLeft, TraceHolds, Observed
<1>2. PICK status \in Outcomes \cup {"CANCELLED"} :
         ClosesTrace(db, 0, t, status) /\ operation' = [operation EXCEPT ![t] = IF status = "OK" THEN "OK" ELSE "ERROR"]
  BY DEF ClosesLeft, Outcomes
<1>3. status \in Endings
  BY DEF Outcomes, Endings
<1>4. PICK new : RowsAreSound(new) /\ Grows(db, new, t) /\ CallsWrite(new) /\ failures' \in Nat /\ failures' # 0
  BY <1>1, <1>2, <1>3, ClosesSound
<1>5. /\ operation' \in [Traces -> {"none", "running", "left"} \cup Outcomes]
      /\ operation'[t] \in Outcomes /\ \A u \in Traces \ {t} : operation'[u] = operation[u]
  BY <1>1, <1>2 DEF Outcomes
<1>6. observer' \in [Traces -> HeldIn(new)]
  <2>1. \A u \in Traces : observer[u] \in HeldIn(new)
    BY <1>1, <1>4, HoldsMore DEF RowsAreSound
  <2>2. QED
    BY <2>1, <1>1
<1>7. TraceHolds(t)'
  BY <1>1, <1>4, <1>5 DEF TraceHolds, Outcomes
<1>8. QED
  BY <1>1, <1>4, <1>5, <1>6, <1>7, StepHolds

\* The end of the process
LEMMA RestartHolds ==
    ASSUME TracesIInv, Restart
    PROVE  TracesIInv'
<1>1. PICK recovered \in SUBSET {t \in Executions : operation[t] = "running"} :
         /\ observer' = [t \in Traces |-> IF t \in recovered /\ Observed(t) /\ ~TraceEnded(db, t)
                                           THEN [k \in {"root"} |-> db.traces[t].root] ELSE NoKeys]
         /\ operation' = [t \in Traces |->
               IF t \in recovered THEN "running"
               ELSE IF db.traces[t].status = "RUNNING" THEN "left"
               ELSE IF operation[t] = "running" THEN "ERROR" ELSE operation[t]]
  BY DEF Restart
<1>2. /\ failures \in Nat /\ failures' \in Nat /\ failures' # 0 /\ db' = db
      /\ stream \in [open : BOOLEAN, cursor : 0 .. Len(db.log), sent : SUBSET (1 .. Len(db.log))]
      /\ stream' = [stream EXCEPT !.open = FALSE]
  BY DEF TracesIInv, TracesTypeOK, Restart, CallsFail
<1>3. /\ stream' \in [open : BOOLEAN, cursor : 0 .. Len(db.log), sent : SUBSET (1 .. Len(db.log))]
      /\ ~stream'.open /\ stream'.cursor = stream.cursor /\ stream'.sent = stream.sent
  BY <1>2
<1>4. StreamFollows' /\ StreamIsCurrent'
  BY <1>2, <1>3 DEF TracesIInv, StreamFollows, StreamIsCurrent
<1>5. NoKeys \in HeldIn(db) /\ DOMAIN NoKeys = {}
  BY HoldsNothing
<1>6. ASSUME NEW t \in Traces
      PROVE  /\ observer'[t] \in HeldIn(db) /\ operation'[t] \in {"none", "running", "left"} \cup Outcomes
             /\ TraceHolds(t)'
  <2>1. /\ TraceHolds(t) /\ operation \in [Traces -> {"none", "running", "left"} \cup Outcomes]
        /\ IF db.traces[t].root = 0 THEN SpansOf(db, t) = {} ELSE db.traces[t].root \in SpansOf(db, t)
    BY OfOneTrace
  <2>2. operation'[t] \in {"none", "running", "left"} \cup Outcomes /\ (operation'[t] = "none" => operation[t] = "none")
    BY <2>1, <1>1 DEF Outcomes
  <2>3. CASE t \in recovered /\ Observed(t) /\ ~TraceEnded(db, t)
    <3> DEFINE root == db.traces[t].root
    <3>1. root # 0 /\ root \in SpansOf(db, t) /\ root \in DOMAIN db.spans
      BY <2>1, <2>3 DEF TraceHolds, Observed, SpansOf
    <3>2. observer'[t] = [k \in {"root"} |-> root] /\ operation'[t] = "running"
      BY <2>3, <1>1
    <3> HIDE DEF root
    <3>3. observer'[t] \in HeldIn(db)
      BY <3>1, <3>2, Holds DEF AllKeys
    <3>4. QED
      BY <3>1, <3>2, <3>3, <2>2, <1>2 DEF TraceHolds, Observed, root
  <2>4. CASE ~(t \in recovered /\ Observed(t) /\ ~TraceEnded(db, t))
    <3>1. observer'[t] = NoKeys
      BY <2>4, <1>1
    <3>2. QED
      BY <3>1, <2>1, <2>2, <1>2, <1>5 DEF TraceHolds
  <2>5. QED
    BY <2>3, <2>4
<1>7. (ObserversHold /\ NothingLost /\ NothingLeftOpen /\ SaysWhatHappened)'
  BY <1>6 DEF TraceHolds, ObserversHold, NothingLost, NothingLeftOpen, SaysWhatHappened
<1>8. observer' \in [Traces -> HeldIn(db)] /\ operation' \in [Traces -> {"none", "running", "left"} \cup Outcomes]
  BY <1>1, <1>6
<1>9. TracesTypeOK' /\ RowsAreSound(db)'
  BY <1>2, <1>3, <1>8 DEF TracesIInv, TracesTypeOK, HeldIn
<1>10. QED
  BY <1>4, <1>7, <1>9 DEF TracesIInv

\* A workbench connects, and loses its connection.
LEMMA StreamHolds ==
    ASSUME TracesIInv, ConnectsStream \/ LosesStream
    PROVE  TracesIInv'
<1>1. db \in Rows /\ Len(db.log) \in Nat
  BY RowTypes DEF TracesIInv, TracesTypeOK
<1>2. /\ stream = [open |-> stream.open, cursor |-> stream.cursor, sent |-> stream.sent]
      /\ stream.cursor \in 0 .. Len(db.log) /\ stream.sent \subseteq 1 .. stream.cursor
      /\ \A n \in 1 .. stream.cursor : db.log[n].returned => n \in stream.sent
  BY DEF TracesIInv, TracesTypeOK, StreamFollows, StreamIsCurrent
<1>3. UNCHANGED <<db, observer, operation>> /\ failures' \in Nat /\ (failures' = 0 => failures = 0)
  BY DEF TracesIInv, TracesTypeOK, ConnectsStream, LosesStream, CallsFail
<1>4. /\ stream' \in [open : BOOLEAN, cursor : 0 .. Len(db.log), sent : SUBSET (1 .. Len(db.log))]
      /\ StreamFollows' /\ StreamIsCurrent'
  <2>1. CASE ConnectsStream
    <3> DEFINE size == Len(db.log)
    <3>1. stream' = [open |-> TRUE, cursor |-> size, sent |-> stream.sent \cup stream.cursor + 1 .. size]
      BY <2>1 DEF ConnectsStream
    <3>2. size \in Nat /\ stream.cursor \in 0 .. size /\ db' = db
      BY <1>1, <1>2, <1>3
    <3>3. \A n \in 1 .. size : db.log[n].returned => n \in stream.sent \cup stream.cursor + 1 .. size
      BY <1>2, <3>2
    <3>4. \A n \in size + 1 .. size : FALSE
      BY <3>2
    <3>5. stream.sent \cup stream.cursor + 1 .. size \subseteq 1 .. size
      BY <1>2, <3>2
    <3> HIDE DEF size
    <3>6. stream' \in [open : BOOLEAN, cursor : 0 .. size, sent : SUBSET (1 .. size)]
      BY <3>1, <3>2, <3>5
    <3>7. QED
      BY <3>1, <3>2, <3>3, <3>4, <3>5, <3>6 DEF StreamFollows, StreamIsCurrent, size
  <2>2. CASE LosesStream
    <3>1. stream' = [open |-> FALSE, cursor |-> stream.cursor, sent |-> stream.sent]
      BY <2>2, <1>2 DEF LosesStream
    <3>2. stream' \in [open : BOOLEAN, cursor : 0 .. Len(db.log), sent : SUBSET (1 .. Len(db.log))]
      BY <3>1, <1>1, <1>2
    <3>3. QED
      BY <3>1, <3>2, <1>2, <1>3 DEF StreamFollows, StreamIsCurrent
  <2>3. QED
    BY <2>1, <2>2
<1>5. TracesTypeOK'
  BY <1>3, <1>4 DEF TracesIInv, TracesTypeOK
<1>6. (RowsAreSound(db) /\ ObserversHold /\ NothingLost /\ NothingLeftOpen /\ SaysWhatHappened)'
  BY <1>3 DEF TracesIInv, ObserversHold, NothingLost, NothingLeftOpen, SaysWhatHappened, Observed
<1>7. QED
  BY <1>4, <1>5, <1>6 DEF TracesIInv

LEMMA TracesInitIInv ==
    ASSUME TracesInit
    PROVE  TracesIInv
<1>1. /\ db = [traces |-> [t \in Traces |-> [status |-> "none", root |-> 0]], spans |-> <<>>, log |-> <<>>]
      /\ observer = [t \in Traces |-> NoKeys] /\ operation = [t \in Traces |-> "none"]
      /\ stream = [open |-> FALSE, cursor |-> 0, sent |-> {}] /\ failures = 0
  BY DEF TracesInit
<1>2. /\ \A t \in Traces : db.traces[t].status = "none" /\ db.traces[t].root = 0
      /\ db.spans = <<>> /\ db.log = <<>> /\ Len(db.log) = 0 /\ DOMAIN db.spans = {} /\ DOMAIN db.log = {}
  BY <1>1
<1>3. db \in Rows
  BY <1>1 DEF Rows
<1>4. \A t \in Traces : SpansOf(db, t) = {} /\ OpenSpans(db, t) = {} /\ ~TraceEnded(db, t)
  BY <1>2 DEF SpansOf, OpenSpans, TraceEnded
<1>5. RowsAreSound(db)
  BY <1>2, <1>3, <1>4 DEF RowsAreSound, EndedIsClosed, Owned, OneStory, LogIsOfRows, RootsAreSpans, ForgottenIsEnded
<1>6. NoKeys \in HeldIn(db) /\ DOMAIN NoKeys = {}
  BY HoldsNothing
<1>7. /\ observer \in [Traces -> HeldIn(db)] /\ operation \in [Traces -> {"none", "running", "left"} \cup Outcomes]
      /\ stream \in [open : BOOLEAN, cursor : 0 .. Len(db.log), sent : SUBSET (1 .. Len(db.log))]
  BY <1>1, <1>2, <1>6
<1>8. TracesTypeOK
  BY <1>1, <1>3, <1>7 DEF TracesTypeOK, HeldIn
<1>9. ObserversHold /\ NothingLost /\ NothingLeftOpen /\ SaysWhatHappened
  BY <1>1, <1>2, <1>6 DEF ObserversHold, NothingLost, NothingLeftOpen, SaysWhatHappened, Outcomes
<1>10. StreamFollows /\ StreamIsCurrent
  BY <1>1, <1>2 DEF StreamFollows, StreamIsCurrent
<1>11. QED
  BY <1>5, <1>8, <1>9, <1>10 DEF TracesIInv

LEMMA TracesNextIInv ==
    ASSUME TracesIInv, TracesAssumption, [TracesNext]_tracesVars
    PROVE  TracesIInv'
<1>1. CASE Serves
  <2>1. ASSUME NEW t \in Traces,
               \/ BeginTrace(t) \/ CancelsTrace(t)
               \/ \E k \in Keys : StartsSpan(t, k)
               \/ \E k \in Keys : RecordsEvent(t, k)
               \/ \E k \in Keys, o \in Outcomes : EndsSpan(t, k, o)
               \/ \E o \in Outcomes : FinishesTrace(t, o)
        PROVE  TracesIInv'
    BY <2>1, BeginTraceHolds, CancelsTraceHolds, StartsSpanHolds, RecordsEventHolds, EndsSpanHolds, FinishesTraceHolds
  <2>2. QED
    BY <1>1, <2>1, StreamHolds DEF Serves
<1>2. CASE Restart
  BY <1>2, RestartHolds
<1>3. CASE \E t \in Traces : ClosesLeft(t)
  BY <1>3, ClosesLeftHolds
<1>4. CASE UNCHANGED tracesVars
  BY <1>4 DEF tracesVars, TracesIInv, TracesTypeOK, ObserversHold, NothingLost, NothingLeftOpen, SaysWhatHappened,
              StreamFollows, StreamIsCurrent, Observed
<1>5. QED
  BY <1>1, <1>2, <1>3, <1>4 DEF TracesNext

\* Whatever fails, is cancelled or is left, the rows of every trace tell one story:
\* a span is opened below its parent and ends at most once, a trace that has ended
\* has no open span and is no success when one was forgotten, what never failed ends
\* and says what its operation said, and a stream was sent every event it has passed.
THEOREM TracesTell ==
    ASSUME TracesAssumption
    PROVE  TracesSpec => [](/\ EndedIsClosed(db) /\ Owned(db) /\ OneStory(db)
                           /\ NothingLeftOpen /\ SaysWhatHappened /\ StreamFollows)
<1>1. TracesInit => TracesIInv
  BY TracesInitIInv
<1>2. TracesIInv /\ [TracesNext]_tracesVars => TracesIInv'
  BY TracesNextIInv
<1>3. TracesIInv => /\ EndedIsClosed(db) /\ Owned(db) /\ OneStory(db)
                    /\ NothingLeftOpen /\ SaysWhatHappened /\ StreamFollows
  BY DEF TracesIInv, RowsAreSound
<1>4. QED
  BY <1>1, <1>2, <1>3, PTL DEF TracesSpec
==============================================================================
