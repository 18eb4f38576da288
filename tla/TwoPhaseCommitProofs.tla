------------------------ MODULE TwoPhaseCommitProofs ------------------------
(***************************************************************************)
(* Proofs about TwoPhaseCommit: who commits has everybody's vote, and as   *)
(* long as the timeout has not passed all participants decide alike.       *)
(***************************************************************************)
EXTENDS TwoPhaseCommit, TLAPS

(* Where the caller is on its way to commit.                               *)
CommitSteps == {"prepared", "yes", "committing", "telling_commit", "committed"}
AbortSteps == {"refused", "no", "aborting", "telling_abort", "aborted"}
EarlySteps == {"off", "saving", "begun", "preparing", "asking"}

(* Commit is decided, by the coordinator or for some participant.          *)
Committing ==
  \/ pc["caller"] \in CommitSteps
  \/ \E p \in Participants : call["caller"][p] = "commit" \/ outcome[p] = "committed"

(* Abort is decided, likewise, or in the log.                              *)
Aborting ==
  \/ pc["caller"] \in AbortSteps
  \/ \E p \in Participants : call["caller"][p] = "abort" \/ outcome[p] = "aborted"
  \/ stored \in {"ABORTING", "ABORTED"}

(* handleTimeout never commits.                                            *)
TimerAborts ==
  /\ pc["timer"] \in {"off", "expired", "end"} \union AbortSteps
  /\ \A p \in Participants : call["timer"][p] \in {"none", "abort", "done"}

(* A vote to commit is the vote of a participant that has prepared.        *)
VotersPrepared ==
  \A p \in Participants : vote[p] = "COMMIT" => outcome[p] \notin {"working", "refused"}

(* Once commit is decided all votes are in, and nothing takes them back.   *)
VotesAreIn ==
  Committing =>
    /\ pc["caller"] \in CommitSteps \union {"end"}
    /\ \A p \in Participants : vote[p] = "COMMIT" /\ call["caller"][p] \in {"commit", "done"}

CommitInv == TypeOK /\ TimerAborts /\ VotersPrepared /\ VotesAreIn

(* Until the timeout passes the caller is alone and decides once.          *)
CallerIsAlone ==
  /\ pc["timer"] \in {"off", "end"}
  /\ \A p \in Participants : call["timer"][p] = "none"
  /\ recovering = "NONE"

DecidedOnce ==
  /\ pc["caller"] \in EarlySteps => ~Aborting
  /\ stored = "COMMITTED" => pc["caller"] = "end"
  /\ ~(Aborting /\ (Committing \/ stored = "COMMITTED"))

InTimeInv == ~overdue => CallerIsAlone /\ DecidedOnce

IInv == CommitInv /\ InTimeInv

-----------------------------------------------------------------------------
(* The tables of updateState and of the calls.                             *)
LEMMA Tables ==
  /\ DOMAIN Writes = {"preparing", "prepared", "refused", "committing", "committed",
                      "aborting", "aborted", "expired"}
  /\ Calling = {"asking", "telling_commit", "telling_abort"}
  /\ \A l \in DOMAIN Writes : Writes[l] \in States /\ Then[l] \in PC
  /\ \A l \in Calling : Requests[l] \in Call
BY DEF Writes, Then, Requests, Calling, States, PC, Call

LEMMA InitTypes == Init => TypeOK
<1>. SUFFICES ASSUME Init PROVE TypeOK
  OBVIOUS
<1>. USE DEF Init
<1>1. state \in States /\ active \in BOOLEAN
  BY DEF States
<1>2. stored \in States \union {"NONE"}
  OBVIOUS
<1>3. votes \in [Participants -> Votes]
  BY DEF Votes
<1>4. pc \in [Activities -> PC]
  BY DEF PC
<1>5. call \in [Activities -> [Participants -> Call]]
  BY DEF Call
<1>6. vote \in [Participants -> Votes]
  BY DEF Votes
<1>7. read \in [Participants -> [Participants -> Votes]]
  BY <1>3
<1>8. overdue \in BOOLEAN /\ recovering \in States \union {"NONE"} /\ happens \in Worlds
  OBVIOUS
<1>9. outcome \in [Participants -> Outcomes]
  BY DEF Outcomes
<1>. QED
  BY <1>1, <1>2, <1>3, <1>4, <1>5, <1>6, <1>7, <1>8, <1>9 DEF TypeOK

(* SetCall changes one call, and nothing else.                             *)
LEMMA CallTypes ==
  ASSUME call \in [Activities -> [Participants -> Call]],
         NEW t \in Activities, NEW p \in Participants, NEW s \in Call, SetCall(t, p, s)
  PROVE  /\ call' \in [Activities -> [Participants -> Call]]
         /\ \A u \in Activities, q \in Participants :
              call'[u][q] = IF u = t /\ q = p THEN s ELSE call[u][q]
BY DEF SetCall

(* Every action keeps the types.                                           *)
LEMMA StepTypes == TypeOK /\ [Next]_vars => TypeOK'
<1>. SUFFICES ASSUME TypeOK, [Next]_vars PROVE TypeOK'
  OBVIOUS
<1>. USE DEF TypeOK, memory, log, voting, Goto, SetCall, Activities
<1>1. CASE Caller
  <2>1. state' \in States /\ pc' \in [Activities -> PC]
    BY <1>1, Tables DEF Caller, Begin, Save, Prepare, Commit, PC, States
  <2>2. stored' \in States \union {"NONE"} /\ active' \in BOOLEAN
    BY <1>1 DEF Caller, Begin, Save, Prepare, Commit, States
  <2>. QED
    BY <1>1, <2>1, <2>2 DEF Caller, Begin, Save, Prepare, Commit
<1>2. CASE TimePasses
  <2>1. overdue' \in BOOLEAN
    BY <1>2, Zenon DEF TimePasses
  <2>2. UNCHANGED <<happens, state, active, stored, votes, pc, call, vote, read, recovering,
                    outcome>>
    BY <1>2 DEF TimePasses
  <2>. QED
    BY <2>1, <2>2
<1>3. CASE HandleTimeout
  <2>1. state' \in States /\ pc' \in [Activities -> PC]
    BY <1>3, Tables DEF HandleTimeout, PC, States
  <2>. QED
    BY <1>3, <2>1 DEF HandleTimeout
<1>4. CASE Crash
  <2>1. state' \in States /\ pc' \in [Activities -> PC] /\ active' \in BOOLEAN
    BY <1>4 DEF Crash, PC, States
  <2>. QED
    BY <1>4, <2>1 DEF Crash
<1>5. CASE FindTimedOut \/ Recover
  BY <1>5 DEF FindTimedOut, Recover, States
<1>6. ASSUME NEW t \in Activities, UpdateState(t) PROVE TypeOK'
  <2>1. /\ stored' \in States \union {"NONE"} /\ active' \in BOOLEAN
        /\ pc' \in [Activities -> PC]
    BY <1>6, Tables DEF UpdateState
  <2>2. call' \in [Activities -> [Participants -> Call]]
    BY <1>6, Tables DEF UpdateState, CallAll
  <2>. QED
    BY <1>6, <2>1, <2>2 DEF UpdateState
<1>7. ASSUME NEW t \in Activities, LogFails(t) PROVE TypeOK'
  <2>1. pc' \in [Activities -> PC]
    BY <1>7 DEF LogFails, PC
  <2>. QED
    BY <1>7, <2>1 DEF LogFails
<1>8. ASSUME NEW t \in Activities, AllSettled(t) PROVE TypeOK'
  <2>1. pc[t] \in {"asking", "telling_commit", "telling_abort"}
    BY <1>8, Tables DEF AllSettled
  <2>2. \E s \in States, l \in PC : state' = s /\ pc' = [pc EXCEPT ![t] = l]
    BY <1>8, <2>1 DEF AllSettled, PC, Writes, States
  <2>3. state' \in States /\ pc' \in [Activities -> PC]
    BY <2>2
  <2>. QED
    BY <1>8, <2>3 DEF AllSettled
<1>9. ASSUME NEW t \in Activities, Abort(t) PROVE TypeOK'
  <2>1. state' \in States /\ pc' \in [Activities -> PC]
    BY <1>9, Tables DEF Abort, PC, States
  <2>. QED
    BY <1>9, <2>1 DEF Abort
<1>10. ASSUME NEW p \in Participants, AnswerPrepare(p) PROVE TypeOK'
  <2>1. outcome' \in [Participants -> Outcomes]
    BY <1>10 DEF AnswerPrepare, Outcomes
  <2>2. vote' \in [Participants -> Votes]
    BY <1>10 DEF AnswerPrepare, Votes
  <2>3. call' \in [Activities -> [Participants -> Call]]
    BY <1>10, CallTypes DEF AnswerPrepare, Call
  <2>. QED
    BY <1>10, <2>1, <2>2, <2>3 DEF AnswerPrepare
<1>11. ASSUME NEW p \in Participants, ReadVotes(p) PROVE TypeOK'
  <2>1. call' \in [Activities -> [Participants -> Call]]
    BY <1>11 DEF ReadVotes, Call
  <2>2. read' \in [Participants -> [Participants -> Votes]]
    BY <1>11 DEF ReadVotes
  <2>. QED
    BY <1>11, <2>1, <2>2 DEF ReadVotes
<1>12. ASSUME NEW p \in Participants, WriteVotes(p) PROVE TypeOK'
  <2>1. call' \in [Activities -> [Participants -> Call]]
    BY <1>12 DEF WriteVotes, Call
  <2>2. votes' \in [Participants -> Votes]
    BY <1>12 DEF WriteVotes
  <2>. QED
    BY <1>12, <2>1, <2>2 DEF WriteVotes
<1>13. ASSUME NEW p \in Participants, VoteLogFails(p) PROVE TypeOK'
  <2>1. call' \in [Activities -> [Participants -> Call]]
    BY <1>13 DEF VoteLogFails, Call
  <2>2. vote' \in [Participants -> Votes]
    BY <1>13 DEF VoteLogFails, Votes
  <2>. QED
    BY <1>13, <2>1, <2>2 DEF VoteLogFails
<1>14. ASSUME NEW t \in Activities, NEW p \in Participants, Decision(t, p) PROVE TypeOK'
  <2>1. outcome' \in [Participants -> Outcomes]
    BY <1>14 DEF Decision, AnswerCommit, AnswerAbort, Outcomes
  <2>2. call' \in [Activities -> [Participants -> Call]]
    BY <1>14, CallTypes DEF Decision, AnswerCommit, AnswerAbort, Call
  <2>. QED
    BY <1>14, <2>1, <2>2 DEF Decision, AnswerCommit, AnswerAbort
<1>15. CASE UNCHANGED vars
  BY <1>15 DEF vars
<1>. QED
  BY <1>1, <1>2, <1>3, <1>4, <1>5, <1>6, <1>7, <1>8, <1>9, <1>10, <1>11, <1>12, <1>13,
     <1>14, <1>15 DEF Next, Activity, Recording

(* TypeOK: the coordinator, its log, its participants and recovery stay    *)
(* within the states they name.                                            *)
THEOREM TypeCorrect == Spec => []TypeOK
BY InitTypes, StepTypes, PTL DEF Spec
-----------------------------------------------------------------------------
(* The timer starts off and its calls are its own.                         *)
LEMMA TimerStep == TypeOK /\ TimerAborts /\ [Next]_vars => TimerAborts'
<1>. SUFFICES ASSUME TypeOK, TimerAborts, [Next]_vars PROVE TimerAborts'
  OBVIOUS
<1>. USE DEF TimerAborts, AbortSteps, Goto
<1>0. /\ pc \in [Activities -> PC] /\ "timer" \in Activities /\ "caller" \in Activities
      /\ call \in [Activities -> [Participants -> Call]]
  BY DEF TypeOK, Activities
<1>1. CASE Caller
  BY <1>0, <1>1 DEF Caller, Begin, Save, Prepare, Commit
<1>2. CASE TimePasses \/ HandleTimeout
  BY <1>0, <1>2 DEF TimePasses, HandleTimeout
<1>3. CASE Crash
  BY <1>0, <1>3 DEF Crash
<1>4. CASE FindTimedOut \/ Recover
  BY <1>4 DEF FindTimedOut, Recover
<1>5. ASSUME NEW t \in Activities, UpdateState(t) PROVE TimerAborts'
  <2>1. t = "timer" => /\ Then[pc[t]] \in {"no", "telling_abort", "end"}
                       /\ Then[pc[t]] # "telling_abort" => Then[pc[t]] \notin Calling
    BY <1>5, Tables DEF UpdateState, Then
  <2>2. pc'["timer"] \in {"off", "expired", "end"} \union AbortSteps
    BY <1>0, <1>5, <2>1 DEF UpdateState
  <2>3. call'["timer"] = call["timer"] \/ call'["timer"] = [p \in Participants |-> "abort"]
    BY <1>0, <1>5, <2>1, Tables DEF UpdateState, CallAll, Activities, Requests
  <2>. QED
    BY <2>2, <2>3
<1>6. ASSUME NEW t \in Activities, LogFails(t) \/ Abort(t) PROVE TimerAborts'
  BY <1>0, <1>6 DEF LogFails, Abort
<1>7. ASSUME NEW t \in Activities, AllSettled(t) PROVE TimerAborts'
  BY <1>0, <1>7, Tables DEF AllSettled
<1>8. ASSUME NEW p \in Participants, AnswerPrepare(p) \/ Recording(p) \/ VoteLogFails(p)
      PROVE  TimerAborts'
  <2>1. \E s : SetCall("caller", p, s)
    BY <1>8 DEF AnswerPrepare, Recording, ReadVotes, WriteVotes, VoteLogFails
  <2>2. call'["timer"] = call["timer"]
    BY <1>0, <2>1 DEF SetCall
  <2>. QED
    BY <1>8, <2>2 DEF AnswerPrepare, Recording, ReadVotes, WriteVotes, VoteLogFails
<1>9. ASSUME NEW t \in Activities, NEW p \in Participants, Decision(t, p)
      PROVE  TimerAborts'
  <2>1. pc' = pc /\ SetCall(t, p, "done")
    BY <1>9 DEF Decision, AnswerCommit, AnswerAbort
  <2>2. \A q \in Participants : call'["timer"][q] \in {call["timer"][q], "done"}
    BY <1>0, <2>1 DEF SetCall
  <2>. QED
    BY <2>1, <2>2
<1>10. CASE UNCHANGED vars
  BY <1>10 DEF vars
<1>. QED
  BY <1>1, <1>2, <1>3, <1>4, <1>5, <1>6, <1>7, <1>8, <1>9, <1>10 DEF Next, Activity

(* A participant leaves working and refused only when it has answered, and *)
(* its vote is COMMIT only then.                                           *)
LEMMA VotersStep == TypeOK /\ VotersPrepared /\ [Next]_vars => VotersPrepared'
<1>. SUFFICES ASSUME TypeOK, VotersPrepared, [Next]_vars PROVE VotersPrepared'
  OBVIOUS
<1>. USE DEF VotersPrepared
<1>0. vote \in [Participants -> Votes] /\ outcome \in [Participants -> Outcomes]
  BY DEF TypeOK
<1>1. ASSUME UNCHANGED <<vote, outcome>> PROVE VotersPrepared'
  BY <1>1
<1>2. ASSUME NEW p \in Participants, AnswerPrepare(p) PROVE VotersPrepared'
  <2>1. \A q \in Participants : q # p => vote'[q] = vote[q] /\ outcome'[q] = outcome[q]
    BY <1>0, <1>2 DEF AnswerPrepare
  <2>2. vote'[p] = "COMMIT" => outcome'[p] \notin {"working", "refused"}
    BY <1>0, <1>2 DEF AnswerPrepare
  <2>. QED
    BY <2>1, <2>2
<1>3. ASSUME NEW p \in Participants, VoteLogFails(p) PROVE VotersPrepared'
  BY <1>0, <1>3 DEF VoteLogFails
<1>4. ASSUME NEW t \in Activities, NEW p \in Participants, Decision(t, p)
      PROVE  VotersPrepared'
  BY <1>0, <1>4 DEF Decision, AnswerCommit, AnswerAbort, voting
<1>5. ASSUME NEW t \in Activities, Activity(t) \/ LogFails(t) PROVE VotersPrepared'
  BY <1>1, <1>5 DEF Activity, UpdateState, AllSettled, Abort, LogFails, voting
<1>6. CASE Caller
  BY <1>1, <1>6 DEF Caller, Begin, Save, Prepare, Commit, voting
<1>7. CASE TimePasses \/ HandleTimeout \/ Crash \/ FindTimedOut \/ Recover
  BY <1>1, <1>7 DEF TimePasses, HandleTimeout, Crash, FindTimedOut, Recover, voting
<1>8. ASSUME NEW p \in Participants, Recording(p) PROVE VotersPrepared'
  BY <1>1, <1>8 DEF Recording, ReadVotes, WriteVotes, voting
<1>9. CASE UNCHANGED vars
  BY <1>1, <1>9 DEF vars
<1>. QED
  BY <1>2, <1>3, <1>4, <1>5, <1>6, <1>7, <1>8, <1>9 DEF Next

(* Commit is decided once all votes are in, and then it stays decided.     *)
LEMMA VotesStep ==
  ASSUME TypeOK, TimerAborts, VotesAreIn, [Next]_vars
  PROVE  VotesAreIn'
<1>. USE DEF VotesAreIn, Committing, CommitSteps, Goto
<1>0. /\ pc \in [Activities -> PC] /\ "timer" \in Activities /\ "caller" \in Activities
      /\ call \in [Activities -> [Participants -> Call]]
      /\ vote \in [Participants -> Votes] /\ outcome \in [Participants -> Outcomes]
  BY DEF TypeOK, Activities
<1>1. CASE Caller
  BY <1>0, <1>1 DEF Caller, Begin, Save, Prepare, Commit, voting
<1>2. CASE TimePasses \/ HandleTimeout
  BY <1>0, <1>2 DEF TimePasses, HandleTimeout, voting
<1>3. CASE Crash
  BY <1>0, <1>3 DEF Crash, voting
<1>4. CASE FindTimedOut \/ Recover
  BY <1>4 DEF FindTimedOut, Recover, voting
<1>5. ASSUME NEW t \in Activities, UpdateState(t) PROVE VotesAreIn'
  <2>1. CASE t = "timer"
    <3>1. call'["caller"] = call["caller"] /\ pc'["caller"] = pc["caller"]
      BY <1>0, <1>5, <2>1 DEF UpdateState, CallAll
    <3>. QED
      BY <1>5, <3>1 DEF UpdateState, voting
  <2>2. CASE t = "caller"
    <3>1. CASE pc["caller"] = "committing"
      <4>1. pc'["caller"] = "telling_commit" /\ \A p \in Participants : call'["caller"][p] = "commit"
        BY <1>0, <1>5, <2>2, <3>1, Tables DEF UpdateState, CallAll, Then, Requests
      <4>. QED
        BY <1>5, <3>1, <4>1 DEF UpdateState, voting
    <3>2. CASE pc["caller"] \in {"prepared", "committed"}
      <4>1. pc'["caller"] \in {"yes", "end"} /\ call' = call
        BY <1>0, <1>5, <2>2, <3>2, Tables DEF UpdateState, CallAll, Then
      <4>. QED
        BY <1>5, <3>2, <4>1 DEF UpdateState, voting
    <3>3. CASE pc["caller"] \notin {"prepared", "committing", "committed"}
      <4>1. pc["caller"] \in {"preparing", "refused", "aborting", "aborted", "expired"}
        BY <1>5, <2>2, <3>3, Tables DEF UpdateState
      <4>2. /\ pc'["caller"] \in {"asking", "no", "telling_abort", "end"}
            /\ \A p \in Participants :
                 call'["caller"][p] = "commit" => call["caller"][p] = "commit"
        BY <1>0, <1>5, <2>2, <4>1, Tables DEF UpdateState, CallAll, Then, Requests
      <4>. QED
        BY <1>5, <4>1, <4>2 DEF UpdateState, voting
    <3>. QED
      BY <3>1, <3>2, <3>3
  <2>. QED
    BY <2>1, <2>2 DEF Activities
<1>6. ASSUME NEW t \in Activities, LogFails(t) \/ Abort(t) PROVE VotesAreIn'
  BY <1>0, <1>6 DEF LogFails, Abort, voting
<1>7. ASSUME NEW t \in Activities, AllSettled(t) PROVE VotesAreIn'
  <2>1. CASE t = "timer"
    <3>1. /\ pc'["caller"] = pc["caller"]
          /\ UNCHANGED <<call, vote, outcome>>
      BY <1>0, <1>7, <2>1, Tables DEF AllSettled, voting
    <3>. QED
      BY <3>1
  <2>2. CASE t = "caller"
    BY <1>0, <1>7, <2>2, Tables DEF AllSettled, voting
  <2>. QED
    BY <2>1, <2>2 DEF Activities
<1>8. ASSUME NEW p \in Participants, AnswerPrepare(p) PROVE VotesAreIn'
  <2>1. ~Committing
    BY <1>8 DEF AnswerPrepare
  <2>2. /\ pc' = pc /\ \A q \in Participants : outcome'[q] = "committed" => outcome[q] = "committed"
    BY <1>0, <1>8 DEF AnswerPrepare
  <2>3. \E s \in {"read", "reread"} : SetCall("caller", p, s)
    BY <1>8 DEF AnswerPrepare
  <2>4. \A q \in Participants : call'["caller"][q] = "commit" => call["caller"][q] = "commit"
    BY <1>0, <2>3 DEF SetCall
  <2>. QED
    BY <2>1, <2>2, <2>4
<1>9. ASSUME NEW p \in Participants, Recording(p) \/ VoteLogFails(p) PROVE VotesAreIn'
  <2>1. ~Committing /\ pc' = pc /\ outcome' = outcome
    BY <1>9 DEF Recording, ReadVotes, WriteVotes, VoteLogFails
  <2>2. \E s \in {"write", "rewrite", "reread", "done"} : SetCall("caller", p, s)
    BY <1>9 DEF Recording, ReadVotes, WriteVotes, VoteLogFails
  <2>3. \A q \in Participants : call'["caller"][q] = "commit" => call["caller"][q] = "commit"
    BY <1>0, <2>2 DEF SetCall
  <2>. QED
    BY <2>1, <2>3
<1>10. ASSUME NEW t \in Activities, NEW p \in Participants, AnswerCommit(t, p)
       PROVE  VotesAreIn'
  <2>1. t = "caller" /\ Committing
    BY <1>10 DEF AnswerCommit, TimerAborts, Activities
  <2>2. \A q \in Participants : call'["caller"][q] \in {"commit", "done"}
    BY <1>0, <1>10, <2>1 DEF AnswerCommit, SetCall
  <2>. QED
    BY <1>10, <2>1, <2>2 DEF AnswerCommit, voting
<1>11. ASSUME NEW t \in Activities, NEW p \in Participants, AnswerAbort(t, p)
       PROVE  VotesAreIn'
  <2>1. \A q \in Participants : outcome'[q] = "committed" => outcome[q] = "committed"
    BY <1>0, <1>11 DEF AnswerAbort
  <2>2. pc' = pc /\ vote' = vote /\ SetCall(t, p, "done")
    BY <1>11 DEF AnswerAbort, voting
  <2>3. \A q \in Participants : call'["caller"][q] \in {call["caller"][q], "done"}
    BY <1>0, <2>2 DEF SetCall
  <2>. QED
    BY <2>1, <2>2, <2>3
<1>12. CASE UNCHANGED vars
  BY <1>12 DEF vars
<1>. QED
  BY <1>1, <1>2, <1>3, <1>4, <1>5, <1>6, <1>7, <1>8, <1>9, <1>10, <1>11, <1>12
     DEF Next, Activity, Decision

(* Nothing is decided before the first call.                               *)
LEMMA InitCommit == Init => CommitInv
<1>. SUFFICES ASSUME Init PROVE CommitInv
  OBVIOUS
<1>1. /\ pc = [t \in Activities |-> "off"]
      /\ call = [t \in Activities |-> [p \in Participants |-> "none"]]
      /\ vote = [p \in Participants |-> "PREPARING"]
      /\ outcome = [p \in Participants |-> "working"]
  BY DEF Init
<1>2. TimerAborts /\ VotersPrepared /\ VotesAreIn
  BY <1>1 DEF TimerAborts, VotersPrepared, VotesAreIn, Committing, CommitSteps, Activities
<1>. QED
  BY <1>2, InitTypes DEF CommitInv

LEMMA CommitInvariant == Spec => []CommitInv
<1>1. CommitInv /\ [Next]_vars => CommitInv'
  BY StepTypes, TimerStep, VotersStep, VotesStep DEF CommitInv
<1>. QED
  BY InitCommit, <1>1, PTL DEF Spec

(* CommitNeedsEveryVote: who commits has everybody's vote, through any     *)
(* number of participants, timeouts, crashes and recoveries.               *)
THEOREM CommitIsUnanimous == Spec => []CommitNeedsEveryVote
<1>1. CommitInv => CommitNeedsEveryVote
  BY DEF CommitInv, VotersPrepared, VotesAreIn, Committing, CommitNeedsEveryVote
<1>. QED
  BY CommitInvariant, <1>1, PTL

-----------------------------------------------------------------------------
(* Before the timeout, only the caller takes steps.                        *)
LEMMA OnlyTheCallerActs ==
  ASSUME TypeOK, CallerIsAlone, ~overdue, Next
  PROVE  \/ Caller \/ TimePasses \/ Crash
         \/ Activity("caller") \/ LogFails("caller")
         \/ \E p \in Participants :
              \/ AnswerPrepare(p) \/ Recording(p) \/ VoteLogFails(p)
              \/ Decision("caller", p)
<1>. USE DEF CallerIsAlone
<1>1. ~HandleTimeout /\ ~FindTimedOut /\ ~Recover
  BY DEF HandleTimeout, FindTimedOut, Recover
<1>2. ~Activity("timer") /\ ~LogFails("timer")
  BY Tables DEF Activity, UpdateState, AllSettled, Abort, LogFails
<1>3. \A p \in Participants : ~Decision("timer", p)
  BY DEF Decision, AnswerCommit, AnswerAbort
<1>. QED
  BY <1>1, <1>2, <1>3 DEF Next, Activities

LEMMA AloneStep ==
  ASSUME TypeOK, ~overdue => CallerIsAlone, [Next]_vars, ~overdue'
  PROVE  ~overdue /\ CallerIsAlone /\ CallerIsAlone'
<1>. USE DEF Goto
<1>1. ~overdue
  <2>1. CASE UNCHANGED overdue
    BY <2>1
  <2>2. CASE TimePasses
    BY <2>2 DEF TimePasses
  <2>. QED
    BY <2>1, <2>2 DEF vars, Next, Caller, Begin, Save, Prepare, Commit, HandleTimeout, Crash,
       FindTimedOut, Recover, Activity, UpdateState, AllSettled, Abort, LogFails, AnswerPrepare,
       Recording, ReadVotes, WriteVotes, VoteLogFails, Decision, AnswerCommit, AnswerAbort
<1>2. CallerIsAlone
  BY <1>1
<1>3. CallerIsAlone'
  <2>0. /\ pc \in [Activities -> PC] /\ "timer" \in Activities /\ "caller" \in Activities
        /\ call \in [Activities -> [Participants -> Call]]
    BY DEF TypeOK, Activities
  <2>. SUFFICES pc'["timer"] \in {pc["timer"], "end"} /\ UNCHANGED <<call["timer"], recovering>>
    BY <1>2 DEF CallerIsAlone
  <2>1. CASE Caller
    BY <2>0, <2>1 DEF Caller, Begin, Save, Prepare, Commit
  <2>2. CASE TimePasses \/ Crash
    BY <2>0, <2>2 DEF TimePasses, Crash
  <2>3. CASE UpdateState("caller")
    BY <2>0, <2>3 DEF UpdateState, CallAll
  <2>4. CASE AllSettled("caller")
    BY <2>0, <2>4, Tables DEF AllSettled
  <2>5. CASE Abort("caller") \/ LogFails("caller")
    BY <2>0, <2>5 DEF Abort, LogFails
  <2>6. ASSUME NEW p \in Participants,
               \/ AnswerPrepare(p) \/ Recording(p) \/ VoteLogFails(p)
               \/ Decision("caller", p)
        PROVE  pc'["timer"] = pc["timer"] /\ UNCHANGED <<call["timer"], recovering>>
    <3>1. pc' = pc /\ recovering' = recovering /\ \E s : SetCall("caller", p, s)
      BY <2>6 DEF AnswerPrepare, Recording, ReadVotes, WriteVotes, VoteLogFails, Decision,
         AnswerCommit, AnswerAbort
    <3>2. call'["timer"] = call["timer"]
      BY <2>0, <3>1 DEF SetCall
    <3>. QED
      BY <3>1, <3>2
  <2>7. CASE UNCHANGED vars
    BY <2>7 DEF vars
  <2>. QED
    BY <1>1, <1>2, <2>1, <2>2, <2>3, <2>4, <2>5, <2>6, <2>7, OnlyTheCallerActs DEF Activity
<1>. QED
  BY <1>1, <1>2, <1>3

(* A step that decides nothing leaves the decision alone.                  *)
LEMMA NothingDecided ==
  ASSUME DecidedOnce, stored' = stored,
         Aborting' => Aborting, Committing' => Committing,
         pc'["caller"] \in EarlySteps => pc["caller"] \in EarlySteps,
         pc["caller"] = "end" => pc'["caller"] = "end"
  PROVE  DecidedOnce'
BY DEF DecidedOnce

(* The coordinator decides once, and the log follows.                      *)
LEMMA DecidedStep ==
  ASSUME CommitInv, CallerIsAlone, ~overdue, DecidedOnce, [Next]_vars
  PROVE  DecidedOnce'
<1>. USE DEF Aborting, Committing, CommitSteps, AbortSteps, EarlySteps, Goto
<1>0. /\ pc \in [Activities -> PC] /\ "timer" \in Activities /\ "caller" \in Activities
      /\ call \in [Activities -> [Participants -> Call]]
      /\ vote \in [Participants -> Votes] /\ outcome \in [Participants -> Outcomes]
  BY DEF CommitInv, TypeOK, Activities
<1>1. CASE Begin \/ Prepare \/ Commit
  BY <1>0, <1>1, NothingDecided DEF Begin, Prepare, Commit, log
<1>2. CASE Save
  BY <1>0, <1>2 DEF Save, DecidedOnce
<1>3. CASE TimePasses
  BY <1>0, <1>3, NothingDecided DEF TimePasses, log
<1>4. CASE Crash
  BY <1>0, <1>4, NothingDecided DEF Crash, log
<1>5. CASE UpdateState("caller")
  <2>1. CASE pc["caller"] = "preparing"
    <3>1. /\ pc'["caller"] = "asking" /\ stored' = "PREPARING" /\ outcome' = outcome
          /\ \A p \in Participants : call'["caller"][p] = "prepare"
      BY <1>0, <1>5, <2>1, Tables DEF UpdateState, CallAll, Writes, Then, Requests
    <3>. QED
      BY <2>1, <3>1 DEF DecidedOnce
  <2>2. CASE pc["caller"] \in {"prepared", "committed"}
    <3>1. /\ pc'["caller"] \in {"yes", "end"} /\ stored' \in {"PREPARED", "COMMITTED"}
          /\ stored' = "COMMITTED" => pc'["caller"] = "end"
          /\ UNCHANGED <<outcome, call>>
      BY <1>0, <1>5, <2>2, Tables DEF UpdateState, CallAll, Writes, Then, Requests
    <3>. QED
      BY <2>2, <3>1 DEF DecidedOnce
  <2>3. CASE pc["caller"] = "committing"
    <3>1. /\ pc'["caller"] = "telling_commit" /\ stored' = "COMMITTING" /\ outcome' = outcome
          /\ \A p \in Participants : call'["caller"][p] = "commit"
      BY <1>0, <1>5, <2>3, Tables DEF UpdateState, CallAll, Writes, Then, Requests
    <3>. QED
      BY <2>3, <3>1 DEF DecidedOnce
  <2>4. CASE pc["caller"] \in {"refused", "aborted", "expired"}
    <3>1. /\ pc'["caller"] \in {"no", "end"} /\ stored' \in {"ABORTING", "ABORTED", "TIMEOUT"}
          /\ UNCHANGED <<outcome, call>>
      BY <1>0, <1>5, <2>4, Tables DEF UpdateState, CallAll, Writes, Then, Requests
    <3>2. ~Committing
      BY <2>4 DEF CommitInv, VotesAreIn
    <3>. QED
      BY <2>4, <3>1, <3>2 DEF DecidedOnce
  <2>5. CASE pc["caller"] = "aborting"
    <3>1. /\ pc'["caller"] = "telling_abort" /\ stored' = "ABORTING" /\ outcome' = outcome
          /\ \A p \in Participants : call'["caller"][p] = "abort"
      BY <1>0, <1>5, <2>5, Tables DEF UpdateState, CallAll, Writes, Then, Requests
    <3>. QED
      BY <2>5, <3>1 DEF DecidedOnce
  <2>. QED
    BY <1>5, <2>1, <2>2, <2>3, <2>4, <2>5, Tables DEF UpdateState
<1>6. CASE LogFails("caller") \/ Abort("caller")
  BY <1>0, <1>6, NothingDecided DEF LogFails, Abort, log
<1>7. CASE AllSettled("caller")
  <2>1. UNCHANGED <<call, stored, outcome>>
    BY <1>7 DEF AllSettled, log
  <2>2. CASE pc["caller"] = "asking"
    <3>1. pc'["caller"] \in {"prepared", "refused"}
      BY <1>0, <1>7, <2>2 DEF AllSettled
    <3>2. ~Committing /\ ~Aborting /\ stored # "COMMITTED"
      BY <2>2 DEF DecidedOnce, CommitInv, VotesAreIn
    <3>. QED
      BY <2>1, <3>1, <3>2 DEF DecidedOnce
  <2>3. CASE pc["caller"] \in {"telling_commit", "telling_abort"}
    <3>1. pc'["caller"] = IF pc["caller"] = "telling_commit" THEN "committed" ELSE "aborted"
      BY <1>0, <1>7, <2>3 DEF AllSettled
    <3>. QED
      BY <2>1, <2>3, <3>1, NothingDecided
  <2>. QED
    BY <1>7, <2>2, <2>3, Tables DEF AllSettled
<1>8. ASSUME NEW p \in Participants, AnswerPrepare(p) PROVE DecidedOnce'
  <2>1. /\ pc' = pc /\ stored' = stored
        /\ \A q \in Participants :
             outcome'[q] \in {"committed", "aborted"} => outcome[q] = outcome'[q]
    BY <1>0, <1>8 DEF AnswerPrepare, log
  <2>2. \E s \in {"read", "reread"} : SetCall("caller", p, s)
    BY <1>8 DEF AnswerPrepare
  <2>3. \A q \in Participants :
          call'["caller"][q] \in {"commit", "abort"} => call["caller"][q] = call'["caller"][q]
    BY <1>0, <2>2 DEF SetCall
  <2>. QED
    BY <2>1, <2>3, NothingDecided
<1>9. ASSUME NEW p \in Participants, Recording(p) \/ VoteLogFails(p) PROVE DecidedOnce'
  <2>1. UNCHANGED <<pc, stored, outcome>>
    BY <1>9 DEF Recording, ReadVotes, WriteVotes, VoteLogFails, log
  <2>2. \E s \in {"write", "rewrite", "reread", "done"} : SetCall("caller", p, s)
    BY <1>9 DEF Recording, ReadVotes, WriteVotes, VoteLogFails
  <2>3. \A q \in Participants :
          call'["caller"][q] \in {"commit", "abort"} => call["caller"][q] = call'["caller"][q]
    BY <1>0, <2>2 DEF SetCall
  <2>. QED
    BY <2>1, <2>3, NothingDecided
<1>10. ASSUME NEW p \in Participants, Decision("caller", p) PROVE DecidedOnce'
  <2>1. pc' = pc /\ stored' = stored /\ SetCall("caller", p, "done")
    BY <1>10 DEF Decision, AnswerCommit, AnswerAbort, log
  <2>2. \A q \in Participants :
          call'["caller"][q] \in {"commit", "abort"} => call["caller"][q] = call'["caller"][q]
    BY <1>0, <2>1 DEF SetCall
  <2>3. \A q \in Participants : outcome'[q] = "committed" => Committing
    BY <1>0, <1>10 DEF Decision, AnswerCommit, AnswerAbort
  <2>4. \A q \in Participants : outcome'[q] = "aborted" => Aborting
    BY <1>0, <1>10 DEF Decision, AnswerCommit, AnswerAbort
  <2>. QED
    BY <2>1, <2>2, <2>3, <2>4, NothingDecided
<1>11. CASE UNCHANGED vars
  BY <1>11, NothingDecided DEF vars
<1>12. TypeOK
  BY DEF CommitInv
<1>. QED
  BY <1>1, <1>2, <1>3, <1>4, <1>5, <1>6, <1>7, <1>8, <1>9, <1>10, <1>11, <1>12,
     OnlyTheCallerActs DEF Caller, Activity

LEMMA InitInTime == Init => InTimeInv
<1>. SUFFICES ASSUME Init PROVE CallerIsAlone /\ DecidedOnce
  BY DEF InTimeInv
<1>1. /\ pc = [t \in Activities |-> "off"]
      /\ call = [t \in Activities |-> [p \in Participants |-> "none"]]
      /\ stored = "NONE" /\ recovering = "NONE"
      /\ outcome = [p \in Participants |-> "working"]
  BY DEF Init
<1>. QED
  BY <1>1 DEF CallerIsAlone, DecidedOnce, Aborting, Committing, CommitSteps, AbortSteps,
     EarlySteps, Activities

LEMMA Invariant == Spec => []IInv
<1>1. Init => IInv
  BY InitCommit, InitInTime DEF IInv
<1>2. IInv /\ [Next]_vars => IInv'
  <2>1. IInv /\ [Next]_vars => CommitInv'
    BY StepTypes, TimerStep, VotersStep, VotesStep DEF IInv, CommitInv
  <2>2. IInv /\ [Next]_vars => InTimeInv'
    <3>. SUFFICES ASSUME IInv, [Next]_vars, ~overdue' PROVE CallerIsAlone' /\ DecidedOnce'
      BY DEF InTimeInv
    <3>1. ~overdue /\ CallerIsAlone /\ CallerIsAlone'
      BY AloneStep DEF IInv, CommitInv, InTimeInv
    <3>. QED
      BY <3>1, DecidedStep DEF IInv, InTimeInv
  <2>. QED
    BY <2>1, <2>2 DEF IInv
<1>. QED
  BY <1>1, <1>2, PTL DEF Spec

(* AgreementInTime: as long as the timeout has not passed, participants    *)
(* decide alike and the log never says the opposite, however many of them  *)
(* there are and wherever the coordinator crashes or loses its database.   *)
THEOREM ParticipantsAgreeInTime == Spec => []AgreementInTime
<1>1. IInv => AgreementInTime
  BY DEF IInv, CommitInv, InTimeInv, DecidedOnce, Aborting, Committing, AgreementInTime, Agreement
<1>. QED
  BY Invariant, <1>1, PTL

=============================================================================
