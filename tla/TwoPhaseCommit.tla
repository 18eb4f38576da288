--------------------------- MODULE TwoPhaseCommit ---------------------------
(***************************************************************************)
(* One transaction of the TwoPhaseCoordinator of libs/core.  Two activities*)
(* of the coordinator's event loop work on the same transaction object:    *)
(*   "caller"  the application's begin, prepare and then commit or abort   *)
(*   "timer"   handleTimeout, which aborts                                 *)
(* Each await (an UPDATE of the transaction log, the calls to all          *)
(* participants) is a point where the other one may run.  Besides, any     *)
(* coordinator instance may run recoverTransactions on the log.            *)
(*                                                                         *)
(* Participants are outside src/ (ITwoPhaseParticipant).  They are taken   *)
(* to be well behaved: the first decision they receive is final.  The      *)
(* caller is too: it commits when prepare returned true, aborts when it    *)
(* returned false, and gives up when a call throws.                        *)
(***************************************************************************)
EXTENDS Naturals

CONSTANTS Participants,
          Worlds       \* what may go wrong: subsets of Troubles

(* "refuse": a participant votes no; "throw": a call to a participant      *)
(* throws; "log": the database refuses a statement; "timeout": the timeout *)
(* passes before the transaction is over; "crash": the coordinator dies;   *)
(* "recover": recoverTransactions is called.                               *)
Troubles == {"refuse", "throw", "log", "timeout", "crash", "recover"}

ASSUME TwoPhaseAssumption == Worlds \subseteq SUBSET Troubles

VARIABLES
  state,      \* transaction.state in memory
  active,     \* the transaction is in the coordinator's map
  stored,     \* state in the log; "NONE": no row
  votes,      \* participants' votes in the log
  pc,         \* pc[t]: the await activity t is at
  call,       \* call[t][p]: the call activity t makes to participant p
  vote,       \* vote[p]: the vote prepare is recording for p
  read,       \* read[p]: the votes column as read for p
  overdue,    \* the timeout has passed
  recovering, \* state of the row recoverTransactions has read
  outcome,    \* outcome[p]: participant p
  happens     \* what goes wrong in this behaviour, chosen once from Worlds

vars == <<state, active, stored, votes, pc, call, vote, read, overdue, recovering, outcome,
          happens>>
memory == <<state, active>>
log == <<stored, votes>>
voting == <<vote, read>>

-----------------------------------------------------------------------------
States == {"INIT", "PREPARING", "PREPARED", "COMMITTING", "COMMITTED",
           "ABORTING", "ABORTED", "TIMEOUT"}
Final == {"COMMITTED", "ABORTED"}
Votes == {"COMMIT", "ABORT", "PREPARING"}
Outcomes == {"working", "prepared", "refused", "committed", "aborted"}
Activities == {"caller", "timer"}

(* Definitions named Faulty... are slips this code could have had, not     *)
(* part of the specification: each of them, put in the place of the        *)
(* definition after it, makes a property below fail.                       *)

(* prepare logs a state the enumeration does not have.                     *)
FaultyWrites == [preparing  |-> "PREPARING",  prepared   |-> "PREPARED",
                 refused    |-> "REFUSED",    committing |-> "COMMITTING",
                 committed  |-> "COMMITTED",  aborting   |-> "ABORTING",
                 aborted    |-> "ABORTED",    expired    |-> "TIMEOUT"]

(* At each updateState: the state it writes and where the activity goes on.*)
Writes == [preparing  |-> "PREPARING",  prepared   |-> "PREPARED",
           refused    |-> "ABORTING",   committing |-> "COMMITTING",
           committed  |-> "COMMITTED",  aborting   |-> "ABORTING",
           aborted    |-> "ABORTED",    expired    |-> "TIMEOUT"]
Then == [preparing  |-> "asking",       prepared   |-> "yes",
         refused    |-> "no",           committing |-> "telling_commit",
         committed  |-> "end",          aborting   |-> "telling_abort",
         aborted    |-> "end",          expired    |-> "no"]
(* The calls that go out to all participants on entering a location.       *)
Requests == [asking |-> "prepare", telling_commit |-> "commit", telling_abort |-> "abort"]
Calling == DOMAIN Requests
PC == DOMAIN Writes \union Calling \union {"off", "saving", "begun", "yes", "no", "end"}

(* prepare, commit, abort: with the participant; read and write:           *)
(* updateParticipantVote; reread and rewrite: the one of the catch block;  *)
(* done: settled.                                                          *)
Call == {"none", "prepare", "commit", "abort", "read", "write", "reread", "rewrite", "done"}

Goto(t, l) == pc' = [pc EXCEPT ![t] = l]
CallAll(t, l) ==
  call' = IF l \in Calling
          THEN [call EXCEPT ![t] = [p \in Participants |-> Requests[l]]]
          ELSE call
SetCall(t, p, s) == call' = [call EXCEPT ![t][p] = s]

Init ==
  /\ state = "INIT" /\ active = FALSE
  /\ stored = "NONE" /\ votes = [p \in Participants |-> "PREPARING"]
  /\ pc = [t \in Activities |-> "off"]
  /\ call = [t \in Activities |-> [p \in Participants |-> "none"]]
  /\ vote = [p \in Participants |-> "PREPARING"]
  /\ read = [p \in Participants |-> votes]
  /\ overdue = FALSE
  /\ recovering = "NONE"
  /\ outcome = [p \in Participants |-> "working"]
  /\ happens \in Worlds

-----------------------------------------------------------------------------
(* begin: the INSERT, then the map entry and the timer.                    *)
Begin ==
  /\ pc["caller"] = "off"
  /\ Goto("caller", "saving")
  /\ UNCHANGED <<happens, memory, log, call, voting, overdue, recovering, outcome>>

Save ==
  /\ pc["caller"] = "saving"
  /\ stored' = "INIT" /\ active' = TRUE
  /\ Goto("caller", "begun")
  /\ UNCHANGED <<happens, state, votes, call, voting, overdue, recovering, outcome>>

(* prepare, up to its first await.                                         *)
Prepare ==
  /\ pc["caller"] = "begun"
  /\ IF active
     THEN state' = "PREPARING" /\ Goto("caller", "preparing")
     ELSE Goto("caller", "end") /\ UNCHANGED state
  /\ UNCHANGED <<happens, active, log, call, voting, overdue, recovering, outcome>>

(* updateState returns: the next calls go out to all participants, or the  *)
(* method returns; at the end of commit and abort the entry is deleted.    *)
UpdateState(t) ==
  /\ pc[t] \in DOMAIN Writes
  /\ stored' = Writes[pc[t]]
  /\ active' = (active /\ Writes[pc[t]] \notin Final)
  /\ Goto(t, Then[pc[t]])
  /\ CallAll(t, Then[pc[t]])
  /\ UNCHANGED <<happens, state, votes, voting, overdue, recovering, outcome>>

(* A statement is refused: the transaction is aborted, whatever was        *)
(* already done.                                                           *)
FaultyLogFails(t) ==
  /\ "log" \in happens
  /\ pc[t] \in DOMAIN Writes \union {"saving"}
  /\ Goto(t, "no")
  /\ UNCHANGED <<happens, memory, log, call, voting, overdue, recovering, outcome>>

(* The statement is refused: the method rejects.                           *)
LogFails(t) ==
  /\ "log" \in happens
  /\ pc[t] \in DOMAIN Writes \union {"saving"}
  /\ Goto(t, "end")
  /\ UNCHANGED <<happens, memory, log, call, voting, overdue, recovering, outcome>>

(* participant.prepare: yes, no, or an exception with or without effect.   *)
AnswerPrepare(p) ==
  /\ call["caller"][p] = "prepare"
  /\ \/ /\ outcome[p] = "working"
        /\ outcome' = [outcome EXCEPT ![p] = "prepared"]
        /\ \/ vote' = [vote EXCEPT ![p] = "COMMIT"] /\ SetCall("caller", p, "read")
           \/ /\ "throw" \in happens
              /\ vote' = [vote EXCEPT ![p] = "ABORT"] /\ SetCall("caller", p, "reread")
     \/ /\ "refuse" \in happens \/ outcome[p] # "working"
        /\ outcome' = [outcome EXCEPT ![p] = IF @ = "working" THEN "refused" ELSE @]
        /\ vote' = [vote EXCEPT ![p] = "ABORT"] /\ SetCall("caller", p, "read")
     \/ /\ "throw" \in happens
        /\ vote' = [vote EXCEPT ![p] = "ABORT"] /\ SetCall("caller", p, "reread")
        /\ UNCHANGED outcome
  /\ UNCHANGED <<happens, memory, log, pc, read, overdue, recovering>>

(* updateParticipantVote: findUnique, then update of the whole column.     *)
ReadVotes(p) ==
  /\ pc["caller"] = "asking" /\ call["caller"][p] \in {"read", "reread"}
  /\ read' = [read EXCEPT ![p] = votes]
  /\ SetCall("caller", p, IF call["caller"][p] = "read" THEN "write" ELSE "rewrite")
  /\ UNCHANGED <<happens, memory, log, pc, vote, overdue, recovering, outcome>>

WriteVotes(p) ==
  /\ pc["caller"] = "asking" /\ call["caller"][p] \in {"write", "rewrite"}
  /\ votes' = [read[p] EXCEPT ![p] = vote[p]]
  /\ SetCall("caller", p, "done")
  /\ UNCHANGED <<happens, memory, stored, pc, voting, overdue, recovering, outcome>>

(* The vote cannot be written: the catch block writes ABORT; when that is  *)
(* refused too, the promise rejects.  Either way the vote counts as ABORT. *)
VoteLogFails(p) ==
  /\ "log" \in happens
  /\ pc["caller"] = "asking"
  /\ call["caller"][p] \in {"read", "write", "reread", "rewrite"}
  /\ vote' = [vote EXCEPT ![p] = "ABORT"]
  /\ SetCall("caller", p, IF call["caller"][p] \in {"read", "write"} THEN "reread" ELSE "done")
  /\ UNCHANGED <<happens, memory, log, pc, read, overdue, recovering, outcome>>

(* participant.commit and participant.abort: a participant that has the    *)
(* other decision throws.                                                  *)
AnswerCommit(t, p) ==
  /\ call[t][p] = "commit"
  /\ \/ outcome' = [outcome EXCEPT ![p] = IF @ = "prepared" THEN "committed" ELSE @]
     \/ "throw" \in happens /\ UNCHANGED outcome
  /\ SetCall(t, p, "done")
  /\ UNCHANGED <<happens, memory, log, pc, voting, overdue, recovering>>

AnswerAbort(t, p) ==
  /\ call[t][p] = "abort"
  /\ \/ outcome' = [outcome EXCEPT ![p] = IF @ = "committed" THEN @ ELSE "aborted"]
     \/ "throw" \in happens /\ UNCHANGED outcome
  /\ SetCall(t, p, "done")
  /\ UNCHANGED <<happens, memory, log, pc, voting, overdue, recovering>>

(* One vote to commit is enough; the end of abort is the end of commit.    *)
FaultyAllSettled(t) ==
  /\ pc[t] \in Calling
  /\ \A p \in Participants : call[t][p] = "done"
  /\ CASE pc[t] = "telling_commit" -> state' = "COMMITTED" /\ Goto(t, "committed")
       [] pc[t] = "telling_abort"  -> state' = "ABORTED" /\ Goto(t, "aborted")
       [] pc[t] = "asking" ->
            IF \E p \in Participants : vote[p] = "COMMIT"
            THEN state' = "PREPARED" /\ Goto(t, "prepared")
            ELSE state' = "ABORTING" /\ Goto(t, "refused")
  /\ UNCHANGED <<happens, active, log, call, voting, overdue, recovering, outcome>>

(* Promise.allSettled: every call has an answer.  commit and abort go on   *)
(* whatever the answers are.                                               *)
AllSettled(t) ==
  /\ pc[t] \in Calling
  /\ \A p \in Participants : call[t][p] = "done"
  /\ CASE pc[t] = "telling_commit" -> state' = "COMMITTED" /\ Goto(t, "committed")
       [] pc[t] = "telling_abort"  -> state' = "ABORTED" /\ Goto(t, "aborted")
       [] pc[t] = "asking" ->
            IF \A p \in Participants : vote[p] = "COMMIT"
            THEN state' = "PREPARED" /\ Goto(t, "prepared")
            ELSE state' = "ABORTING" /\ Goto(t, "refused")
  /\ UNCHANGED <<happens, active, log, call, voting, overdue, recovering, outcome>>

(* abort accepts only a prepared transaction.                              *)
FaultyAbort(t) ==
  /\ pc[t] = "no"
  /\ IF active /\ state = "PREPARED"
     THEN state' = "ABORTING" /\ Goto(t, "aborting")
     ELSE Goto(t, "end") /\ UNCHANGED state
  /\ UNCHANGED <<happens, active, log, call, voting, overdue, recovering, outcome>>

(* commit and abort, up to their first await.                              *)
Commit ==
  /\ pc["caller"] = "yes"
  /\ IF active /\ state = "PREPARED"
     THEN state' = "COMMITTING" /\ Goto("caller", "committing")
     ELSE Goto("caller", "end") /\ UNCHANGED state
  /\ UNCHANGED <<happens, active, log, call, voting, overdue, recovering, outcome>>

Abort(t) ==
  /\ pc[t] = "no"
  /\ IF active
     THEN state' = "ABORTING" /\ Goto(t, "aborting")
     ELSE Goto(t, "end") /\ UNCHANGED state
  /\ UNCHANGED <<happens, active, log, call, voting, overdue, recovering, outcome>>

-----------------------------------------------------------------------------
TimePasses ==
  /\ "timeout" \in happens
  /\ stored # "NONE" /\ ~overdue
  /\ overdue' = TRUE
  /\ UNCHANGED <<happens, memory, log, pc, call, voting, recovering, outcome>>

(* The timeout spares a transaction that is being prepared.                *)
FaultyHandleTimeout ==
  /\ overdue /\ pc["timer"] = "off" /\ pc["caller"] # "saving"
  /\ IF active /\ state \notin Final \union {"PREPARING"}
     THEN state' = "TIMEOUT" /\ Goto("timer", "expired")
     ELSE Goto("timer", "end") /\ UNCHANGED state
  /\ UNCHANGED <<happens, active, log, call, voting, overdue, recovering, outcome>>

(* handleTimeout, up to its first await; abort follows.                    *)
HandleTimeout ==
  /\ overdue /\ pc["timer"] = "off" /\ pc["caller"] # "saving"
  /\ IF active /\ state \notin Final
     THEN state' = "TIMEOUT" /\ Goto("timer", "expired")
     ELSE Goto("timer", "end") /\ UNCHANGED state
  /\ UNCHANGED <<happens, active, log, call, voting, overdue, recovering, outcome>>

(* The coordinator's process dies: its memory and both activities are gone;*)
(* requests on their way still reach the participants.                     *)
Crash ==
  /\ "crash" \in happens
  /\ pc["caller"] # "off" /\ pc # [t \in Activities |-> "end"]
  /\ pc' = [t \in Activities |-> "end"]
  /\ active' = FALSE /\ state' = "INIT"
  /\ UNCHANGED <<happens, log, call, voting, overdue, recovering, outcome>>

(* recoverTransactions: findTimedOut, then an UPDATE by the state found.   *)
FindTimedOut ==
  /\ "recover" \in happens
  /\ recovering = "NONE" /\ overdue
  /\ stored \in {"PREPARING", "PREPARED", "COMMITTING", "ABORTING"}
  /\ recovering' = stored
  /\ UNCHANGED <<happens, memory, log, pc, call, voting, overdue, outcome>>

Recover ==
  /\ recovering # "NONE"
  /\ stored' = CASE recovering = "PREPARED"   -> "ABORTING"
                 [] recovering = "COMMITTING" -> "COMMITTED"
                 [] OTHER                     -> "ABORTED"
  /\ recovering' = "NONE"
  /\ UNCHANGED <<happens, memory, votes, pc, call, voting, overdue, outcome>>

-----------------------------------------------------------------------------
Caller == Begin \/ Save \/ Prepare \/ Commit
Activity(t) == UpdateState(t) \/ AllSettled(t) \/ Abort(t)
Recording(p) == ReadVotes(p) \/ WriteVotes(p)
Decision(t, p) == AnswerCommit(t, p) \/ AnswerAbort(t, p)

Next ==
  \/ Caller \/ TimePasses \/ HandleTimeout \/ Crash \/ FindTimedOut \/ Recover
  \/ \E t \in Activities : Activity(t) \/ LogFails(t)
  \/ \E p \in Participants : AnswerPrepare(p) \/ Recording(p) \/ VoteLogFails(p)
  \/ \E t \in Activities, p \in Participants : Decision(t, p)

Spec == Init /\ [][Next]_vars

(* Fairness: the coordinator's event loop runs, its timer fires, the       *)
(* database answers and participants answer commit and abort.  Nothing     *)
(* makes a participant answer prepare: the timeout is there for that.      *)
FairSpec ==
  /\ Spec
  /\ WF_vars(Caller) /\ WF_vars(TimePasses) /\ WF_vars(HandleTimeout)
  /\ \A t \in Activities : WF_vars(Activity(t))
  /\ \A p \in Participants : WF_vars(Recording(p))
  /\ \A t \in Activities, p \in Participants : WF_vars(Decision(t, p))

-----------------------------------------------------------------------------
TypeOK ==
  /\ state \in States /\ active \in BOOLEAN
  /\ stored \in States \union {"NONE"}
  /\ votes \in [Participants -> Votes]
  /\ pc \in [Activities -> PC]
  /\ call \in [Activities -> [Participants -> Call]]
  /\ vote \in [Participants -> Votes]
  /\ read \in [Participants -> [Participants -> Votes]]
  /\ overdue \in BOOLEAN
  /\ recovering \in States \union {"NONE"}
  /\ outcome \in [Participants -> Outcomes]
  /\ happens \in Worlds

(* No participant commits unless all of them have prepared and voted to    *)
(* commit, even when the timeout strikes, the coordinator crashes and      *)
(* other instances recover the transaction meanwhile.                      *)
CommitNeedsEveryVote ==
  \A p \in Participants : outcome[p] = "committed" =>
    \A q \in Participants : vote[q] = "COMMIT" /\ outcome[q] \notin {"working", "refused"}

(* All participants reach the same decision                                *)
(* (two-phase-commit.interface.ts:4-8).                                    *)
Agreement ==
  \A p, q \in Participants : ~(outcome[p] = "committed" /\ outcome[q] = "aborted")

(* They do as long as the timeout has not passed, whatever participants    *)
(* answer and wherever the coordinator crashes or loses its database, and  *)
(* until then the log never says the opposite of what a participant did.   *)
AgreementInTime ==
  ~overdue => Agreement /\ \A p \in Participants :
    /\ stored = "COMMITTED" => outcome[p] # "aborted"
    /\ stored \in {"ABORTING", "ABORTED"} => outcome[p] # "committed"

(* What the timeout has to cope with: votes against, and participants that *)
(* never answer.                                                           *)
Orderly == happens \subseteq {"refuse", "timeout"}

(* A participant that holds resources for the transaction is released, even*)
(* when another one never answers prepare: the timeout aborts.             *)
ParticipantsAreReleased ==
  \A p \in Participants :
    Orderly /\ outcome[p] = "prepared" ~> outcome[p] \in {"committed", "aborted"}

(* Every transaction that begins comes to a decision.                      *)
TransactionEnds == Orderly /\ stored = "INIT" ~> stored \in Final
=============================================================================
