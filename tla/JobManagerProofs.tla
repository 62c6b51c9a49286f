-------------------------- MODULE JobManagerProofs --------------------------
(***************************************************************************)
(* Proofs about JobManager: type correctness, ownership of tasks, at most  *)
(* one terminal message, bounded retries, the quota ceiling, and that the  *)
(* jobs implement CommandContract, for any number of tasks, request ids    *)
(* and permits.                                                            *)
(***************************************************************************)
EXTENDS JobManager, FiniteSetTheorems, TLAPS

\* Who owns what: a task that has not ended owns its request id, and an id in
\* _jobs names a task of its own that has not been reaped.
Owned ==
    /\ \A t \in Tasks : Live(t) => rid[t] \in Rids /\ jobs[rid[t]] = t
    /\ \A t \in Tasks : Live(t) \/ pc[t] = "done" => rid[t] \in Rids /\ cmd[t] \in Commands
    /\ \A r \in Rids : jobs[r] # None => rid[jobs[r]] = r /\ pc[jobs[r]] \notin {"unborn", "reaped"}

\* _terminal_attempts holds exactly the ids whose task has begun its result send.
Attempted ==
    /\ \A t \in Tasks : pc[t] \in {"sending", "flushing", "hook"} => rid[t] \in attempted
    /\ \A r \in attempted : jobs[r] # None /\ pc[jobs[r]] \in {"sending", "flushing", "hook", "done"}

\* What has been told of a task and what may still be told fit the place it is at.
ToldFits ==
    \A t \in Tasks :
        /\ "result" \in told[t] => pc[t] \in {"flushing", "hook", "done", "reaped"} /\ t \notin toTell
        /\ "cancelled" \in told[t] => pc[t] \in {"done", "reaped"} /\ "result" \notin told[t] /\ t \notin toTell
        /\ t \in crashed => pc[t] \in {"done", "reaped"} /\ told[t] = {} /\ t \notin toTell
        /\ pc[t] = "flushing" => "result" \in told[t]

\* How the end of a session reaches every task.
StopReaches ==
    /\ closing <=> phase # "open"
    /\ cancelled # {} => closing
    /\ toTell # {} => phase \in {"stopping", "telling"}
    /\ \A t \in toTell : pc[t] \notin {"unborn", "sending", "flushing", "hook"}
    /\ \A t \in Tasks : closing /\ Live(t) => t \in awaited /\ (t \in cancelled \/ pc[t] = "running")
    /\ phase \in {"telling", "closed", "over"} => \A t \in Tasks : ~ Live(t)
    /\ link = "up" /\ phase = "ending" => \A t \in Tasks : ~ Live(t)
    /\ \A t \in Tasks : /\ link = "up" /\ closing /\ Live(t)
                        /\ pc[t] \notin {"sending", "flushing", "hook"}
                        => t \in toTell

IInv == TypeOK /\ Owned /\ Attempted /\ ToldFits /\ StopReaches

\* The initial state.
LEMMA InitIInv == Init => IInv
<1> SUFFICES ASSUME Init PROVE IInv
  OBVIOUS
<1> USE JobAssumption DEF Init
<1>1. TypeOK
  BY DEF TypeOK, Places
<1>2. Owned /\ Attempted
  BY DEF Owned, Attempted, Live
<1>3. ToldFits
  BY DEF ToldFits
<1>4. StopReaches
  BY DEF StopReaches, Live
<1>5. QED
  BY <1>1, <1>2, <1>3, <1>4 DEF IInv

\* Every step keeps the types.
LEMMA NextType == IInv /\ [Next]_vars => TypeOK'
<1> SUFFICES ASSUME IInv, [Next]_vars PROVE TypeOK'
  OBVIOUS
<1> USE JobAssumption DEF IInv, TypeOK, Owned, Live, Places
<1>1. ASSUME NEW t \in Tasks, NEW r \in Rids, NEW c \in Commands, Start(t, r, c) PROVE TypeOK'
  BY <1>1 DEF Start, Move, Active, TypeOK, vars, taskVars, managerVars, stopVars, historyVars
<1>2. ASSUME NEW r \in Rids, NEW c \in Commands, NEW valid \in BOOLEAN, Refuse(r, c, valid) PROVE TypeOK'
  BY <1>2 DEF Refuse, TypeOK, vars, taskVars, managerVars, stopVars, historyVars
<1>3. ASSUME NEW t \in Tasks, Acquire(t) PROVE TypeOK'
  BY <1>3 DEF Acquire, At, Move, NoteAttempt, Opened, TypeOK, vars, taskVars, managerVars, stopVars, historyVars
<1>4. ASSUME NEW t \in Tasks, NEW o \in {"success", "failure", "ask"}, NEW d \in Delays \cup {0}, AttemptEnds(t, o, d) /\ (o = "ask" => d # 0) PROVE TypeOK'
  BY <1>4 DEF AttemptEnds, At, Move, NoteAttempt, Moot, Grants, TypeOK, vars, taskVars, managerVars, stopVars, historyVars
<1>5. ASSUME NEW t \in Tasks, Crash(t) PROVE TypeOK'
  BY <1>5 DEF Crash, At, Move, TypeOK, vars, taskVars, managerVars, stopVars, historyVars
<1>6. ASSUME NEW t \in Tasks, NoteSent(t) PROVE TypeOK'
  BY <1>6 DEF NoteSent, At, Move, TypeOK, vars, taskVars, managerVars, stopVars, historyVars
<1>7. ASSUME NEW t \in Tasks, Wake(t) PROVE TypeOK'
  BY <1>7 DEF Wake, At, Move, TypeOK, vars, taskVars, managerVars, stopVars, historyVars
<1>8. ASSUME NEW t \in Tasks, WriteResult(t) PROVE TypeOK'
  BY <1>8 DEF WriteResult, At, Move, TypeOK, vars, taskVars, managerVars, stopVars, historyVars
<1>9. ASSUME NEW t \in Tasks, SendReturns(t) PROVE TypeOK'
  BY <1>9 DEF SendReturns, AfterSend, At, Move, TypeOK, vars, taskVars, managerVars, stopVars, historyVars
<1>10. ASSUME NEW t \in Tasks, SendFails(t) PROVE TypeOK'
  BY <1>10 DEF SendFails, AfterSend, At, Move, TypeOK, vars, taskVars, managerVars, stopVars, historyVars
<1>11. ASSUME NEW t \in Tasks, HookEnds(t) PROVE TypeOK'
  BY <1>11 DEF HookEnds, At, Move, TypeOK, vars, taskVars, managerVars, stopVars, historyVars
<1>12. ASSUME NEW t \in Tasks, CancelThrown(t) PROVE TypeOK'
  BY <1>12 DEF CancelThrown, Move, TypeOK, vars, taskVars, managerVars, stopVars, historyVars
<1>13. ASSUME NEW t \in Tasks, FinishJob(t) PROVE TypeOK'
  BY <1>13 DEF FinishJob, Forgotten, Move, TypeOK, vars, taskVars, managerVars, stopVars, historyVars
<1>14. CASE Tick
  BY <1>14 DEF Tick, TypeOK, vars, taskVars, managerVars, stopVars, historyVars
<1>15. CASE BeginShutdown
  BY <1>15 DEF BeginShutdown, ActiveTasks, Active, TypeOK, vars, taskVars, managerVars, stopVars, historyVars
<1>16. CASE SessionFails
  BY <1>16 DEF SessionFails, TypeOK, vars, taskVars, managerVars, stopVars, historyVars
<1>17. CASE BeginTelling
  BY <1>17 DEF BeginTelling, Settled, TypeOK, vars, taskVars, managerVars, stopVars, historyVars
<1>18. ASSUME NEW t \in toTell, Tell(t) PROVE TypeOK'
  BY <1>18 DEF Tell, TypeOK, vars, taskVars, managerVars, stopVars, historyVars
<1>19. CASE CloseSocket
  BY <1>19 DEF CloseSocket, TypeOK, vars, taskVars, managerVars, stopVars, historyVars
<1>20. CASE EndSession
  BY <1>20 DEF EndSession, ActiveTasks, Active, TypeOK, vars, taskVars, managerVars, stopVars, historyVars
<1>21. CASE SessionOver
  BY <1>21 DEF SessionOver, Settled, TypeOK, vars, taskVars, managerVars, stopVars, historyVars
<1>22. CASE UNCHANGED vars
  BY <1>22 DEF vars, TypeOK, vars, taskVars, managerVars, stopVars, historyVars
<1>23. QED
  BY <1>1, <1>2, <1>3, <1>4, <1>5, <1>6, <1>7, <1>8, <1>9, <1>10, <1>11, <1>12, <1>13, <1>14, <1>15, <1>16, <1>17, <1>18, <1>19, <1>20, <1>21, <1>22 DEF Next, TaskStep, TaskMoves, StopStep

\* Every step keeps the ownership of request ids.
LEMMA NextOwned == IInv /\ [Next]_vars => Owned'
<1> SUFFICES ASSUME IInv, [Next]_vars PROVE Owned'
  OBVIOUS
<1> USE JobAssumption DEF IInv, TypeOK, Owned, Live, Places
<1>1. ASSUME NEW t \in Tasks, NEW r \in Rids, NEW c \in Commands, Start(t, r, c) PROVE Owned'
  BY <1>1 DEF Start, Move, Active, Owned, vars, taskVars, managerVars, stopVars, historyVars
<1>2. ASSUME NEW r \in Rids, NEW c \in Commands, NEW valid \in BOOLEAN, Refuse(r, c, valid) PROVE Owned'
  BY <1>2 DEF Refuse, Owned, vars, taskVars, managerVars, stopVars, historyVars
<1>3. ASSUME NEW t \in Tasks, Acquire(t) PROVE Owned'
  BY <1>3 DEF Acquire, At, Move, NoteAttempt, Opened, Owned, vars, taskVars, managerVars, stopVars, historyVars
<1>4. ASSUME NEW t \in Tasks, NEW o \in {"success", "failure", "ask"}, NEW d \in Delays \cup {0}, AttemptEnds(t, o, d) /\ (o = "ask" => d # 0) PROVE Owned'
  BY <1>4 DEF AttemptEnds, At, Move, NoteAttempt, Moot, Grants, Owned, vars, taskVars, managerVars, stopVars, historyVars
<1>5. ASSUME NEW t \in Tasks, Crash(t) PROVE Owned'
  BY <1>5 DEF Crash, At, Move, Owned, vars, taskVars, managerVars, stopVars, historyVars
<1>6. ASSUME NEW t \in Tasks, NoteSent(t) PROVE Owned'
  BY <1>6 DEF NoteSent, At, Move, Owned, vars, taskVars, managerVars, stopVars, historyVars
<1>7. ASSUME NEW t \in Tasks, Wake(t) PROVE Owned'
  BY <1>7 DEF Wake, At, Move, Owned, vars, taskVars, managerVars, stopVars, historyVars
<1>8. ASSUME NEW t \in Tasks, WriteResult(t) PROVE Owned'
  BY <1>8 DEF WriteResult, At, Move, Owned, vars, taskVars, managerVars, stopVars, historyVars
<1>9. ASSUME NEW t \in Tasks, SendReturns(t) PROVE Owned'
  BY <1>9 DEF SendReturns, AfterSend, At, Move, Owned, vars, taskVars, managerVars, stopVars, historyVars
<1>10. ASSUME NEW t \in Tasks, SendFails(t) PROVE Owned'
  BY <1>10 DEF SendFails, AfterSend, At, Move, Owned, vars, taskVars, managerVars, stopVars, historyVars
<1>11. ASSUME NEW t \in Tasks, HookEnds(t) PROVE Owned'
  BY <1>11 DEF HookEnds, At, Move, Owned, vars, taskVars, managerVars, stopVars, historyVars
<1>12. ASSUME NEW t \in Tasks, CancelThrown(t) PROVE Owned'
  BY <1>12 DEF CancelThrown, Move, Owned, vars, taskVars, managerVars, stopVars, historyVars
<1>13. ASSUME NEW t \in Tasks, FinishJob(t) PROVE Owned'
  BY <1>13 DEF FinishJob, Forgotten, Move, Owned, vars, taskVars, managerVars, stopVars, historyVars
<1>14. CASE Tick
  BY <1>14 DEF Tick, Owned, vars, taskVars, managerVars, stopVars, historyVars
<1>15. CASE BeginShutdown
  BY <1>15 DEF BeginShutdown, ActiveTasks, Active, Owned, vars, taskVars, managerVars, stopVars, historyVars
<1>16. CASE SessionFails
  BY <1>16 DEF SessionFails, Owned, vars, taskVars, managerVars, stopVars, historyVars
<1>17. CASE BeginTelling
  BY <1>17 DEF BeginTelling, Settled, Owned, vars, taskVars, managerVars, stopVars, historyVars
<1>18. ASSUME NEW t \in toTell, Tell(t) PROVE Owned'
  BY <1>18 DEF Tell, Owned, vars, taskVars, managerVars, stopVars, historyVars
<1>19. CASE CloseSocket
  BY <1>19 DEF CloseSocket, Owned, vars, taskVars, managerVars, stopVars, historyVars
<1>20. CASE EndSession
  BY <1>20 DEF EndSession, ActiveTasks, Active, Owned, vars, taskVars, managerVars, stopVars, historyVars
<1>21. CASE SessionOver
  BY <1>21 DEF SessionOver, Settled, Owned, vars, taskVars, managerVars, stopVars, historyVars
<1>22. CASE UNCHANGED vars
  BY <1>22 DEF vars, Owned, vars, taskVars, managerVars, stopVars, historyVars
<1>23. QED
  BY <1>1, <1>2, <1>3, <1>4, <1>5, <1>6, <1>7, <1>8, <1>9, <1>10, <1>11, <1>12, <1>13, <1>14, <1>15, <1>16, <1>17, <1>18, <1>19, <1>20, <1>21, <1>22 DEF Next, TaskStep, TaskMoves, StopStep

\* Every step keeps _terminal_attempts exact.
LEMMA NextAttempted == IInv /\ [Next]_vars => Attempted'
<1> SUFFICES ASSUME IInv, [Next]_vars PROVE Attempted'
  OBVIOUS
<1> USE JobAssumption DEF IInv, TypeOK, Owned, Attempted, Live, Places
<1>1. ASSUME NEW t \in Tasks, NEW r \in Rids, NEW c \in Commands, Start(t, r, c) PROVE Attempted'
  BY <1>1 DEF Start, Move, Active, Attempted, vars, taskVars, managerVars, stopVars, historyVars
<1>2. ASSUME NEW r \in Rids, NEW c \in Commands, NEW valid \in BOOLEAN, Refuse(r, c, valid) PROVE Attempted'
  BY <1>2 DEF Refuse, Attempted, vars, taskVars, managerVars, stopVars, historyVars
<1>3. ASSUME NEW t \in Tasks, Acquire(t) PROVE Attempted'
  BY <1>3 DEF Acquire, At, Move, NoteAttempt, Opened, Attempted, vars, taskVars, managerVars, stopVars, historyVars
<1>4. ASSUME NEW t \in Tasks, NEW o \in {"success", "failure", "ask"}, NEW d \in Delays \cup {0}, AttemptEnds(t, o, d) /\ (o = "ask" => d # 0) PROVE Attempted'
  BY <1>4 DEF AttemptEnds, At, Move, NoteAttempt, Moot, Grants, Attempted, vars, taskVars, managerVars, stopVars, historyVars
<1>5. ASSUME NEW t \in Tasks, Crash(t) PROVE Attempted'
  BY <1>5 DEF Crash, At, Move, Attempted, vars, taskVars, managerVars, stopVars, historyVars
<1>6. ASSUME NEW t \in Tasks, NoteSent(t) PROVE Attempted'
  BY <1>6 DEF NoteSent, At, Move, Attempted, vars, taskVars, managerVars, stopVars, historyVars
<1>7. ASSUME NEW t \in Tasks, Wake(t) PROVE Attempted'
  BY <1>7 DEF Wake, At, Move, Attempted, vars, taskVars, managerVars, stopVars, historyVars
<1>8. ASSUME NEW t \in Tasks, WriteResult(t) PROVE Attempted'
  BY <1>8 DEF WriteResult, At, Move, Attempted, vars, taskVars, managerVars, stopVars, historyVars
<1>9. ASSUME NEW t \in Tasks, SendReturns(t) PROVE Attempted'
  BY <1>9 DEF SendReturns, AfterSend, At, Move, Attempted, vars, taskVars, managerVars, stopVars, historyVars
<1>10. ASSUME NEW t \in Tasks, SendFails(t) PROVE Attempted'
  BY <1>10 DEF SendFails, AfterSend, At, Move, Attempted, vars, taskVars, managerVars, stopVars, historyVars
<1>11. ASSUME NEW t \in Tasks, HookEnds(t) PROVE Attempted'
  BY <1>11 DEF HookEnds, At, Move, Attempted, vars, taskVars, managerVars, stopVars, historyVars
<1>12. ASSUME NEW t \in Tasks, CancelThrown(t) PROVE Attempted'
  BY <1>12 DEF CancelThrown, Move, Attempted, vars, taskVars, managerVars, stopVars, historyVars
<1>13. ASSUME NEW t \in Tasks, FinishJob(t) PROVE Attempted'
  BY <1>13 DEF FinishJob, Forgotten, Move, Attempted, vars, taskVars, managerVars, stopVars, historyVars
<1>14. CASE Tick
  BY <1>14 DEF Tick, Attempted, vars, taskVars, managerVars, stopVars, historyVars
<1>15. CASE BeginShutdown
  BY <1>15 DEF BeginShutdown, ActiveTasks, Active, Attempted, vars, taskVars, managerVars, stopVars, historyVars
<1>16. CASE SessionFails
  BY <1>16 DEF SessionFails, Attempted, vars, taskVars, managerVars, stopVars, historyVars
<1>17. CASE BeginTelling
  BY <1>17 DEF BeginTelling, Settled, Attempted, vars, taskVars, managerVars, stopVars, historyVars
<1>18. ASSUME NEW t \in toTell, Tell(t) PROVE Attempted'
  BY <1>18 DEF Tell, Attempted, vars, taskVars, managerVars, stopVars, historyVars
<1>19. CASE CloseSocket
  BY <1>19 DEF CloseSocket, Attempted, vars, taskVars, managerVars, stopVars, historyVars
<1>20. CASE EndSession
  BY <1>20 DEF EndSession, ActiveTasks, Active, Attempted, vars, taskVars, managerVars, stopVars, historyVars
<1>21. CASE SessionOver
  BY <1>21 DEF SessionOver, Settled, Attempted, vars, taskVars, managerVars, stopVars, historyVars
<1>22. CASE UNCHANGED vars
  BY <1>22 DEF vars, Attempted, vars, taskVars, managerVars, stopVars, historyVars
<1>23. QED
  BY <1>1, <1>2, <1>3, <1>4, <1>5, <1>6, <1>7, <1>8, <1>9, <1>10, <1>11, <1>12, <1>13, <1>14, <1>15, <1>16, <1>17, <1>18, <1>19, <1>20, <1>21, <1>22 DEF Next, TaskStep, TaskMoves, StopStep

\* Every step keeps what was told fitting.
LEMMA NextTold == IInv /\ [Next]_vars => ToldFits'
<1> SUFFICES ASSUME IInv, [Next]_vars PROVE ToldFits'
  OBVIOUS
<1> USE JobAssumption DEF IInv, TypeOK, Owned, Attempted, ToldFits, StopReaches, Live, Places
<1>1. ASSUME NEW t \in Tasks, NEW r \in Rids, NEW c \in Commands, Start(t, r, c) PROVE ToldFits'
  BY <1>1 DEF Start, Move, Active, ToldFits, vars, taskVars, managerVars, stopVars, historyVars
<1>2. ASSUME NEW r \in Rids, NEW c \in Commands, NEW valid \in BOOLEAN, Refuse(r, c, valid) PROVE ToldFits'
  BY <1>2 DEF Refuse, ToldFits, vars, taskVars, managerVars, stopVars, historyVars
<1>3. ASSUME NEW t \in Tasks, Acquire(t) PROVE ToldFits'
  BY <1>3 DEF Acquire, At, Move, NoteAttempt, Opened, ToldFits, vars, taskVars, managerVars, stopVars, historyVars
<1>4. ASSUME NEW t \in Tasks, NEW o \in {"success", "failure", "ask"}, NEW d \in Delays \cup {0}, AttemptEnds(t, o, d) /\ (o = "ask" => d # 0) PROVE ToldFits'
  BY <1>4 DEF AttemptEnds, At, Move, NoteAttempt, Moot, Grants, ToldFits, vars, taskVars, managerVars, stopVars, historyVars
<1>5. ASSUME NEW t \in Tasks, Crash(t) PROVE ToldFits'
  BY <1>5 DEF Crash, At, Move, ToldFits, vars, taskVars, managerVars, stopVars, historyVars
<1>6. ASSUME NEW t \in Tasks, NoteSent(t) PROVE ToldFits'
  BY <1>6 DEF NoteSent, At, Move, ToldFits, vars, taskVars, managerVars, stopVars, historyVars
<1>7. ASSUME NEW t \in Tasks, Wake(t) PROVE ToldFits'
  BY <1>7 DEF Wake, At, Move, ToldFits, vars, taskVars, managerVars, stopVars, historyVars
<1>8. ASSUME NEW t \in Tasks, WriteResult(t) PROVE ToldFits'
  BY <1>8 DEF WriteResult, At, Move, ToldFits, vars, taskVars, managerVars, stopVars, historyVars
<1>9. ASSUME NEW t \in Tasks, SendReturns(t) PROVE ToldFits'
  BY <1>9 DEF SendReturns, AfterSend, At, Move, ToldFits, vars, taskVars, managerVars, stopVars, historyVars
<1>10. ASSUME NEW t \in Tasks, SendFails(t) PROVE ToldFits'
  BY <1>10 DEF SendFails, AfterSend, At, Move, ToldFits, vars, taskVars, managerVars, stopVars, historyVars
<1>11. ASSUME NEW t \in Tasks, HookEnds(t) PROVE ToldFits'
  BY <1>11 DEF HookEnds, At, Move, ToldFits, vars, taskVars, managerVars, stopVars, historyVars
<1>12. ASSUME NEW t \in Tasks, CancelThrown(t) PROVE ToldFits'
  BY <1>12 DEF CancelThrown, Move, ToldFits, vars, taskVars, managerVars, stopVars, historyVars
<1>13. ASSUME NEW t \in Tasks, FinishJob(t) PROVE ToldFits'
  BY <1>13 DEF FinishJob, Forgotten, Move, ToldFits, vars, taskVars, managerVars, stopVars, historyVars
<1>14. CASE Tick
  BY <1>14 DEF Tick, ToldFits, vars, taskVars, managerVars, stopVars, historyVars
<1>15. CASE BeginShutdown
  BY <1>15 DEF BeginShutdown, ActiveTasks, Active, ToldFits, vars, taskVars, managerVars, stopVars, historyVars
<1>16. CASE SessionFails
  BY <1>16 DEF SessionFails, ToldFits, vars, taskVars, managerVars, stopVars, historyVars
<1>17. CASE BeginTelling
  BY <1>17 DEF BeginTelling, Settled, ToldFits, vars, taskVars, managerVars, stopVars, historyVars
<1>18. ASSUME NEW t \in toTell, Tell(t) PROVE ToldFits'
  BY <1>18 DEF Tell, ToldFits, vars, taskVars, managerVars, stopVars, historyVars
<1>19. CASE CloseSocket
  BY <1>19 DEF CloseSocket, ToldFits, vars, taskVars, managerVars, stopVars, historyVars
<1>20. CASE EndSession
  BY <1>20 DEF EndSession, ActiveTasks, Active, ToldFits, vars, taskVars, managerVars, stopVars, historyVars
<1>21. CASE SessionOver
  BY <1>21 DEF SessionOver, Settled, ToldFits, vars, taskVars, managerVars, stopVars, historyVars
<1>22. CASE UNCHANGED vars
  BY <1>22 DEF vars, ToldFits, vars, taskVars, managerVars, stopVars, historyVars
<1>23. QED
  BY <1>1, <1>2, <1>3, <1>4, <1>5, <1>6, <1>7, <1>8, <1>9, <1>10, <1>11, <1>12, <1>13, <1>14, <1>15, <1>16, <1>17, <1>18, <1>19, <1>20, <1>21, <1>22 DEF Next, TaskStep, TaskMoves, StopStep

\* Every step keeps the end of the session within reach of every task.
LEMMA NextStop == IInv /\ [Next]_vars => StopReaches'
<1> SUFFICES ASSUME IInv, [Next]_vars PROVE StopReaches'
  OBVIOUS
<1> USE JobAssumption DEF IInv, TypeOK, Owned, Attempted, ToldFits, StopReaches, Live, Places
<1>1. ASSUME NEW t \in Tasks, NEW r \in Rids, NEW c \in Commands, Start(t, r, c) PROVE StopReaches'
  BY <1>1 DEF Start, Move, Active, StopReaches, vars, taskVars, managerVars, stopVars, historyVars
<1>2. ASSUME NEW r \in Rids, NEW c \in Commands, NEW valid \in BOOLEAN, Refuse(r, c, valid) PROVE StopReaches'
  BY <1>2 DEF Refuse, StopReaches, vars, taskVars, managerVars, stopVars, historyVars
<1>3. ASSUME NEW t \in Tasks, Acquire(t) PROVE StopReaches'
  BY <1>3 DEF Acquire, At, Move, NoteAttempt, Opened, StopReaches, vars, taskVars, managerVars, stopVars, historyVars
<1>4. ASSUME NEW t \in Tasks, NEW o \in {"success", "failure", "ask"}, NEW d \in Delays \cup {0}, AttemptEnds(t, o, d) /\ (o = "ask" => d # 0) PROVE StopReaches'
  BY <1>4 DEF AttemptEnds, At, Move, NoteAttempt, Moot, Grants, StopReaches, vars, taskVars, managerVars, stopVars, historyVars
<1>5. ASSUME NEW t \in Tasks, Crash(t) PROVE StopReaches'
  BY <1>5 DEF Crash, At, Move, StopReaches, vars, taskVars, managerVars, stopVars, historyVars
<1>6. ASSUME NEW t \in Tasks, NoteSent(t) PROVE StopReaches'
  BY <1>6 DEF NoteSent, At, Move, StopReaches, vars, taskVars, managerVars, stopVars, historyVars
<1>7. ASSUME NEW t \in Tasks, Wake(t) PROVE StopReaches'
  BY <1>7 DEF Wake, At, Move, StopReaches, vars, taskVars, managerVars, stopVars, historyVars
<1>8. ASSUME NEW t \in Tasks, WriteResult(t) PROVE StopReaches'
  BY <1>8 DEF WriteResult, At, Move, StopReaches, vars, taskVars, managerVars, stopVars, historyVars
<1>9. ASSUME NEW t \in Tasks, SendReturns(t) PROVE StopReaches'
  BY <1>9 DEF SendReturns, AfterSend, At, Move, StopReaches, vars, taskVars, managerVars, stopVars, historyVars
<1>10. ASSUME NEW t \in Tasks, SendFails(t) PROVE StopReaches'
  BY <1>10 DEF SendFails, AfterSend, At, Move, StopReaches, vars, taskVars, managerVars, stopVars, historyVars
<1>11. ASSUME NEW t \in Tasks, HookEnds(t) PROVE StopReaches'
  BY <1>11 DEF HookEnds, At, Move, StopReaches, vars, taskVars, managerVars, stopVars, historyVars
<1>12. ASSUME NEW t \in Tasks, CancelThrown(t) PROVE StopReaches'
  BY <1>12 DEF CancelThrown, Move, StopReaches, vars, taskVars, managerVars, stopVars, historyVars
<1>13. ASSUME NEW t \in Tasks, FinishJob(t) PROVE StopReaches'
  BY <1>13 DEF FinishJob, Forgotten, Move, StopReaches, vars, taskVars, managerVars, stopVars, historyVars
<1>14. CASE Tick
  BY <1>14 DEF Tick, StopReaches, vars, taskVars, managerVars, stopVars, historyVars
<1>15. CASE BeginShutdown
  BY <1>15 DEF BeginShutdown, ActiveTasks, Active, StopReaches, vars, taskVars, managerVars, stopVars, historyVars
<1>16. CASE SessionFails
  BY <1>16 DEF SessionFails, StopReaches, vars, taskVars, managerVars, stopVars, historyVars
<1>17. CASE BeginTelling
  BY <1>17 DEF BeginTelling, Settled, StopReaches, vars, taskVars, managerVars, stopVars, historyVars
<1>18. ASSUME NEW t \in toTell, Tell(t) PROVE StopReaches'
  BY <1>18 DEF Tell, StopReaches, vars, taskVars, managerVars, stopVars, historyVars
<1>19. CASE CloseSocket
  BY <1>19 DEF CloseSocket, StopReaches, vars, taskVars, managerVars, stopVars, historyVars
<1>20. CASE EndSession
  BY <1>20 DEF EndSession, ActiveTasks, Active, StopReaches, vars, taskVars, managerVars, stopVars, historyVars
<1>21. CASE SessionOver
  BY <1>21 DEF SessionOver, Settled, StopReaches, vars, taskVars, managerVars, stopVars, historyVars
<1>22. CASE UNCHANGED vars
  BY <1>22 DEF vars, StopReaches, vars, taskVars, managerVars, stopVars, historyVars
<1>23. QED
  BY <1>1, <1>2, <1>3, <1>4, <1>5, <1>6, <1>7, <1>8, <1>9, <1>10, <1>11, <1>12, <1>13, <1>14, <1>15, <1>16, <1>17, <1>18, <1>19, <1>20, <1>21, <1>22 DEF Next, TaskStep, TaskMoves, StopStep

\* The inductive invariant holds of every reachable state.
THEOREM Invariance == Spec => []IInv
<1>1. IInv /\ [Next]_vars => IInv'
  BY NextType, NextOwned, NextAttempted, NextTold, NextStop DEF IInv
<1>2. QED
  BY InitIInv, <1>1, PTL DEF Spec

\* Type correctness of the job manager (commands/jobs.py, class JobManager) and of
\* the tasks it owns, for any number of tasks, request ids and permits.
THEOREM TypeCorrect == Spec => []TypeOK
BY Invariance, PTL DEF IInv

\* No command is both answered and called cancelled (_send_result against
\* shutdown_all), whatever its handler does with the cancellation.
THEOREM TerminalOnce == Spec => []OneTerminal
<1>1. IInv => OneTerminal
  BY DEF IInv, ToldFits, OneTerminal
<1>2. QED
  BY <1>1, Invariance, PTL

\* Every live task is the one _jobs names, and none outlives its session (start,
\* _finish_job, shutdown_all).
THEOREM TasksOwned == Spec => []NoOrphan
<1>1. IInv => NoOrphan
  BY DEF IInv, Owned, StopReaches, NoOrphan
<1>2. QED
  BY <1>1, Invariance, PTL

\* A command is told cancelled only when its task has ended (shutdown_all gathers
\* before it tells).
THEOREM CancelledLast == Spec => []CancelledIsLast
<1>1. IInv => CancelledIsLast
  BY DEF IInv, ToldFits, CancelledIsLast, Live
<1>2. QED
  BY <1>1, Invariance, PTL

----------------------------------------------------------------------------
\* The length of a task's window, 0 without one.
Span(t) == IF Window[cmd[t]] < 0 THEN 0 ELSE Window[cmd[t]]

\* The retry budget of _run: what is left of the window pays for the attempts still
\* to come, also while the job waits for its note, its park or its permit.
Budget ==
    /\ \A t \in Tasks : attempts[t] > 0 => Live(t) \/ pc[t] = "done"
    /\ \A t \in Tasks : attempts[t] > 0 => attempts[t] =< 1 + Span(t)
    /\ \A t \in Tasks : pc[t] = "running" => attempts[t] > 0 /\ left[t] =< 1 + Span(t) - attempts[t]
    /\ \A t \in Tasks : /\ pc[t] \in {"note", "parked", "queued"} /\ attempts[t] > 0
                        => left[t] < 0 \/ left[t] - park[t] =< Span(t) - attempts[t]
    /\ \A t \in Tasks : pc[t] = "queued" /\ attempts[t] > 0 => park[t] = 0

\* Every step keeps the budget.
LEMMA NextBudget == IInv /\ Budget /\ [Next]_vars => Budget'
<1> SUFFICES ASSUME IInv, Budget, [Next]_vars PROVE Budget'
  OBVIOUS
<1> USE JobAssumption DEF Budget, Span, IInv, TypeOK, Owned, Live
<1>1. ASSUME NEW t \in Tasks, NEW r \in Rids, NEW c \in Commands, Start(t, r, c) PROVE Budget'
  BY <1>1 DEF Start, Move, Active, Budget, Span, vars, taskVars, managerVars, stopVars, historyVars
<1>2. ASSUME NEW r \in Rids, NEW c \in Commands, NEW valid \in BOOLEAN, Refuse(r, c, valid) PROVE Budget'
  BY <1>2 DEF Refuse, Budget, Span, vars, taskVars, managerVars, stopVars, historyVars
<1>3. ASSUME NEW t \in Tasks, Acquire(t) PROVE Budget'
  BY <1>3 DEF Acquire, At, Move, NoteAttempt, Opened, Budget, Span, vars, taskVars, managerVars, stopVars, historyVars
<1>4. ASSUME NEW t \in Tasks, NEW o \in {"success", "failure", "ask"}, NEW d \in Delays \cup {0}, AttemptEnds(t, o, d) /\ (o = "ask" => d # 0) PROVE Budget'
  BY <1>4 DEF AttemptEnds, At, Move, NoteAttempt, Moot, Grants, Budget, Span, vars, taskVars, managerVars, stopVars, historyVars
<1>5. ASSUME NEW t \in Tasks, Crash(t) PROVE Budget'
  BY <1>5 DEF Crash, At, Move, Budget, Span, vars, taskVars, managerVars, stopVars, historyVars
<1>6. ASSUME NEW t \in Tasks, NoteSent(t) PROVE Budget'
  BY <1>6 DEF NoteSent, At, Move, Budget, Span, vars, taskVars, managerVars, stopVars, historyVars
<1>7. ASSUME NEW t \in Tasks, Wake(t) PROVE Budget'
  BY <1>7 DEF Wake, At, Move, Budget, Span, vars, taskVars, managerVars, stopVars, historyVars
<1>8. ASSUME NEW t \in Tasks, WriteResult(t) PROVE Budget'
  BY <1>8 DEF WriteResult, At, Move, Budget, Span, vars, taskVars, managerVars, stopVars, historyVars
<1>9. ASSUME NEW t \in Tasks, SendReturns(t) PROVE Budget'
  BY <1>9 DEF SendReturns, AfterSend, At, Move, Budget, Span, vars, taskVars, managerVars, stopVars, historyVars
<1>10. ASSUME NEW t \in Tasks, SendFails(t) PROVE Budget'
  BY <1>10 DEF SendFails, AfterSend, At, Move, Budget, Span, vars, taskVars, managerVars, stopVars, historyVars
<1>11. ASSUME NEW t \in Tasks, HookEnds(t) PROVE Budget'
  BY <1>11 DEF HookEnds, At, Move, Budget, Span, vars, taskVars, managerVars, stopVars, historyVars
<1>12. ASSUME NEW t \in Tasks, CancelThrown(t) PROVE Budget'
  BY <1>12 DEF CancelThrown, Move, Budget, Span, vars, taskVars, managerVars, stopVars, historyVars
<1>13. ASSUME NEW t \in Tasks, FinishJob(t) PROVE Budget'
  BY <1>13 DEF FinishJob, Forgotten, Move, Budget, Span, vars, taskVars, managerVars, stopVars, historyVars
<1>14. CASE Tick
  BY <1>14 DEF Tick, Budget, Span, vars, taskVars, managerVars, stopVars, historyVars
<1>15. CASE BeginShutdown
  BY <1>15 DEF BeginShutdown, ActiveTasks, Active, Budget, Span, vars, taskVars, managerVars, stopVars, historyVars
<1>16. CASE SessionFails
  BY <1>16 DEF SessionFails, Budget, Span, vars, taskVars, managerVars, stopVars, historyVars
<1>17. CASE BeginTelling
  BY <1>17 DEF BeginTelling, Settled, Budget, Span, vars, taskVars, managerVars, stopVars, historyVars
<1>18. ASSUME NEW t \in toTell, Tell(t) PROVE Budget'
  BY <1>18 DEF Tell, Budget, Span, vars, taskVars, managerVars, stopVars, historyVars
<1>19. CASE CloseSocket
  BY <1>19 DEF CloseSocket, Budget, Span, vars, taskVars, managerVars, stopVars, historyVars
<1>20. CASE EndSession
  BY <1>20 DEF EndSession, ActiveTasks, Active, Budget, Span, vars, taskVars, managerVars, stopVars, historyVars
<1>21. CASE SessionOver
  BY <1>21 DEF SessionOver, Settled, Budget, Span, vars, taskVars, managerVars, stopVars, historyVars
<1>22. CASE UNCHANGED vars
  BY <1>22 DEF vars, Budget, Span, vars, taskVars, managerVars, stopVars, historyVars
<1>23. QED
  BY <1>1, <1>2, <1>3, <1>4, <1>5, <1>6, <1>7, <1>8, <1>9, <1>10, <1>11, <1>12, <1>13, <1>14, <1>15, <1>16, <1>17, <1>18, <1>19, <1>20, <1>21, <1>22 DEF Next, TaskStep, TaskMoves, StopStep

\* Retries are bounded: no handler, however often it asks, runs more often than its
\* window has units, plus one (_run, _RetryWindow).
THEOREM RetriesBounded == Spec => []AttemptsBounded
<1>1. Init => Budget
  BY JobAssumption DEF Init, Budget
<1>2. Spec => []Budget
  BY <1>1, NextBudget, Invariance, PTL DEF Spec
<1>3. Budget => AttemptsBounded
  BY DEF Budget, Span, AttemptsBounded
<1>4. QED
  BY <1>2, <1>3, PTL

----------------------------------------------------------------------------
\* The quota commands that are accepted and unfinished: as tasks, and as the ids that
\* should_shed_quota() counts.
QuotaTasks == {t \in Tasks : Live(t) /\ cmd[t] = Quota}
QuotaIds == {r \in Active : cmd[jobs[r]] = Quota}

\* Every live quota task is counted under an id of its own.
LEMMA QuotaCounted ==
    ASSUME IInv
    PROVE  IsFiniteSet(QuotaTasks) /\ IsFiniteSet(QuotaIds) /\ Cardinality(QuotaTasks) =< Cardinality(QuotaIds)
<1> USE DEF IInv, TypeOK, Owned, Live, Active
<1>1. IsFiniteSet(Tasks)
  BY JobAssumption, FS_Interval DEF Tasks
<1>2. IsFiniteSet(QuotaTasks)
  BY <1>1, FS_Subset DEF QuotaTasks
<1>3. [r \in QuotaIds |-> jobs[r]] \in Injection(QuotaIds, Tasks)
  BY JobAssumption DEF QuotaIds, Injection, IsInjective
<1>4. IsFiniteSet(QuotaIds)
  BY <1>1, <1>3, FS_Injection
<1>5. [t \in QuotaTasks |-> rid[t]] \in Injection(QuotaTasks, QuotaIds)
  BY JobAssumption DEF QuotaTasks, QuotaIds, Injection, IsInjective
<1>6. QED
  BY <1>2, <1>4, <1>5, FS_Injection

\* Only an admission adds to the quota tasks.
LEMMA QuotaShrinks ==
    ASSUME IInv, [Next]_vars,
           ~ \E t \in Tasks, r \in Rids, c \in Commands : Start(t, r, c) /\ c = Quota
    PROVE  QuotaTasks' \subseteq QuotaTasks
<1> SUFFICES ASSUME NEW u \in Tasks, Live(u)', cmd'[u] = Quota PROVE Live(u) /\ cmd[u] = Quota
  BY DEF QuotaTasks
<1> USE JobAssumption DEF IInv, TypeOK, Live
<1>1. ASSUME NEW t \in Tasks, NEW r \in Rids, NEW c \in Commands, Start(t, r, c) PROVE Live(u) /\ cmd[u] = Quota
  BY <1>1 DEF Start, Move, vars, taskVars, managerVars, stopVars, historyVars
<1>2. ASSUME NEW r \in Rids, NEW c \in Commands, NEW valid \in BOOLEAN, Refuse(r, c, valid) PROVE Live(u) /\ cmd[u] = Quota
  BY <1>2 DEF Refuse, vars, taskVars, managerVars, stopVars, historyVars
<1>3. ASSUME NEW t \in Tasks, Acquire(t) PROVE Live(u) /\ cmd[u] = Quota
  BY <1>3 DEF Acquire, At, Move, vars, taskVars, managerVars, stopVars, historyVars
<1>4. ASSUME NEW t \in Tasks, NEW o, NEW d, AttemptEnds(t, o, d) PROVE Live(u) /\ cmd[u] = Quota
  BY <1>4 DEF AttemptEnds, At, Move, Moot, vars, taskVars, managerVars, stopVars, historyVars
<1>5. ASSUME NEW t \in Tasks, Crash(t) PROVE Live(u) /\ cmd[u] = Quota
  BY <1>5 DEF Crash, At, Move, vars, taskVars, managerVars, stopVars, historyVars
<1>6. ASSUME NEW t \in Tasks, NoteSent(t) PROVE Live(u) /\ cmd[u] = Quota
  BY <1>6 DEF NoteSent, At, Move, vars, taskVars, managerVars, stopVars, historyVars
<1>7. ASSUME NEW t \in Tasks, Wake(t) PROVE Live(u) /\ cmd[u] = Quota
  BY <1>7 DEF Wake, At, Move, vars, taskVars, managerVars, stopVars, historyVars
<1>8. ASSUME NEW t \in Tasks, WriteResult(t) PROVE Live(u) /\ cmd[u] = Quota
  BY <1>8 DEF WriteResult, At, Move, vars, taskVars, managerVars, stopVars, historyVars
<1>9. ASSUME NEW t \in Tasks, HookEnds(t) PROVE Live(u) /\ cmd[u] = Quota
  BY <1>9 DEF HookEnds, At, Move, vars, taskVars, managerVars, stopVars, historyVars
<1>10. ASSUME NEW t \in Tasks, SendReturns(t) PROVE Live(u) /\ cmd[u] = Quota
  BY <1>10 DEF SendReturns, AfterSend, At, Move, vars, taskVars, managerVars, stopVars, historyVars
<1>11. ASSUME NEW t \in Tasks, SendFails(t) PROVE Live(u) /\ cmd[u] = Quota
  BY <1>11 DEF SendFails, AfterSend, At, Move, vars, taskVars, managerVars, stopVars, historyVars
<1>12. ASSUME NEW t \in Tasks, CancelThrown(t) PROVE Live(u) /\ cmd[u] = Quota
  BY <1>12 DEF CancelThrown, Move, vars, taskVars, managerVars, stopVars, historyVars
<1>13. ASSUME NEW t \in Tasks, FinishJob(t) PROVE Live(u) /\ cmd[u] = Quota
  BY <1>13 DEF FinishJob, Forgotten, Move, vars, taskVars, managerVars, stopVars, historyVars
<1>14. ASSUME NEW t \in toTell, Tell(t) PROVE Live(u) /\ cmd[u] = Quota
  BY <1>14 DEF Tell, vars, taskVars, managerVars, stopVars, historyVars
<1>15. CASE Tick
  BY <1>15 DEF Tick, vars, taskVars, managerVars, stopVars, historyVars
<1>16. CASE BeginShutdown
  BY <1>16 DEF BeginShutdown, vars, taskVars, managerVars, stopVars, historyVars
<1>17. CASE SessionFails
  BY <1>17 DEF SessionFails, vars, taskVars, managerVars, stopVars, historyVars
<1>18. CASE BeginTelling
  BY <1>18 DEF BeginTelling, vars, taskVars, managerVars, stopVars, historyVars
<1>19. CASE CloseSocket
  BY <1>19 DEF CloseSocket, vars, taskVars, managerVars, stopVars, historyVars
<1>20. CASE EndSession
  BY <1>20 DEF EndSession, vars, taskVars, managerVars, stopVars, historyVars
<1>21. CASE SessionOver
  BY <1>21 DEF SessionOver, vars, taskVars, managerVars, stopVars, historyVars
<1>22. CASE UNCHANGED vars
  BY <1>22 DEF vars, taskVars, managerVars, stopVars, historyVars
<1>23. QED
  BY <1>1, <1>2, <1>3, <1>4, <1>5, <1>6, <1>7, <1>8, <1>9, <1>10, <1>11, <1>12, <1>13, <1>14, <1>15, <1>16, <1>17, <1>18, <1>19, <1>20, <1>21, <1>22 DEF Next, TaskStep, TaskMoves, StopStep

\* An admission finds less than a wave of permits counted.
LEMMA QuotaAdmitted ==
    ASSUME IInv, NEW t \in Tasks, NEW r \in Rids, Start(t, r, Quota)
    PROVE  Cardinality(QuotaTasks') =< Permits
<1>1. QuotaTasks' \subseteq QuotaTasks \cup {t}
  BY DEF QuotaTasks, Start, Move, Live, IInv, TypeOK
<1>2. Cardinality(QuotaIds) < Permits /\ IsFiniteSet(QuotaIds)
  BY QuotaCounted, JobAssumption, FS_CardinalityType DEF Start, ShouldShedQuota, QuotaPending, QuotaIds
<1>3. IsFiniteSet(QuotaTasks) /\ Cardinality(QuotaTasks) < Permits
  BY <1>2, QuotaCounted, FS_CardinalityType, JobAssumption
<1>4. IsFiniteSet(QuotaTasks \cup {t}) /\ Cardinality(QuotaTasks \cup {t}) =< Permits
  <2>1. Cardinality(QuotaTasks) \in Nat
    BY <1>3, FS_CardinalityType
  <2>2. /\ IsFiniteSet(QuotaTasks \cup {t})
        /\ Cardinality(QuotaTasks \cup {t}) \in {Cardinality(QuotaTasks), Cardinality(QuotaTasks) + 1}
    BY <1>3, FS_AddElement
  <2>3. QED
    BY <1>3, <2>1, <2>2, JobAssumption
<1>5. IsFiniteSet(QuotaTasks') /\ Cardinality(QuotaTasks') =< Cardinality(QuotaTasks \cup {t})
  BY <1>1, <1>4, FS_Subset
<1>6. QED
  BY <1>4, <1>5, FS_CardinalityType, JobAssumption

\* The quota commands accepted and unfinished never exceed one wave of permits,
\* queued, parked and running ones together (should_shed_quota, start).
THEOREM QuotaBounded == Spec => []QuotaCeiling
<1>1. Init => QuotaCeiling
  <2> SUFFICES ASSUME Init PROVE QuotaCeiling
    OBVIOUS
  <2>1. {t \in Tasks : Live(t) /\ cmd[t] = Quota} = {}
    BY DEF Init, Live
  <2>2. QED
    BY <2>1, FS_EmptySet, JobAssumption DEF QuotaCeiling
<1>2. IInv /\ QuotaCeiling /\ [Next]_vars => QuotaCeiling'
  <2> SUFFICES ASSUME IInv, QuotaCeiling, [Next]_vars PROVE Cardinality(QuotaTasks') =< Permits
    BY DEF QuotaCeiling, QuotaTasks
  <2>1. CASE \E t \in Tasks, r \in Rids, c \in Commands : Start(t, r, c) /\ c = Quota
    BY <2>1, QuotaAdmitted
  <2>2. CASE ~ \E t \in Tasks, r \in Rids, c \in Commands : Start(t, r, c) /\ c = Quota
    <3>1. QuotaTasks' \subseteq QuotaTasks
      BY <2>2, QuotaShrinks
    <3>2. IsFiniteSet(QuotaTasks) /\ Cardinality(QuotaTasks) =< Permits
      BY QuotaCounted DEF QuotaCeiling, QuotaTasks
    <3>3. IsFiniteSet(QuotaTasks') /\ Cardinality(QuotaTasks') =< Cardinality(QuotaTasks)
      BY <3>1, <3>2, FS_Subset
    <3>4. QED
      BY <3>2, <3>3, FS_CardinalityType, JobAssumption
  <2>3. QED
    BY <2>1, <2>2
<1>3. QED
  BY <1>1, <1>2, Invariance, PTL DEF Spec

----------------------------------------------------------------------------
StatusMap == [t \in Tasks |-> Status(t)]

\* A step that leaves what the control plane knows of every task alone stutters.
LEMMA Stutters ==
    ASSUME \A u \in Tasks : Status(u)' = Status(u), Mode' = Mode
    PROVE  UNCHANGED Contract!contractVars
<1>1. StatusMap' = StatusMap
  BY DEF StatusMap
<1>2. QED
  BY <1>1 DEF StatusMap, Contract!contractVars

\* A step that changes one task's status is the contract step of that change.
LEMMA OneChanges ==
    ASSUME NEW t \in Tasks, NEW old, NEW new, Status(t) = old, Status(t)' = new,
           \A u \in Tasks \ {t} : Status(u)' = Status(u), Mode' = Mode
    PROVE  Contract!Becomes(t, old, new)
<1>1. StatusMap' = [StatusMap EXCEPT ![t] = new]
  BY DEF StatusMap
<1>2. StatusMap[t] = old
  BY DEF StatusMap
<1>3. QED
  BY <1>1, <1>2 DEF StatusMap, Contract!Becomes

\* A step after which a set of open commands is unknown, in a lost session.
LEMMA SomeForgotten ==
    ASSUME NEW S \in SUBSET Tasks, Mode = "lost", Mode' = "lost",
           \A u \in S : Status(u) = "accepted" /\ Status(u)' = "unknown",
           \A u \in Tasks \ S : Status(u)' = Status(u)
    PROVE  Contract!Forget(S)
<1>1. StatusMap' = [u \in Tasks |-> IF u \in S THEN "unknown" ELSE StatusMap[u]]
  BY DEF StatusMap
<1>2. \A u \in S : StatusMap[u] = "accepted"
  BY DEF StatusMap
<1>3. QED
  BY <1>1, <1>2 DEF StatusMap, Contract!Forget

\* The initial states are those of the contract.
LEMMA InitContract == Init => Contract!ContractInit
BY DEF Init, Contract!ContractInit, Status, Mode

\* Every step of the jobs is a step of the contract, or one it does not see.
LEMMA StepContract ==
    IInv /\ [Next]_vars => Contract!ContractNext \/ UNCHANGED Contract!contractVars
<1> SUFFICES ASSUME IInv, [Next]_vars
             PROVE  Contract!ContractNext \/ UNCHANGED Contract!contractVars
  OBVIOUS
<1> DEFINE Goal == Contract!ContractNext \/ UNCHANGED Contract!contractVars
<1> USE JobAssumption DEF IInv, TypeOK, ToldFits, StopReaches, Live, Places
<1>1. ASSUME NEW t \in Tasks, NEW r \in Rids, NEW c \in Commands, Start(t, r, c) PROVE Goal
  <2>1. Status(t) = "none" /\ Status(t)' = "accepted" /\ Mode' = Mode /\ Mode # "stopping"
    BY <1>1 DEF Start, Move, Status, Mode, stopVars, historyVars
  <2>2. \A u \in Tasks \ {t} : Status(u)' = Status(u)
    BY <1>1 DEF Start, Move, Status, stopVars, historyVars
  <2>3. Contract!Accept(t)
    BY <2>1, <2>2, OneChanges DEF Contract!Accept
  <2>4. QED
    BY <2>3 DEF Contract!ContractNext
<1>2. ASSUME NEW r \in Rids, NEW c \in Commands, NEW valid \in BOOLEAN, Refuse(r, c, valid) PROVE Goal
  <2>1. Mode' = Mode /\ \A u \in Tasks : Status(u)' = Status(u)
    BY <1>2 DEF Refuse, Status, Mode, taskVars, managerVars, stopVars
  <2>2. QED
    BY <2>1, Stutters
<1>3. ASSUME NEW t \in Tasks, Acquire(t) PROVE Goal
  <2>1. Mode' = Mode /\ \A u \in Tasks \ {t} : Status(u)' = Status(u)
    BY <1>3 DEF Acquire, At, Move, Status, Mode, stopVars, historyVars
  <2>2. CASE pc'[t] = "running"
    <3>1. Status(t)' = Status(t)
      BY <1>3, <2>2 DEF Acquire, At, Status, stopVars, historyVars
    <3>2. QED
      BY <2>1, <3>1, Stutters
  <2>3. CASE pc'[t] = "sending"
    <3>1. Status(t) = "accepted" /\ Status(t)' = "tried"
      BY <1>3, <2>3 DEF Acquire, At, Status, stopVars, historyVars
    <3>2. Contract!Try(t)
      BY <2>1, <3>1, OneChanges DEF Contract!Try
    <3>3. QED
      BY <3>2 DEF Contract!ContractNext
  <2>4. QED
    BY <1>3, <2>2, <2>3 DEF Acquire, At, Move
<1>4. ASSUME NEW t \in Tasks, NEW o \in {"success", "failure", "ask"}, NEW d \in Delays \cup {0},
             AttemptEnds(t, o, d)
      PROVE  Goal
  <2>1. Mode' = Mode /\ \A u \in Tasks \ {t} : Status(u)' = Status(u)
    BY <1>4 DEF AttemptEnds, At, Move, Status, Mode, stopVars, historyVars
  <2>2. CASE pc'[t] = "note"
    <3>1. Status(t)' = Status(t)
      BY <1>4, <2>2 DEF AttemptEnds, At, Status, stopVars, historyVars
    <3>2. QED
      BY <2>1, <3>1, Stutters
  <2>3. CASE pc'[t] = "sending"
    <3>1. pc[t] = "running" /\ told[t] = {} /\ t \notin crashed
      BY <1>4 DEF AttemptEnds, At
    <3>2. told'[t] = {} /\ t \notin crashed'
      BY <1>4, <3>1 DEF AttemptEnds, historyVars
    <3>3. Status(t) = "accepted"
      BY <3>1 DEF Status
    <3>4. Status(t)' = "tried"
      BY <2>3, <3>2 DEF Status
    <3>5. Contract!Try(t)
      BY <2>1, <3>3, <3>4, OneChanges DEF Contract!Try
    <3>6. QED
      BY <3>5 DEF Contract!ContractNext
  <2>4. CASE pc'[t] = "done" /\ t \in toTell
    <3>1. Status(t)' = Status(t)
      BY <1>4, <2>4 DEF AttemptEnds, At, Status, stopVars, historyVars
    <3>2. QED
      BY <2>1, <3>1, Stutters
  <2>5. CASE pc'[t] = "done" /\ t \notin toTell
    <3>1. link = "down"
      BY <1>4, <2>5 DEF AttemptEnds, At, Move, Moot
    <3>2. Status(t) = "accepted" /\ Status(t)' = "unknown"
      BY <1>4, <2>5 DEF AttemptEnds, At, Status, stopVars, historyVars
    <3>3. Contract!Forget({t})
      BY <2>1, <3>1, <3>2, SomeForgotten DEF Mode
    <3>4. QED
      BY <3>3 DEF Contract!ContractNext
  <2>6. QED
    BY <1>4, <2>2, <2>3, <2>4, <2>5 DEF AttemptEnds, At, Move
<1>5. ASSUME NEW t \in Tasks, Crash(t) PROVE Goal
  <2>1. Mode' = Mode /\ Mode # "stopping" /\ \A u \in Tasks \ {t} : Status(u)' = Status(u)
    BY <1>5 DEF Crash, At, Move, Status, Mode, stopVars, managerVars
  <2>2. Status(t) = "accepted" /\ Status(t)' = "abandoned"
    <3>1. pc[t] = "running" /\ told[t] = {} /\ t \notin crashed
      BY <1>5 DEF Crash, At
    <3>2. told'[t] = {} /\ t \in crashed'
      BY <1>5, <3>1 DEF Crash
    <3>3. QED
      BY <3>1, <3>2 DEF Status
  <2>3. Contract!Abandon(t)
    BY <2>1, <2>2, OneChanges DEF Contract!Abandon
  <2>4. QED
    BY <2>3 DEF Contract!ContractNext
<1>6. ASSUME NEW t \in Tasks, NoteSent(t) \/ Wake(t) \/ SendReturns(t) \/ HookEnds(t) \/ FinishJob(t)
      PROVE  Goal
  <2>1. Mode' = Mode /\ told' = told /\ crashed' = crashed /\ toTell' = toTell
    BY <1>6 DEF NoteSent, Wake, SendReturns, AfterSend, HookEnds, FinishJob, Mode, managerVars, stopVars, historyVars
  <2>2. \A u \in Tasks \ {t} : Status(u)' = Status(u)
    BY <1>6, <2>1 DEF NoteSent, Wake, SendReturns, AfterSend, HookEnds, FinishJob, At, Move, Status
  <2>3. Status(t)' = Status(t)
    BY <1>6, <2>1 DEF NoteSent, Wake, SendReturns, AfterSend, HookEnds, FinishJob, At, Move, Status
  <2>4. QED
    BY <2>1, <2>2, <2>3, Stutters
<1>7. ASSUME NEW t \in Tasks, WriteResult(t) PROVE Goal
  <2>1. Mode' = Mode /\ \A u \in Tasks \ {t} : Status(u)' = Status(u)
    BY <1>7 DEF WriteResult, At, Move, Status, Mode, stopVars, managerVars
  <2>2. Status(t) = "tried" /\ Status(t)' = "answered"
    BY <1>7 DEF WriteResult, At, Move, Status, stopVars
  <2>3. Contract!Answered(t)
    BY <2>1, <2>2, OneChanges DEF Contract!Answered
  <2>4. QED
    BY <2>3 DEF Contract!ContractNext
<1>8. ASSUME NEW t \in Tasks, SendFails(t) PROVE Goal
  <2>1. Mode' = Mode /\ \A u \in Tasks \ {t} : Status(u)' = Status(u)
    BY <1>8 DEF SendFails, AfterSend, At, Move, Status, Mode, stopVars, managerVars, historyVars
  <2>2. Status(t) = "tried" /\ Status(t)' = "unknown"
    BY <1>8 DEF SendFails, AfterSend, At, Move, Status, stopVars, historyVars
  <2>3. Contract!Ambiguous(t)
    BY <2>1, <2>2, OneChanges DEF Contract!Ambiguous
  <2>4. QED
    BY <2>3 DEF Contract!ContractNext
<1>9. ASSUME NEW t \in Tasks, CancelThrown(t) PROVE Goal
  <2>1. Mode' = Mode /\ \A u \in Tasks \ {t} : Status(u)' = Status(u)
    BY <1>9 DEF CancelThrown, Move, Status, Mode, managerVars, historyVars
  <2>2. CASE pc'[t] # "done" \/ t \in toTell \/ pc[t] \in {"flushing", "hook"}
    <3>1. Status(t)' = Status(t)
      BY <1>9, <2>2 DEF CancelThrown, Move, Status, historyVars
    <3>2. QED
      BY <2>1, <3>1, Stutters
  <2>3. CASE pc'[t] = "done" /\ pc[t] = "sending"
    <3>1. Status(t) = "tried" /\ Status(t)' = "unknown"
      BY <1>9, <2>3 DEF CancelThrown, Move, Status, historyVars
    <3>2. Contract!Ambiguous(t)
      BY <2>1, <3>1, OneChanges DEF Contract!Ambiguous
    <3>3. QED
      BY <3>2 DEF Contract!ContractNext
  <2>4. CASE pc'[t] = "done" /\ t \notin toTell /\ pc[t] \notin {"sending", "flushing", "hook"}
    <3>1. closing
      BY <1>9 DEF CancelThrown
    <3>2. link = "down"
      BY <1>9, <2>4, <3>1 DEF CancelThrown
    <3>3. Status(t) = "accepted" /\ Status(t)' = "unknown"
      BY <1>9, <2>4 DEF CancelThrown, Move, Status, historyVars
    <3>4. Contract!Forget({t})
      BY <2>1, <3>2, <3>3, SomeForgotten DEF Mode
    <3>5. QED
      BY <3>4 DEF Contract!ContractNext
  <2>5. QED
    BY <2>2, <2>3, <2>4
<1>10. CASE Tick \/ BeginTelling \/ CloseSocket \/ SessionOver
  <2>1. Mode' = Mode /\ \A u \in Tasks : Status(u)' = Status(u)
    BY <1>10 DEF Tick, BeginTelling, CloseSocket, SessionOver, Status, Mode, taskVars, managerVars, stopVars, historyVars
  <2>2. QED
    BY <2>1, Stutters
<1>11. CASE BeginShutdown
  <2>1. \A u \in Tasks : Status(u)' = Status(u)
    BY <1>11 DEF BeginShutdown, Active, Owned, Attempted, Status, taskVars, historyVars
  <2>2. CASE link = "up"
    <3>1. Mode = "open" /\ Mode' = "stopping"
      BY <1>11, <2>2 DEF BeginShutdown, Mode
    <3>2. StatusMap' = StatusMap
      BY <2>1 DEF StatusMap
    <3>3. Contract!Stop
      BY <3>1, <3>2 DEF StatusMap, Contract!Stop
    <3>4. QED
      BY <3>3 DEF Contract!ContractNext
  <2>3. CASE link = "down"
    BY <1>11, <2>1, <2>3, Stutters DEF BeginShutdown, Mode
  <2>4. QED
    BY <2>2, <2>3
<1>12. CASE SessionFails
  <2>1. StatusMap' = StatusMap /\ Mode' = "lost"
    BY <1>12 DEF SessionFails, StatusMap, Status, Mode, taskVars, historyVars
  <2>2. Contract!Lose
    BY <2>1 DEF StatusMap, Contract!Lose
  <2>3. QED
    BY <2>2 DEF Contract!ContractNext
<1>13. ASSUME NEW t \in toTell, Tell(t) PROVE Goal
  <2>1. Mode' = Mode /\ \A u \in Tasks \ {t} : Status(u)' = Status(u)
    BY <1>13 DEF Tell, Status, Mode, taskVars, managerVars
  <2>2. t \in Tasks /\ told[t] = {} /\ t \notin crashed /\ pc[t] \in {"done", "reaped"} /\ closing
    BY <1>13 DEF Tell
  <2> Status(t) = "accepted"
    BY <2>2 DEF Status
  <2>3. CASE link = "up"
    <3>1. Status(t)' = "cancelled" /\ Mode = "stopping"
      <4>1. told'[t] = {"cancelled"}
        BY <1>13, <2>2, <2>3 DEF Tell
      <4>2. QED
        BY <2>2, <2>3, <4>1 DEF Status, Mode
    <3>2. Contract!Cancel(t)
      BY <2>1, <2>2, <3>1, OneChanges DEF Contract!Cancel
    <3>3. QED
      BY <3>2 DEF Contract!ContractNext
  <2>4. CASE link = "down"
    <3>1. Status(t)' = "unknown"
      <4>1. told'[t] = {} /\ t \notin toTell' /\ pc' = pc /\ crashed' = crashed
        BY <1>13, <2>2, <2>4 DEF Tell, taskVars
      <4>2. QED
        BY <2>2, <4>1 DEF Status
    <3>2. Contract!Forget({t})
      BY <2>1, <2>2, <2>4, <3>1, SomeForgotten DEF Mode
    <3>3. QED
      BY <3>2 DEF Contract!ContractNext
  <2>5. QED
    BY <2>3, <2>4
<1>14. CASE EndSession
  <2>1. CASE link = "up"
    <3>1. Mode' = Mode /\ toTell' = toTell
      BY <1>14, <2>1 DEF EndSession, Mode
    <3>2. \A u \in Tasks : Status(u)' = Status(u)
      BY <1>14, <3>1 DEF EndSession, Status, taskVars, historyVars
    <3>3. QED
      BY <3>1, <3>2, Stutters
  <2>2. CASE link = "down"
    <3> DEFINE S == {u \in toTell : pc[u] \in {"done", "reaped"}}
    <3>1. Mode = "lost" /\ Mode' = "lost"
      BY <1>14, <2>2 DEF EndSession, Mode
    <3>2. \A u \in S : Status(u) = "accepted" /\ Status(u)' = "unknown"
      <4> SUFFICES ASSUME NEW u \in S PROVE Status(u) = "accepted" /\ Status(u)' = "unknown"
        OBVIOUS
      <4>1. told[u] = {} /\ u \notin crashed /\ pc[u] \in {"done", "reaped"} /\ u \in toTell
        OBVIOUS
      <4>2. told' = told /\ crashed' = crashed /\ pc' = pc /\ u \notin toTell'
        BY <1>14 DEF EndSession, taskVars, historyVars
      <4>3. QED
        BY <4>1, <4>2 DEF Status
    <3>3. \A u \in Tasks \ S : Status(u)' = Status(u)
      BY <1>14 DEF EndSession, Status, taskVars, historyVars
    <3>4. S \in SUBSET Tasks
      OBVIOUS
    <3> HIDE DEF S
    <3>5. Contract!Forget(S)
      BY <3>1, <3>2, <3>3, <3>4, SomeForgotten
    <3>6. QED
      BY <3>4, <3>5 DEF Contract!ContractNext
  <2>3. QED
    BY <2>1, <2>2
<1>15. CASE UNCHANGED vars
  <2>1. Mode' = Mode /\ \A u \in Tasks : Status(u)' = Status(u)
    BY <1>15 DEF vars, Status, Mode, taskVars, managerVars, stopVars, historyVars
  <2>2. QED
    BY <2>1, Stutters
<1>16. QED
  BY <1>1, <1>2, <1>3, <1>4, <1>5, <1>6, <1>7, <1>8, <1>9, <1>10, <1>11, <1>12, <1>13, <1>14, <1>15
     DEF Next, TaskStep, TaskMoves, StopStep

\* The jobs implement the contract with the control plane: an accepted command is
\* answered at most once and finally, is called cancelled only by a stopping agent
\* that never tried to answer it, and goes unanswered only as the contract allows.
THEOREM ContractKept == Spec => KeepsContract
<1>1. QED
  BY InitContract, StepContract, Invariance, PTL DEF Spec, KeepsContract, Contract!ContractSpec
=============================================================================
