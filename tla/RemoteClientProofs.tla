------------------------- MODULE RemoteClientProofs -------------------------
(***************************************************************************)
(* The safety properties of RemoteClient, for any number of overlapping    *)
(* runs, clients, faults and requests.                                     *)
(***************************************************************************)
EXTENDS RemoteClient, TLAPS

\* Whoever leaves a connection unwatched is about to watch or to remove it.
Watched ==
  current # None =>
    Watching \/ \E r \in Runs : pc[r] \in {"closing", "discovering"}

\* The app has one operation in flight, and relies on nothing while it disconnects.
OneRequest ==
  /\ \A r \in Runs : pc[r] = "idle" <=> op[r] = "none"
  /\ \A r, s \in Runs : op[r] \notin {"none", "auto"} /\ op[s] \notin {"none", "auto"} => r = s
  /\ \A r \in Runs : op[r] = "disconnect" => pc[r] = "closing" /\ ~wanted

\* An operation that has reached connect() has stored the request.
ConnectsByConfig ==
  \A r \in Runs :
    op[r] \in {"connect", "reconnect"} /\ pc[r] \in {"connecting", "discovering"} => config

\* What holds while operations have not overlapped: one run at a time has the
\* connection to itself, and only the current client's transport can work, so a check
\* or a call that succeeds speaks for the current connection.
Alone ==
  ~overlap =>
    /\ \A r, s \in Runs : pc[r] # "idle" /\ pc[s] # "idle" => r = s
    /\ current # None => status = "connected"
    /\ live \subseteq {current}
    /\ \A r \in Runs :
         /\ pc[r] = "closing" => current # None /\ held[r] = current
         /\ pc[r] = "connecting" => current = None
         /\ pc[r] = "discovering" => current # None
    /\ Watching => current # None /\ \A r \in Runs : pc[r] = "idle"
    /\ \A k \in orphans : k.probe \in live => \E r \in Runs : pc[r] = "closing"

\* A checker that is off has no check in flight to leave behind.
OffIsQuiet == ~Watching => checker.probe = None

\* The attempts are counted anew for every connection the app relies on.
WantedNow == wanted => attempts = 0

\* The parts of TypeOK.
RunTypes ==
  /\ op \in [Runs -> {"none", "connect", "disconnect", "reconnect", "auto"}]
  /\ pc \in [Runs -> {"idle", "closing", "connecting", "discovering"}]
  /\ held \in [Runs -> Clients \cup {None}]
CheckTypes == checker \in Checkers /\ orphans \subseteq Checkers
FlagTypes ==
  up \in BOOLEAN /\ config \in BOOLEAN /\ overlap \in BOOLEAN /\ wanted \in BOOLEAN
StateTypes ==
  /\ live \subseteq Clients /\ calls \subseteq Clients /\ current \in Clients \cup {None}
  /\ status \in {"none", "connecting", "connected", "error"}
  /\ timer \in 0 .. MaxAttempts /\ attempts \in 0 .. MaxAttempts
  /\ requests \in 0 .. MaxRequests /\ faults \in 0 .. MaxFaults

Inv ==
  /\ TypeOK /\ Watched /\ OneRequest /\ ConnectsByConfig /\ Reconnectable
  /\ Alone /\ OffIsQuiet /\ WantedNow /\ HealerLeft

----------------------------------------------------------------------------
(* The operations on checkers                                              *)

LEMMA NewCheckers == /\ NewChecker \in Checkers /\ NewChecker.state = "good"
                     /\ NoChecker \in Checkers
BY DEF NewChecker, NoChecker, Checkers

\* What a step may make of a checker: none of them turns it on or off.
Kept(k, l) == l \in Checkers /\ (l.state = "off" <=> k.state = "off")

LEMMA CheckerOps ==
  ASSUME NEW k \in Checkers, k.state # "off"
  PROVE  /\ Kept(k, Failed(k)) /\ Kept(k, Passed(k)) /\ Kept(k, MarkedHealthy(k))
         /\ Kept(k, Ended(Failed(k))) /\ Kept(k, Ended(Passed(k)))
         /\ \A c \in Clients : Kept(k, [k EXCEPT !.probe = c])
<1> USE RemoteClientAssumption DEF Checkers, Kept
<1>1. Kept(k, Failed(k))
  <2>1. CASE k.state = "bad"
    BY <2>1 DEF Failed
  <2>2. CASE k.state # "bad" /\ k.count + 1 >= UnhealthyThreshold
    BY <2>2 DEF Failed, Counted
  <2>3. CASE k.state # "bad" /\ ~(k.count + 1 >= UnhealthyThreshold)
    BY <2>3 DEF Failed, Counted
  <2> QED BY <2>1, <2>2, <2>3
<1>2. Kept(k, Passed(k))
  <2>1. CASE k.state # "bad"
    BY <2>1 DEF Passed
  <2>2. CASE k.state = "bad" /\ k.count + 1 >= HealthyThreshold
    BY <2>2 DEF Passed, Counted
  <2>3. CASE k.state = "bad" /\ ~(k.count + 1 >= HealthyThreshold)
    BY <2>3 DEF Passed, Counted
  <2> QED BY <2>1, <2>2, <2>3
<1>3. Kept(k, MarkedHealthy(k)) /\ \A c \in Clients : Kept(k, [k EXCEPT !.probe = c])
  BY DEF MarkedHealthy
<1>4. \A l \in Checkers : Kept(l, Ended(l))
  BY DEF Ended
<1>5. Kept(k, Ended(Failed(k))) /\ Kept(k, Ended(Passed(k)))
  <2> HIDE DEF Checkers
  <2> QED BY <1>1, <1>2, <1>4
<1> QED BY <1>1, <1>2, <1>3, <1>5

\* A result moves a checker in its own direction only, and keeps its probe.
LEMMA CheckerMoves ==
  ASSUME NEW k \in Checkers
  PROVE  /\ Failed(k).state \in {k.state, "bad"} /\ Failed(k).probe = k.probe
         /\ Passed(k).state \in {k.state, "good"} /\ Passed(k).probe = k.probe
         /\ k.state # "bad" => Passed(k).state = k.state
         /\ MarkedHealthy(k).state = "good" /\ MarkedHealthy(k).probe = k.probe
         /\ Ended(Failed(k)).state = Failed(k).state /\ Ended(Failed(k)).probe = None
         /\ Ended(Passed(k)).state = Passed(k).state /\ Ended(Passed(k)).probe = None
<1> USE RemoteClientAssumption DEF Checkers, Failed, Passed, Counted, MarkedHealthy, Ended
<1>1. CASE k.state = "bad" /\ k.count + 1 >= HealthyThreshold
  BY <1>1
<1>2. CASE k.state = "bad" /\ ~(k.count + 1 >= HealthyThreshold)
  BY <1>2
<1>3. CASE k.state # "bad" /\ k.count + 1 >= UnhealthyThreshold
  BY <1>3
<1>4. CASE k.state # "bad" /\ ~(k.count + 1 >= UnhealthyThreshold)
  BY <1>4
<1> QED BY <1>1, <1>2, <1>3, <1>4

----------------------------------------------------------------------------
(* One lemma per conjunct, one step per action                             *)

\* A run's variables change together.
LEMMA RunTypesStep ==
  ASSUME RunTypes, StateTypes, [Next]_vars
  PROVE  RunTypes'
<1> USE RemoteClientAssumption DEF RunTypes, StateTypes, worldVars, connVars, timerVars,
    runVars, checkVars, historyVars
<1>1. ASSUME NEW r \in Runs, UserConnect(r) PROVE RunTypes'
  BY <1>1 DEF UserConnect, Request, Begins, BeginConnect, Goto, SetStatus
<1>2. ASSUME NEW r \in Runs, UserDisconnect(r) PROVE RunTypes'
  BY <1>2 DEF UserDisconnect, Request, Begins, BeginDisconnect, BeginConnect, RemovedChecker,
      CancelAutoReconnect, Goto, SetStatus
<1>3. ASSUME NEW r \in Runs, UserReconnect(r) PROVE RunTypes'
  BY <1>3 DEF UserReconnect, Request, Begins, BeginDisconnect, BeginConnect, RemovedChecker,
      CancelAutoReconnect, Goto, SetStatus
<1>4. ASSUME NEW r \in Runs, TimerFires(r) PROVE RunTypes'
  BY <1>4 DEF TimerFires, Begins, NextAttempt, BeginDisconnect, BeginConnect, RemovedChecker,
      CancelAutoReconnect, Goto, SetStatus
<1>5. ASSUME NEW r \in Runs, Closed(r) PROVE RunTypes'
  BY <1>5 DEF Closed, StoredAgain, Return, Goto
<1>6. ASSUME NEW r \in Runs, ConnectSucceeds(r) PROVE RunTypes'
  BY <1>6 DEF ConnectSucceeds, Goto, Fresh
<1>7. ASSUME NEW r \in Runs, ConnectFails(r) PROVE RunTypes'
  BY <1>7 DEF ConnectFails, Fault, SetStatus, AfterFailure, ScheduleAutoReconnect, NextAttempt,
      Return, Goto
<1>8. ASSUME NEW r \in Runs, Discovered(r) PROVE RunTypes'
  BY <1>8 DEF Discovered, RemovedChecker, StartsHealthCheck, FirstCheck, CancelAutoReconnect,
      SetStatus, Return, Goto, Connected
<1>9. ASSUME CheckStarts PROVE RunTypes'
  BY <1>9 DEF CheckStarts, Connected, StatusChange, ScheduleAutoReconnect, CancelAutoReconnect,
      NextAttempt
<1>10. ASSUME CheckEnds PROVE RunTypes'
  BY <1>10 DEF CheckEnds, CheckResult, Fault, StatusChange, ScheduleAutoReconnect,
      CancelAutoReconnect, NextAttempt
<1>11. ASSUME NEW k \in orphans, OrphanEnds(k) PROVE RunTypes'
  BY <1>11 DEF OrphanEnds, CheckResult, Fault, StatusChange, ScheduleAutoReconnect,
      CancelAutoReconnect, NextAttempt
<1>12. ASSUME CallStarts PROVE RunTypes'
  BY <1>12 DEF CallStarts, Connected
<1>13. ASSUME NEW c \in Clients, CallSucceeds(c) PROVE RunTypes'
  BY <1>13 DEF CallSucceeds, StatusChange, ScheduleAutoReconnect, CancelAutoReconnect, NextAttempt
<1>14. ASSUME NEW c \in Clients, CallFails(c) PROVE RunTypes'
  BY <1>14 DEF CallFails, StatusChange, ScheduleAutoReconnect, CancelAutoReconnect, NextAttempt
<1>15. ASSUME NEW c \in Clients, TransportLost(c) PROVE RunTypes'
  BY <1>15 DEF TransportLost, Fault
<1>16. ASSUME ServerDown PROVE RunTypes'
  BY <1>16 DEF ServerDown, Fault
<1>17. ASSUME ServerUp PROVE RunTypes'
  BY <1>17 DEF ServerUp
<1>18. CASE UNCHANGED vars
  BY <1>18 DEF vars
<1> QED BY <1>1, <1>2, <1>3, <1>4, <1>5, <1>6, <1>7, <1>8, <1>9, <1>10, <1>11, <1>12, <1>13,
    <1>14, <1>15, <1>16, <1>17, <1>18 DEF Next, RunStep, AnyOrphanEnds

\* The other variables keep their types.
LEMMA StateTypesStep ==
  ASSUME RunTypes, StateTypes, [Next]_vars
  PROVE  StateTypes'
<1> USE RemoteClientAssumption DEF RunTypes, StateTypes, worldVars, connVars, timerVars,
    runVars, checkVars, historyVars
<1>1. ASSUME NEW r \in Runs, UserConnect(r) PROVE StateTypes'
  BY <1>1 DEF UserConnect, Request, Begins, BeginConnect, Goto, SetStatus
<1>2. ASSUME NEW r \in Runs, UserDisconnect(r) PROVE StateTypes'
  BY <1>2 DEF UserDisconnect, Request, Begins, BeginDisconnect, BeginConnect, RemovedChecker,
      CancelAutoReconnect, Goto, SetStatus
<1>3. ASSUME NEW r \in Runs, UserReconnect(r) PROVE StateTypes'
  <2>1. Request(r) /\ BeginDisconnect(r, "reconnect") /\ UNCHANGED <<worldVars, calls>>
    BY <1>3 DEF UserReconnect
  <2>2. /\ timer' = 0 /\ attempts' = 0 /\ current' = current
        /\ status' \in {status, "none", "connecting"}
    BY <2>1 DEF BeginDisconnect, BeginConnect, CancelAutoReconnect, SetStatus
  <2> QED BY <2>1, <2>2 DEF Request
<1>4. ASSUME NEW r \in Runs, TimerFires(r) PROVE StateTypes'
  BY <1>4 DEF TimerFires, Begins, NextAttempt, BeginDisconnect, BeginConnect, RemovedChecker,
      CancelAutoReconnect, Goto, SetStatus
<1>5. ASSUME NEW r \in Runs, Closed(r) PROVE StateTypes'
  BY <1>5 DEF Closed, StoredAgain, Return, Goto
<1>6. ASSUME NEW r \in Runs, ConnectSucceeds(r) PROVE StateTypes'
  BY <1>6 DEF ConnectSucceeds, Goto, Fresh
<1>7. ASSUME NEW r \in Runs, ConnectFails(r) PROVE StateTypes'
  BY <1>7 DEF ConnectFails, Fault, SetStatus, AfterFailure, ScheduleAutoReconnect, NextAttempt,
      Return, Goto
<1>8. ASSUME NEW r \in Runs, Discovered(r) PROVE StateTypes'
  BY <1>8 DEF Discovered, RemovedChecker, StartsHealthCheck, FirstCheck, CancelAutoReconnect,
      SetStatus, Return, Goto, Connected
<1>9. ASSUME CheckStarts PROVE StateTypes'
  BY <1>9 DEF CheckStarts, Connected, StatusChange, ScheduleAutoReconnect, CancelAutoReconnect,
      NextAttempt
<1>10. ASSUME CheckEnds PROVE StateTypes'
  BY <1>10 DEF CheckEnds, CheckResult, Fault, StatusChange, ScheduleAutoReconnect,
      CancelAutoReconnect, NextAttempt
<1>11. ASSUME NEW k \in orphans, OrphanEnds(k) PROVE StateTypes'
  BY <1>11 DEF OrphanEnds, CheckResult, Fault, StatusChange, ScheduleAutoReconnect,
      CancelAutoReconnect, NextAttempt
<1>12. ASSUME CallStarts PROVE StateTypes'
  BY <1>12 DEF CallStarts, Connected
<1>13. ASSUME NEW c \in Clients, CallSucceeds(c) PROVE StateTypes'
  BY <1>13 DEF CallSucceeds, StatusChange, ScheduleAutoReconnect, CancelAutoReconnect, NextAttempt
<1>14. ASSUME NEW c \in Clients, CallFails(c) PROVE StateTypes'
  BY <1>14 DEF CallFails, StatusChange, ScheduleAutoReconnect, CancelAutoReconnect, NextAttempt
<1>15. ASSUME NEW c \in Clients, TransportLost(c) PROVE StateTypes'
  BY <1>15 DEF TransportLost, Fault
<1>16. ASSUME ServerDown PROVE StateTypes'
  BY <1>16 DEF ServerDown, Fault
<1>17. ASSUME ServerUp PROVE StateTypes'
  BY <1>17 DEF ServerUp
<1>18. CASE UNCHANGED vars
  BY <1>18 DEF vars
<1> QED BY <1>1, <1>2, <1>3, <1>4, <1>5, <1>6, <1>7, <1>8, <1>9, <1>10, <1>11, <1>12, <1>13,
    <1>14, <1>15, <1>16, <1>17, <1>18 DEF Next, RunStep, AnyOrphanEnds

\* The flags are set and reset.
LEMMA FlagTypesStep ==
  ASSUME FlagTypes, [Next]_vars
  PROVE  FlagTypes'
<1> USE DEF FlagTypes, worldVars, connVars, timerVars, runVars, checkVars, historyVars
<1>1. ASSUME NEW r \in Runs, UserConnect(r) PROVE FlagTypes'
  BY <1>1 DEF UserConnect, Request, Begins, BeginConnect, Goto, SetStatus
<1>2. ASSUME NEW r \in Runs, UserDisconnect(r) PROVE FlagTypes'
  BY <1>2 DEF UserDisconnect, Request, Begins, BeginDisconnect, BeginConnect, RemovedChecker,
      CancelAutoReconnect, Goto, SetStatus
<1>3. ASSUME NEW r \in Runs, UserReconnect(r) PROVE FlagTypes'
  BY <1>3 DEF UserReconnect, Request, Begins, BeginDisconnect, BeginConnect, RemovedChecker,
      CancelAutoReconnect, Goto, SetStatus
<1>4. ASSUME NEW r \in Runs, TimerFires(r) PROVE FlagTypes'
  BY <1>4 DEF TimerFires, Begins, NextAttempt, BeginDisconnect, BeginConnect, RemovedChecker,
      CancelAutoReconnect, Goto, SetStatus
<1>5. ASSUME NEW r \in Runs, Closed(r) PROVE FlagTypes'
  BY <1>5 DEF Closed, StoredAgain, Return, Goto
<1>6. ASSUME NEW r \in Runs, ConnectSucceeds(r) PROVE FlagTypes'
  BY <1>6 DEF ConnectSucceeds, Goto, Fresh
<1>7. ASSUME NEW r \in Runs, ConnectFails(r) PROVE FlagTypes'
  BY <1>7 DEF ConnectFails, Fault, SetStatus, AfterFailure, ScheduleAutoReconnect, NextAttempt,
      Return, Goto
<1>8. ASSUME NEW r \in Runs, Discovered(r) PROVE FlagTypes'
  BY <1>8 DEF Discovered, RemovedChecker, StartsHealthCheck, FirstCheck, CancelAutoReconnect,
      SetStatus, Return, Goto, Connected
<1>9. ASSUME CheckStarts PROVE FlagTypes'
  BY <1>9 DEF CheckStarts, Connected, StatusChange, ScheduleAutoReconnect, CancelAutoReconnect,
      NextAttempt
<1>10. ASSUME CheckEnds PROVE FlagTypes'
  BY <1>10 DEF CheckEnds, CheckResult, Fault, StatusChange, ScheduleAutoReconnect,
      CancelAutoReconnect, NextAttempt
<1>11. ASSUME NEW k \in orphans, OrphanEnds(k) PROVE FlagTypes'
  BY <1>11 DEF OrphanEnds, CheckResult, Fault, StatusChange, ScheduleAutoReconnect,
      CancelAutoReconnect, NextAttempt
<1>12. ASSUME CallStarts PROVE FlagTypes'
  BY <1>12 DEF CallStarts, Connected
<1>13. ASSUME NEW c \in Clients, CallSucceeds(c) PROVE FlagTypes'
  BY <1>13 DEF CallSucceeds, StatusChange, ScheduleAutoReconnect, CancelAutoReconnect, NextAttempt
<1>14. ASSUME NEW c \in Clients, CallFails(c) PROVE FlagTypes'
  BY <1>14 DEF CallFails, StatusChange, ScheduleAutoReconnect, CancelAutoReconnect, NextAttempt
<1>15. ASSUME NEW c \in Clients, TransportLost(c) PROVE FlagTypes'
  BY <1>15 DEF TransportLost, Fault
<1>16. ASSUME ServerDown PROVE FlagTypes'
  BY <1>16 DEF ServerDown, Fault
<1>17. ASSUME ServerUp PROVE FlagTypes'
  BY <1>17 DEF ServerUp
<1>18. CASE UNCHANGED vars
  BY <1>18 DEF vars
<1> QED BY <1>1, <1>2, <1>3, <1>4, <1>5, <1>6, <1>7, <1>8, <1>9, <1>10, <1>11, <1>12, <1>13,
    <1>14, <1>15, <1>16, <1>17, <1>18 DEF Next, RunStep, AnyOrphanEnds

\* A checker is replaced by a new one, by none or by one that counted a result.
LEMMA CheckTypesStep ==
  ASSUME CheckTypes, StateTypes, [Next]_vars
  PROVE  CheckTypes'
<1> USE CheckerOps, NewCheckers DEF CheckTypes, StateTypes, Kept, Watching, worldVars, connVars,
    timerVars, runVars, checkVars, historyVars
<1>1. ASSUME NEW r \in Runs, UserConnect(r) PROVE CheckTypes'
  BY <1>1 DEF UserConnect, Request, Begins, BeginConnect, Goto, SetStatus
<1>2. ASSUME NEW r \in Runs, UserDisconnect(r) PROVE CheckTypes'
  BY <1>2 DEF UserDisconnect, Request, Begins, BeginDisconnect, BeginConnect, RemovedChecker,
      CancelAutoReconnect, Goto, SetStatus
<1>3. ASSUME NEW r \in Runs, UserReconnect(r) PROVE CheckTypes'
  BY <1>3 DEF UserReconnect, Request, Begins, BeginDisconnect, BeginConnect, RemovedChecker,
      CancelAutoReconnect, Goto, SetStatus
<1>4. ASSUME NEW r \in Runs, TimerFires(r) PROVE CheckTypes'
  BY <1>4 DEF TimerFires, Begins, NextAttempt, BeginDisconnect, BeginConnect, RemovedChecker,
      CancelAutoReconnect, Goto, SetStatus
<1>5. ASSUME NEW r \in Runs, Closed(r) PROVE CheckTypes'
  BY <1>5 DEF Closed, StoredAgain, Return, Goto
<1>6. ASSUME NEW r \in Runs, ConnectSucceeds(r) PROVE CheckTypes'
  BY <1>6 DEF ConnectSucceeds, Goto, Fresh
<1>7. ASSUME NEW r \in Runs, ConnectFails(r) PROVE CheckTypes'
  BY <1>7 DEF ConnectFails, Fault, SetStatus, AfterFailure, ScheduleAutoReconnect, NextAttempt,
      Return, Goto
<1>8. ASSUME NEW r \in Runs, Discovered(r) PROVE CheckTypes'
  BY <1>8 DEF Discovered, RemovedChecker, StartsHealthCheck, FirstCheck, CancelAutoReconnect,
      SetStatus, Return, Goto, Connected
<1>9. ASSUME CheckStarts PROVE CheckTypes'
  BY <1>9 DEF CheckStarts, Connected, StatusChange, ScheduleAutoReconnect, CancelAutoReconnect,
      NextAttempt
<1>10. ASSUME CheckEnds PROVE CheckTypes'
  <2>1. \E l \in {Passed(checker), Failed(checker)} : checker' = Ended(l)
    BY <1>10 DEF CheckEnds
  <2>2. CASE checker' = Ended(Failed(checker))
    BY <1>10, <2>2 DEF CheckEnds
  <2>3. CASE checker' = Ended(Passed(checker))
    BY <1>10, <2>3 DEF CheckEnds
  <2> QED BY <2>1, <2>2, <2>3
<1>11. ASSUME NEW k \in orphans, OrphanEnds(k) PROVE CheckTypes'
  BY <1>11 DEF OrphanEnds, CheckResult, Fault, StatusChange, ScheduleAutoReconnect,
      CancelAutoReconnect, NextAttempt
<1>12. ASSUME CallStarts PROVE CheckTypes'
  BY <1>12 DEF CallStarts, Connected
<1>13. ASSUME NEW c \in Clients, CallSucceeds(c) PROVE CheckTypes'
  BY <1>13 DEF CallSucceeds, StatusChange, ScheduleAutoReconnect, CancelAutoReconnect, NextAttempt
<1>14. ASSUME NEW c \in Clients, CallFails(c) PROVE CheckTypes'
  BY <1>14 DEF CallFails, StatusChange, ScheduleAutoReconnect, CancelAutoReconnect, NextAttempt
<1>15. ASSUME NEW c \in Clients, TransportLost(c) PROVE CheckTypes'
  BY <1>15 DEF TransportLost, Fault
<1>16. ASSUME ServerDown PROVE CheckTypes'
  BY <1>16 DEF ServerDown, Fault
<1>17. ASSUME ServerUp PROVE CheckTypes'
  BY <1>17 DEF ServerUp
<1>18. CASE UNCHANGED vars
  BY <1>18 DEF vars
<1> QED BY <1>1, <1>2, <1>3, <1>4, <1>5, <1>6, <1>7, <1>8, <1>9, <1>10, <1>11, <1>12, <1>13,
    <1>14, <1>15, <1>16, <1>17, <1>18 DEF Next, RunStep, AnyOrphanEnds

LEMMA TypeStep ==
  ASSUME TypeOK, [Next]_vars
  PROVE  TypeOK'
<1>1. RunTypes /\ StateTypes /\ FlagTypes /\ CheckTypes
  BY DEF TypeOK, RunTypes, StateTypes, FlagTypes, CheckTypes
<1>2. RunTypes' /\ StateTypes' /\ FlagTypes' /\ CheckTypes'
  BY <1>1, RunTypesStep, StateTypesStep, FlagTypesStep, CheckTypesStep
<1> QED BY <1>2 DEF TypeOK, RunTypes, StateTypes, FlagTypes, CheckTypes

\* A checker is removed by who closes, and a connection stored by who will start one.
LEMMA WatchedStep ==
  ASSUME RunTypes, StateTypes, CheckTypes, Watched, [Next]_vars
  PROVE  Watched'
<1> USE CheckerOps, NewCheckers DEF RunTypes, StateTypes, CheckTypes, Watched, Kept, Watching,
    worldVars, connVars, timerVars, runVars, checkVars, historyVars
<1>1. ASSUME NEW r \in Runs, UserConnect(r) PROVE Watched'
  BY <1>1 DEF UserConnect, Request, Begins, BeginConnect, Goto, SetStatus
<1>2. ASSUME NEW r \in Runs, UserDisconnect(r) PROVE Watched'
  BY <1>2 DEF UserDisconnect, Request, Begins, BeginDisconnect, BeginConnect, RemovedChecker,
      CancelAutoReconnect, Goto, SetStatus
<1>3. ASSUME NEW r \in Runs, UserReconnect(r) PROVE Watched'
  BY <1>3 DEF UserReconnect, Request, Begins, BeginDisconnect, BeginConnect, RemovedChecker,
      CancelAutoReconnect, Goto, SetStatus
<1>4. ASSUME NEW r \in Runs, TimerFires(r) PROVE Watched'
  BY <1>4 DEF TimerFires, Begins, NextAttempt, BeginDisconnect, BeginConnect, RemovedChecker,
      CancelAutoReconnect, Goto, SetStatus
<1>5. ASSUME NEW r \in Runs, Closed(r) PROVE Watched'
  BY <1>5 DEF Closed, StoredAgain, Return, Goto
<1>6. ASSUME NEW r \in Runs, ConnectSucceeds(r) PROVE Watched'
  BY <1>6 DEF ConnectSucceeds, Goto, Fresh
<1>7. ASSUME NEW r \in Runs, ConnectFails(r) PROVE Watched'
  BY <1>7 DEF ConnectFails, Fault, SetStatus, AfterFailure, ScheduleAutoReconnect, NextAttempt,
      Return, Goto
<1>8. ASSUME NEW r \in Runs, Discovered(r) PROVE Watched'
  BY <1>8 DEF Discovered, RemovedChecker, StartsHealthCheck, FirstCheck, CancelAutoReconnect,
      SetStatus, Return, Goto, Connected
<1>9. ASSUME CheckStarts PROVE Watched'
  <2>1. checker \in Checkers /\ checker.state # "off" /\ UNCHANGED <<connVars, runVars>>
    BY <1>9 DEF CheckStarts
  <2>2. CASE Connected /\ checker' = [checker EXCEPT !.probe = current]
    <3>1. current \in Clients
      BY <2>2 DEF Connected
    <3>2. Kept(checker, checker')
      BY CheckerOps, <2>1, <2>2, <3>1
    <3> QED BY <2>1, <3>2
  <2>3. CASE ~Connected /\ checker' = Failed(checker)
    <3>1. Kept(checker, checker')
      BY CheckerOps, <2>1, <2>3
    <3> QED BY <2>1, <3>1
  <2> QED BY <1>9, <2>2, <2>3 DEF CheckStarts
<1>10. ASSUME CheckEnds PROVE Watched'
  BY <1>10 DEF CheckEnds, CheckResult, Fault, StatusChange, ScheduleAutoReconnect,
      CancelAutoReconnect, NextAttempt
<1>11. ASSUME NEW k \in orphans, OrphanEnds(k) PROVE Watched'
  BY <1>11 DEF OrphanEnds, CheckResult, Fault, StatusChange, ScheduleAutoReconnect,
      CancelAutoReconnect, NextAttempt
<1>12. ASSUME CallStarts PROVE Watched'
  BY <1>12 DEF CallStarts, Connected
<1>13. ASSUME NEW c \in Clients, CallSucceeds(c) PROVE Watched'
  BY <1>13 DEF CallSucceeds, StatusChange, ScheduleAutoReconnect, CancelAutoReconnect, NextAttempt
<1>14. ASSUME NEW c \in Clients, CallFails(c) PROVE Watched'
  BY <1>14 DEF CallFails, StatusChange, ScheduleAutoReconnect, CancelAutoReconnect, NextAttempt
<1>15. ASSUME NEW c \in Clients, TransportLost(c) PROVE Watched'
  BY <1>15 DEF TransportLost, Fault
<1>16. ASSUME ServerDown PROVE Watched'
  BY <1>16 DEF ServerDown, Fault
<1>17. ASSUME ServerUp PROVE Watched'
  BY <1>17 DEF ServerUp
<1>18. CASE UNCHANGED vars
  BY <1>18 DEF vars
<1> QED BY <1>1, <1>2, <1>3, <1>4, <1>5, <1>6, <1>7, <1>8, <1>9, <1>10, <1>11, <1>12, <1>13,
    <1>14, <1>15, <1>16, <1>17, <1>18 DEF Next, RunStep, AnyOrphanEnds

\* The app waits for its operation; a timer's run is none of them.
LEMMA RequestStep ==
  ASSUME RunTypes, OneRequest, [Next]_vars
  PROVE  OneRequest'
<1> USE RemoteClientAssumption DEF RunTypes, OneRequest, worldVars, connVars, timerVars,
    runVars, checkVars, historyVars
<1>1. ASSUME NEW r \in Runs, UserConnect(r) PROVE OneRequest'
  BY <1>1 DEF UserConnect, Request, Begins, BeginConnect, Goto, SetStatus
<1>2. ASSUME NEW r \in Runs, UserDisconnect(r) PROVE OneRequest'
  BY <1>2 DEF UserDisconnect, Request, Begins, BeginDisconnect, BeginConnect, RemovedChecker,
      CancelAutoReconnect, Goto, SetStatus
<1>3. ASSUME NEW r \in Runs, UserReconnect(r) PROVE OneRequest'
  <2>1. Request(r) /\ BeginDisconnect(r, "reconnect") /\ ~wanted'
    BY <1>3 DEF UserReconnect
  <2>2. \E l \in {"closing", "connecting"} : \E c : Goto(r, "reconnect", l, c)
    BY <2>1 DEF BeginDisconnect, BeginConnect
  <2> QED BY <2>1, <2>2 DEF Request, Goto
<1>4. ASSUME NEW r \in Runs, TimerFires(r) PROVE OneRequest'
  BY <1>4 DEF TimerFires, Begins, NextAttempt, BeginDisconnect, BeginConnect, RemovedChecker,
      CancelAutoReconnect, Goto, SetStatus
<1>5. ASSUME NEW r \in Runs, Closed(r) PROVE OneRequest'
  BY <1>5 DEF Closed, StoredAgain, Return, Goto
<1>6. ASSUME NEW r \in Runs, ConnectSucceeds(r) PROVE OneRequest'
  BY <1>6 DEF ConnectSucceeds, Goto, Fresh
<1>7. ASSUME NEW r \in Runs, ConnectFails(r) PROVE OneRequest'
  BY <1>7 DEF ConnectFails, Fault, SetStatus, AfterFailure, ScheduleAutoReconnect, NextAttempt,
      Return, Goto
<1>8. ASSUME NEW r \in Runs, Discovered(r) PROVE OneRequest'
  BY <1>8 DEF Discovered, RemovedChecker, StartsHealthCheck, FirstCheck, CancelAutoReconnect,
      SetStatus, Return, Goto, Connected
<1>9. ASSUME CheckStarts PROVE OneRequest'
  BY <1>9 DEF CheckStarts, Connected, StatusChange, ScheduleAutoReconnect, CancelAutoReconnect,
      NextAttempt
<1>10. ASSUME CheckEnds PROVE OneRequest'
  BY <1>10 DEF CheckEnds, CheckResult, Fault, StatusChange, ScheduleAutoReconnect,
      CancelAutoReconnect, NextAttempt
<1>11. ASSUME NEW k \in orphans, OrphanEnds(k) PROVE OneRequest'
  BY <1>11 DEF OrphanEnds, CheckResult, Fault, StatusChange, ScheduleAutoReconnect,
      CancelAutoReconnect, NextAttempt
<1>12. ASSUME CallStarts PROVE OneRequest'
  BY <1>12 DEF CallStarts, Connected
<1>13. ASSUME NEW c \in Clients, CallSucceeds(c) PROVE OneRequest'
  BY <1>13 DEF CallSucceeds, StatusChange, ScheduleAutoReconnect, CancelAutoReconnect, NextAttempt
<1>14. ASSUME NEW c \in Clients, CallFails(c) PROVE OneRequest'
  BY <1>14 DEF CallFails, StatusChange, ScheduleAutoReconnect, CancelAutoReconnect, NextAttempt
<1>15. ASSUME NEW c \in Clients, TransportLost(c) PROVE OneRequest'
  BY <1>15 DEF TransportLost, Fault
<1>16. ASSUME ServerDown PROVE OneRequest'
  BY <1>16 DEF ServerDown, Fault
<1>17. ASSUME ServerUp PROVE OneRequest'
  BY <1>17 DEF ServerUp
<1>18. CASE UNCHANGED vars
  BY <1>18 DEF vars
<1> QED BY <1>1, <1>2, <1>3, <1>4, <1>5, <1>6, <1>7, <1>8, <1>9, <1>10, <1>11, <1>12, <1>13,
    <1>14, <1>15, <1>16, <1>17, <1>18 DEF Next, RunStep, AnyOrphanEnds

\* Only the app's own disconnect leaves the request deleted.
LEMMA ConfigStep ==
  ASSUME RunTypes, OneRequest, ConnectsByConfig, Reconnectable, [Next]_vars
  PROVE  (ConnectsByConfig /\ Reconnectable)'
<1> USE RemoteClientAssumption DEF RunTypes, OneRequest, ConnectsByConfig, Reconnectable,
    worldVars, connVars, timerVars, runVars, checkVars, historyVars
<1>1. ASSUME NEW r \in Runs, UserConnect(r) PROVE (ConnectsByConfig /\ Reconnectable)'
  BY <1>1 DEF UserConnect, Request, Begins, BeginConnect, Goto, SetStatus
<1>2. ASSUME NEW r \in Runs, UserDisconnect(r) PROVE (ConnectsByConfig /\ Reconnectable)'
  BY <1>2 DEF UserDisconnect, Request, Begins, BeginDisconnect, BeginConnect, RemovedChecker,
      CancelAutoReconnect, Goto, SetStatus
<1>3. ASSUME NEW r \in Runs, UserReconnect(r) PROVE (ConnectsByConfig /\ Reconnectable)'
  BY <1>3 DEF UserReconnect, Request, Begins, BeginDisconnect, BeginConnect, RemovedChecker,
      CancelAutoReconnect, Goto, SetStatus
<1>4. ASSUME NEW r \in Runs, TimerFires(r) PROVE (ConnectsByConfig /\ Reconnectable)'
  BY <1>4 DEF TimerFires, Begins, NextAttempt, BeginDisconnect, BeginConnect, RemovedChecker,
      CancelAutoReconnect, Goto, SetStatus
<1>5. ASSUME NEW r \in Runs, Closed(r) PROVE (ConnectsByConfig /\ Reconnectable)'
  BY <1>5 DEF Closed, StoredAgain, Return, Goto
<1>6. ASSUME NEW r \in Runs, ConnectSucceeds(r) PROVE (ConnectsByConfig /\ Reconnectable)'
  BY <1>6 DEF ConnectSucceeds, Goto, Fresh
<1>7. ASSUME NEW r \in Runs, ConnectFails(r) PROVE (ConnectsByConfig /\ Reconnectable)'
  BY <1>7 DEF ConnectFails, Fault, SetStatus, AfterFailure, ScheduleAutoReconnect, NextAttempt,
      Return, Goto
<1>8. ASSUME NEW r \in Runs, Discovered(r) PROVE (ConnectsByConfig /\ Reconnectable)'
  <2>1. UNCHANGED config /\ pc[r] = "discovering"
    BY <1>8 DEF Discovered
  <2>2. op[r] # "auto" => op[r] \in {"connect", "reconnect"}
    BY <2>1
  <2>3. /\ op' = [op EXCEPT ![r] = "none"] /\ pc' = [pc EXCEPT ![r] = "idle"]
        /\ wanted' = IF op[r] = "auto" THEN wanted ELSE TRUE
    BY <1>8 DEF Discovered, Return, Goto
  <2>4. ConnectsByConfig'
    BY <2>1, <2>3
  <2>5. Reconnectable'
    BY <2>1, <2>2, <2>3
  <2> QED BY <2>4, <2>5
<1>9. ASSUME CheckStarts PROVE (ConnectsByConfig /\ Reconnectable)'
  BY <1>9 DEF CheckStarts, Connected, StatusChange, ScheduleAutoReconnect, CancelAutoReconnect,
      NextAttempt
<1>10. ASSUME CheckEnds PROVE (ConnectsByConfig /\ Reconnectable)'
  BY <1>10 DEF CheckEnds, CheckResult, Fault, StatusChange, ScheduleAutoReconnect,
      CancelAutoReconnect, NextAttempt
<1>11. ASSUME NEW k \in orphans, OrphanEnds(k) PROVE (ConnectsByConfig /\ Reconnectable)'
  BY <1>11 DEF OrphanEnds, CheckResult, Fault, StatusChange, ScheduleAutoReconnect,
      CancelAutoReconnect, NextAttempt
<1>12. ASSUME CallStarts PROVE (ConnectsByConfig /\ Reconnectable)'
  BY <1>12 DEF CallStarts, Connected
<1>13. ASSUME NEW c \in Clients, CallSucceeds(c) PROVE (ConnectsByConfig /\ Reconnectable)'
  BY <1>13 DEF CallSucceeds, StatusChange, ScheduleAutoReconnect, CancelAutoReconnect, NextAttempt
<1>14. ASSUME NEW c \in Clients, CallFails(c) PROVE (ConnectsByConfig /\ Reconnectable)'
  BY <1>14 DEF CallFails, StatusChange, ScheduleAutoReconnect, CancelAutoReconnect, NextAttempt
<1>15. ASSUME NEW c \in Clients, TransportLost(c) PROVE (ConnectsByConfig /\ Reconnectable)'
  BY <1>15 DEF TransportLost, Fault
<1>16. ASSUME ServerDown PROVE (ConnectsByConfig /\ Reconnectable)'
  BY <1>16 DEF ServerDown, Fault
<1>17. ASSUME ServerUp PROVE (ConnectsByConfig /\ Reconnectable)'
  BY <1>17 DEF ServerUp
<1>18. CASE UNCHANGED vars
  BY <1>18 DEF vars
<1> QED BY <1>1, <1>2, <1>3, <1>4, <1>5, <1>6, <1>7, <1>8, <1>9, <1>10, <1>11, <1>12, <1>13,
    <1>14, <1>15, <1>16, <1>17, <1>18 DEF Next, RunStep, AnyOrphanEnds

\* The attempts start over before a connection is relied on, and none is counted while
\* it is: a timer without a stored request is the only one that counts.
LEMMA WantedNowStep ==
  ASSUME OneRequest, Reconnectable, WantedNow, [Next]_vars
  PROVE  WantedNow'
<1> USE DEF WantedNow, worldVars, connVars, timerVars, runVars, checkVars, historyVars
<1>1. ASSUME NEW r \in Runs, UserConnect(r) \/ UserDisconnect(r) \/ UserReconnect(r)
      PROVE  WantedNow'
  BY <1>1 DEF UserConnect, UserDisconnect, UserReconnect
<1>2. ASSUME NEW r \in Runs, TimerFires(r) PROVE WantedNow'
  BY <1>2 DEF TimerFires, BeginDisconnect, CancelAutoReconnect, Reconnectable
<1>3. ASSUME NEW r \in Runs, RunStep(r) PROVE WantedNow'
  <2>1. CASE Closed(r) \/ ConnectSucceeds(r)
    BY <2>1 DEF Closed, ConnectSucceeds
  <2>2. CASE ConnectFails(r)
    BY <2>2 DEF ConnectFails, AfterFailure, ScheduleAutoReconnect
  <2>3. CASE Discovered(r)
    BY <2>3 DEF Discovered, CancelAutoReconnect
  <2> QED BY <1>3, <2>1, <2>2, <2>3 DEF RunStep
<1>4. ASSUME CheckStarts \/ CheckEnds \/ CallStarts \/ AnyOrphanEnds
      PROVE  WantedNow'
  BY <1>4 DEF CheckStarts, CheckEnds, CallStarts, AnyOrphanEnds, OrphanEnds, CheckResult,
      StatusChange, ScheduleAutoReconnect, CancelAutoReconnect
<1>5. ASSUME NEW c \in Clients, CallSucceeds(c) \/ CallFails(c) \/ TransportLost(c)
      PROVE  WantedNow'
  BY <1>5 DEF CallSucceeds, CallFails, TransportLost, StatusChange, ScheduleAutoReconnect,
      CancelAutoReconnect
<1>6. ASSUME ServerDown \/ ServerUp PROVE WantedNow'
  BY <1>6 DEF ServerDown, ServerUp
<1>7. CASE UNCHANGED vars
  BY <1>7 DEF vars
<1> QED BY <1>1, <1>2, <1>3, <1>4, <1>5, <1>6, <1>7 DEF Next

\* A checker that is on stays on under checks and calls, and starts with nothing in flight
\* only where stop() or start() replaced it.
LEMMA QuietStep ==
  ASSUME CheckTypes, StateTypes, OffIsQuiet, [Next]_vars
  PROVE  OffIsQuiet'
<1> USE DEF OffIsQuiet, Watching, worldVars, connVars, timerVars, runVars, checkVars,
    historyVars
<1>1. NoChecker.probe = None
  BY DEF NoChecker
<1>2. ASSUME NEW r \in Runs, NEW o, BeginDisconnect(r, o) PROVE OffIsQuiet'
  BY <1>1, <1>2 DEF BeginDisconnect
<1>3. ASSUME NEW r \in Runs,
             UserConnect(r) \/ UserDisconnect(r) \/ UserReconnect(r) \/ TimerFires(r)
      PROVE  OffIsQuiet'
  BY <1>2, <1>3 DEF UserConnect, UserDisconnect, UserReconnect, TimerFires
<1>4. ASSUME NEW r \in Runs, RunStep(r) PROVE OffIsQuiet'
  <2>1. CASE Closed(r) \/ ConnectSucceeds(r) \/ ConnectFails(r)
    BY <2>1 DEF Closed, ConnectSucceeds, ConnectFails
  <2>2. CASE Discovered(r)
    <3>1. NewChecker \in Checkers /\ NewChecker.state = "good"
      BY NewCheckers
    <3>2. Failed(NewChecker).state # "off"
      BY <3>1, CheckerMoves
    <3>3. [NewChecker EXCEPT !.probe = current].state = "good"
      BY DEF NewChecker
    <3> QED BY <2>2, <3>2, <3>3 DEF Discovered, StartsHealthCheck, FirstCheck
  <2> QED BY <1>4, <2>1, <2>2 DEF RunStep
<1>5. ASSUME CheckStarts PROVE OffIsQuiet'
  <2>1. checker \in Checkers /\ Watching
    BY <1>5 DEF CheckStarts, CheckTypes
  <2>2. Failed(checker).state # "off"
    BY <2>1, CheckerMoves
  <2>3. [checker EXCEPT !.probe = current].state = checker.state
    BY <2>1 DEF Checkers
  <2> QED BY <1>5, <2>1, <2>2, <2>3 DEF CheckStarts
<1>6. ASSUME CheckEnds PROVE OffIsQuiet'
  <2>1. Ended(Passed(checker)).probe = None /\ Ended(Failed(checker)).probe = None
    BY CheckerMoves DEF CheckTypes
  <2> QED BY <1>6, <2>1 DEF CheckEnds
<1>7. ASSUME AnyOrphanEnds \/ CallStarts PROVE OffIsQuiet'
  BY <1>7 DEF AnyOrphanEnds, OrphanEnds, CallStarts
<1>8. ASSUME NEW c \in Clients, CallSucceeds(c) \/ CallFails(c) PROVE OffIsQuiet'
  <2>1. /\ Failed(checker).probe = checker.probe
        /\ MarkedHealthy(checker).probe = checker.probe
        /\ Failed(checker).state \in {checker.state, "bad"}
        /\ MarkedHealthy(checker).state = "good"
    BY CheckerMoves DEF CheckTypes
  <2> QED BY <1>8, <2>1 DEF CallSucceeds, CallFails
<1>9. ASSUME NEW c \in Clients, TransportLost(c) PROVE OffIsQuiet'
  BY <1>9 DEF TransportLost
<1>10. ASSUME ServerDown \/ ServerUp PROVE OffIsQuiet'
  BY <1>10 DEF ServerDown, ServerUp
<1>11. CASE UNCHANGED vars
  BY <1>11 DEF vars
<1> QED BY <1>3, <1>4, <1>5, <1>6, <1>7, <1>8, <1>9, <1>10, <1>11 DEF Next

\* No step makes operations stop having overlapped, and one that begins alone has found
\* every run idle.
LEMMA OverlapStep ==
  ASSUME FlagTypes, [Next]_vars, ~overlap'
  PROVE  ~overlap
BY DEF FlagTypes, Next, RunStep, AnyOrphanEnds, UserConnect, UserDisconnect, UserReconnect,
   TimerFires, Begins, Closed, ConnectSucceeds, ConnectFails, Discovered, CheckStarts, CheckEnds,
   OrphanEnds, CallStarts, CallSucceeds, CallFails, TransportLost, ServerDown, ServerUp, vars,
   worldVars, connVars, timerVars, runVars, checkVars, historyVars

LEMMA BeginsAlone ==
  ASSUME FlagTypes, NEW r \in Runs, Begins(r), ~overlap'
  PROVE  ~overlap /\ \A x \in Runs : pc[x] = "idle"
BY DEF FlagTypes, Begins

\* An operation that begins takes the connection as it is; what a checker still has in
\* flight is on a connection that this very run closes.
LEMMA BeginsStep ==
  ASSUME RunTypes, StateTypes, FlagTypes, CheckTypes, Alone, OffIsQuiet,
         NEW r \in Runs, Begins(r), UNCHANGED live,
         UserConnect(r) \/ UserDisconnect(r) \/ UserReconnect(r) \/ TimerFires(r)
  PROVE  Alone'
<1> SUFFICES ASSUME ~overlap' PROVE Alone'
  BY DEF Alone
<1> DEFINE Idle == \A x \in Runs : pc[x] = "idle"
<1>1. ~overlap /\ Idle
  BY BeginsAlone
<1>2. /\ current # None => status = "connected"
      /\ live \subseteq {current} /\ (Watching => current # None)
      /\ \A k \in orphans : k.probe \notin live
  BY <1>1 DEF Alone
<1>3. ASSUME NEW o, Goto(r, o, "closing", current), current # None,
             UNCHANGED <<current, status>>, checker' = NoChecker
      PROVE  Alone'
  BY <1>1, <1>2, <1>3 DEF Alone, Goto, RunTypes, Watching, NoChecker
<1>4. ASSUME NEW o, Goto(r, o, "connecting", None), current = None, UNCHANGED current,
             ~Watching', orphans' = orphans
      PROVE  Alone'
  BY <1>1, <1>2, <1>4, RemoteClientAssumption DEF Alone, Goto, RunTypes, StateTypes
<1>5. ASSUME NEW o, BeginDisconnect(r, o) PROVE Alone'
  <2>1. checker' = NoChecker /\ ~Watching'
    BY <1>5 DEF BeginDisconnect, NoChecker, Watching
  <2>2. CASE current # None
    BY <1>3, <1>5, <2>1, <2>2 DEF BeginDisconnect, connVars
  <2>3. CASE current = None
    <3>1. ~Watching /\ orphans' = orphans
      BY <1>2, <1>5, <2>3 DEF OffIsQuiet, BeginDisconnect, RemovedChecker
    <3>2. CASE UNCHANGED <<connVars, runVars>>
      BY <1>1, <1>2, <2>1, <2>3, <3>1, <3>2 DEF Alone, connVars, runVars
    <3>3. CASE BeginConnect(r, o)
      BY <1>4, <2>1, <2>3, <3>1, <3>3 DEF BeginConnect
    <3> QED BY <1>5, <2>3, <3>2, <3>3 DEF BeginDisconnect
  <2> QED BY <2>2, <2>3
<1>6. CASE UserConnect(r)
  <2>1. current = None /\ ~Watching
    BY <1>2, <1>6 DEF UserConnect, Connected
  <2>2. ~Watching' /\ orphans' = orphans /\ current' = current
    BY <1>6, <2>1 DEF UserConnect, BeginConnect, Watching, checkVars
  <2> QED BY <1>4, <1>6, <2>1, <2>2 DEF UserConnect, BeginConnect
<1>7. CASE TimerFires(r) /\ UNCHANGED <<connVars, runVars, checkVars>>
  BY <1>1, <1>2, <1>7 DEF Alone, Watching, connVars, runVars, checkVars
<1> QED BY <1>5, <1>6, <1>7 DEF UserDisconnect, UserReconnect, TimerFires

\* A run that is alone hands the connection from one of its steps to the next.
LEMMA RunAloneStep ==
  ASSUME RunTypes, StateTypes, FlagTypes, CheckTypes, Alone, OffIsQuiet,
         NEW r \in Runs, RunStep(r)
  PROVE  Alone'
<1> SUFFICES ASSUME ~overlap' PROVE Alone'
  BY DEF Alone
<1>1. overlap' = overlap /\ pc[r] # "idle"
  BY DEF RunStep, Closed, ConnectSucceeds, ConnectFails, Discovered, historyVars
<1>2. \A s \in Runs \ {r} : pc[s] = "idle"
  BY <1>1 DEF Alone
<1>3. ~Watching /\ checker.probe = None
  BY <1>1 DEF Alone, OffIsQuiet
<1>4. /\ current # None => status = "connected"
      /\ live \subseteq {current} /\ live \subseteq Clients
      /\ pc[r] = "closing" => current # None /\ held[r] = current
      /\ pc[r] = "connecting" => current = None
      /\ pc[r] = "discovering" => current # None
      /\ pc[r] # "closing" => \A k \in orphans : k.probe \notin live
  BY <1>1, <1>2 DEF Alone, StateTypes
<1>5. CASE Closed(r)
  <2>1. live' = {} /\ current' = None /\ UNCHANGED <<checker, orphans>>
    BY <1>4, <1>5 DEF Closed, checkVars
  <2>2. \E o, l, c : Goto(r, o, l, c) /\ l \in {"idle", "connecting"}
    BY <1>5 DEF Closed, Return
  <2>3. pc'[r] \in {"idle", "connecting"} /\ \A s \in Runs \ {r} : pc'[s] = "idle"
    BY <1>2, <2>2 DEF Goto, RunTypes
  <2> QED BY <1>3, <2>1, <2>3 DEF Alone, Watching
<1>6. CASE ConnectSucceeds(r)
  <2> DEFINE c == CHOOSE x \in Fresh : TRUE
  <2>1. c \in Clients /\ c \notin Referenced
    BY <1>6 DEF ConnectSucceeds, Fresh
  <2>2. /\ current' = c /\ status' = "connected" /\ live' = live \cup {c}
        /\ Goto(r, op[r], "discovering", c) /\ UNCHANGED <<checker, orphans>>
    BY <1>6 DEF ConnectSucceeds, checkVars
  <2>3. live = {} /\ c # None
    BY <1>4, <1>6, <2>1, RemoteClientAssumption DEF ConnectSucceeds
  <2>4. \A k \in orphans : k.probe # c
    BY <2>1 DEF Referenced
  <2> HIDE DEF c
  <2>5. pc'[r] = "discovering" /\ \A s \in Runs \ {r} : pc'[s] = "idle"
    BY <1>2, <2>2 DEF Goto, RunTypes
  <2>6. live' = {c}
    BY <2>2, <2>3
  <2> QED BY <1>3, <2>2, <2>3, <2>4, <2>5, <2>6 DEF Alone, Watching
<1>7. CASE ConnectFails(r)
  <2>1. /\ current = None /\ current' = None
        /\ UNCHANGED <<live, checker, orphans>> /\ Return(r)
    BY <1>4, <1>7 DEF ConnectFails, checkVars
  <2>2. \A s \in Runs : pc'[s] = "idle"
    BY <1>2, <2>1 DEF Return, Goto, RunTypes
  <2>3. \A k \in orphans : k.probe \notin live
    BY <1>4, <1>7 DEF ConnectFails
  <2> QED BY <1>3, <1>4, <2>1, <2>2, <2>3 DEF Alone, Watching
<1>8. CASE Discovered(r)
  <2>1. /\ current # None /\ UNCHANGED <<current, live, orphans>>
        /\ status' = "connected" /\ Return(r)
    BY <1>3, <1>4, <1>8 DEF Discovered, RemovedChecker, SetStatus, worldVars
  <2>2. \A s \in Runs : pc'[s] = "idle"
    BY <1>2, <2>1 DEF Return, Goto, RunTypes
  <2>3. \A k \in orphans : k.probe \notin live
    BY <1>4, <1>8 DEF Discovered
  <2> QED BY <1>4, <2>1, <2>2, <2>3 DEF Alone
<1> QED BY <1>5, <1>6, <1>7, <1>8 DEF RunStep

\* Checks, calls and the world leave the runs and the connection alone, turn no checker on
\* and make no transport work.
LEMMA ElsewhereStep ==
  ASSUME Alone, UNCHANGED <<connVars, runVars, overlap>>,
         live' \subseteq live, orphans' \subseteq orphans, Watching' => Watching
  PROVE  Alone'
<1> SUFFICES ASSUME ~overlap' PROVE Alone'
  BY DEF Alone
<1> QED BY DEF Alone, connVars, runVars

LEMMA AloneStep ==
  ASSUME RunTypes, StateTypes, FlagTypes, CheckTypes, Alone, OffIsQuiet, [Next]_vars
  PROVE  Alone'
<1> USE DEF worldVars, timerVars, checkVars, historyVars
<1>1. ASSUME NEW r \in Runs,
             UserConnect(r) \/ UserDisconnect(r) \/ UserReconnect(r) \/ TimerFires(r)
      PROVE  Alone'
  <2>1. Begins(r) /\ UNCHANGED live
    BY <1>1 DEF UserConnect, UserDisconnect, UserReconnect, TimerFires
  <2> QED BY <1>1, <2>1, BeginsStep
<1>2. ASSUME NEW r \in Runs, RunStep(r) PROVE Alone'
  BY <1>2, RunAloneStep
<1>3. CASE CheckStarts
  BY <1>3, ElsewhereStep DEF CheckStarts
<1>4. CASE CheckEnds
  BY <1>4, ElsewhereStep DEF CheckEnds
<1>5. CASE AnyOrphanEnds
  <2>1. /\ UNCHANGED <<connVars, runVars, overlap, live, checker>>
        /\ orphans' \subseteq orphans
    BY <1>5 DEF AnyOrphanEnds, OrphanEnds
  <2> QED BY <2>1, ElsewhereStep DEF Watching
<1>6. CASE CallStarts
  BY <1>6, ElsewhereStep DEF CallStarts, Watching
<1>7. ASSUME NEW c \in Clients, CallSucceeds(c) \/ CallFails(c) PROVE Alone'
  <2>1. UNCHANGED <<connVars, runVars, overlap, live, orphans>>
    BY <1>7 DEF CallSucceeds, CallFails
  <2>2. Watching' => Watching
    BY <1>7 DEF CallSucceeds, CallFails, Watching
  <2> QED BY <2>1, <2>2, ElsewhereStep
<1>8. ASSUME NEW c \in Clients, TransportLost(c) PROVE Alone'
  BY <1>8, ElsewhereStep DEF TransportLost, Watching
<1>9. CASE ServerDown \/ ServerUp
  BY <1>9, ElsewhereStep DEF ServerDown, ServerUp, Watching
<1>10. CASE UNCHANGED vars
  BY <1>10, ElsewhereStep DEF vars, Watching
<1> QED BY <1>1, <1>2, <1>3, <1>4, <1>5, <1>6, <1>7, <1>8, <1>9, <1>10 DEF Next

\* Where no attempt has been counted, whoever schedules a reconnect leaves the timer armed.
LEMMA Armed ==
  ASSUME StateTypes, WantedNow, wanted, MaxAttempts > 0, ScheduleAutoReconnect
  PROVE  timer' # 0
BY RemoteClientAssumption DEF StateTypes, WantedNow, ScheduleAutoReconnect, NextAttempt

\* What a result does to the timer: a failure never cancels it.
LEMMA FailureKeeps ==
  ASSUME NEW k \in Checkers, StatusChange(k, Failed(k))
  PROVE  \/ Failed(k).state = "bad" /\ ScheduleAutoReconnect
         \/ Failed(k).state = k.state /\ UNCHANGED timerVars
<1>1. Failed(k).state \in {k.state, "bad"}
  BY CheckerMoves
<1> QED BY <1>1 DEF StatusChange, Fell, Recovered

\* A checker that has not given the connection up watches it, or the timer is armed.
LEMMA HealerLeftStep ==
  ASSUME RunTypes, StateTypes, CheckTypes, FlagTypes, Watched, OneRequest, Reconnectable,
         Alone, WantedNow, HealerLeft, [Next]_vars
  PROVE  HealerLeft'
<1> SUFFICES ASSUME MaxAttempts > 0, wanted', ~overlap', \A r \in Runs : pc'[r] = "idle",
                    timer' = 0
             PROVE  current' # None /\ checker'.state = "good"
  BY DEF HealerLeft
<1> USE DEF worldVars, connVars, timerVars, runVars, checkVars, historyVars
<1>1. ~overlap
  BY OverlapStep
\* Between operations: what the invariants say of the state before.
<1> DEFINE Quiet == wanted /\ \A r \in Runs : pc[r] = "idle"
<1>2. Quiet =>
        /\ timer # 0 \/ (current # None /\ checker.state = "good")
        /\ Watching <=> current # None
        /\ current # None => status = "connected"
        /\ live \subseteq {current} /\ None \notin live
        /\ \A k \in orphans : k.probe \notin live
  BY <1>1, RemoteClientAssumption DEF HealerLeft, Alone, Watched, StateTypes
<1>3. ASSUME wanted, ScheduleAutoReconnect PROVE FALSE
  BY <1>3, Armed
<1>4. ASSUME NEW r \in Runs, UserConnect(r) \/ UserDisconnect(r) \/ UserReconnect(r)
      PROVE  FALSE
  BY <1>4 DEF UserConnect, UserDisconnect, UserReconnect
<1>5. ASSUME NEW r \in Runs, TimerFires(r) PROVE FALSE
  <2>1. wanted /\ config /\ BeginDisconnect(r, "auto")
    BY <1>5 DEF TimerFires, Reconnectable
  <2>2. \E l \in {"closing", "connecting"} : \E c : Goto(r, "auto", l, c)
    BY <2>1 DEF BeginDisconnect, BeginConnect
  <2>3. pc'[r] # "idle"
    BY <2>2 DEF Goto, RunTypes
  <2> QED BY <2>3
<1>6. ASSUME NEW r \in Runs, Closed(r) \/ ConnectSucceeds(r) PROVE FALSE
  <2>1. wanted /\ op[r] # "disconnect"
    BY <1>6 DEF Closed, ConnectSucceeds, OneRequest
  <2>2. \E l \in {"connecting", "discovering"} : \E c : Goto(r, op[r], l, c)
    BY <1>6, <2>1 DEF Closed, ConnectSucceeds
  <2>3. pc'[r] # "idle"
    BY <2>2 DEF Goto, RunTypes
  <2> QED BY <2>3
<1>7. ASSUME NEW r \in Runs, ConnectFails(r) PROVE FALSE
  <2>1. op[r] = "auto" /\ wanted /\ ScheduleAutoReconnect
    BY <1>7 DEF ConnectFails, AfterFailure
  <2> QED BY <1>3, <2>1
<1>8. ASSUME NEW r \in Runs, Discovered(r)
      PROVE  current' # None /\ checker'.state = "good"
  <2>1. current # None /\ status = "connected" /\ UNCHANGED current
    BY <1>1, <1>8 DEF Discovered, Alone
  <2>2. checker' = [NewChecker EXCEPT !.probe = current]
    BY <1>8, <2>1 DEF Discovered, StartsHealthCheck, FirstCheck, Connected
  <2> QED BY <2>1, <2>2 DEF NewChecker
<1>9. ASSUME CheckStarts PROVE current' # None /\ checker'.state = "good"
  <2>1. Quiet /\ Connected
    BY <1>2, <1>9 DEF CheckStarts, Connected
  <2>2. checker' = [checker EXCEPT !.probe = current] /\ UNCHANGED <<timer, current>>
    BY <1>9, <2>1 DEF CheckStarts
  <2>3. timer = 0 /\ checker.state = "good"
    BY <1>2, <2>1, <2>2
  <2> QED BY <2>1, <2>2, <2>3 DEF Connected, CheckTypes, Checkers
<1>10. ASSUME CheckEnds PROVE current' # None /\ checker'.state = "good"
  <2>1. Quiet /\ current # None /\ UNCHANGED current /\ checker \in Checkers
        /\ checker.state # "off"
    BY <1>2, <1>10 DEF CheckEnds, Watching, CheckTypes
  <2>2. PICK l \in {Passed(checker), Failed(checker)} :
          CheckResult(checker, l) /\ checker' = Ended(l)
    BY <1>10 DEF CheckEnds
  <2>3. CASE l = Failed(checker) /\ StatusChange(checker, l)
    <3>1. checker'.state = checker.state /\ UNCHANGED timer
      BY <1>3, <2>1, <2>2, <2>3, FailureKeeps, CheckerMoves
    <3> QED BY <1>2, <2>1, <3>1
  <2>4. CASE l = Passed(checker)
    <3>1. checker'.state = l.state /\ l.state \in {checker.state, "good"}
      BY <2>1, <2>2, <2>4, CheckerMoves
    <3>2. checker.state = "bad" /\ l.state = "bad" => UNCHANGED timer
      BY <2>2, <2>4 DEF CheckResult, StatusChange, Fell, Recovered
    <3>3. checker.state \in {"bad", "good"}
      BY <2>1 DEF Checkers
    <3>4. ~(checker.state = "bad" /\ l.state = "bad")
      BY <1>2, <2>1, <3>2
    <3> QED BY <2>1, <3>1, <3>3, <3>4
  <2> QED BY <2>2, <2>3, <2>4 DEF CheckResult
<1>11. ASSUME NEW k \in orphans, OrphanEnds(k)
       PROVE  current' # None /\ checker'.state = "good"
  <2>1. Quiet /\ k.probe \notin live /\ UNCHANGED <<current, checker>> /\ k \in Checkers
    BY <1>2, <1>11 DEF OrphanEnds, CheckTypes
  <2>2. StatusChange(k, Failed(k))
    BY <1>11, <2>1 DEF OrphanEnds, CheckResult
  <2>3. UNCHANGED timer
    BY <1>3, <2>1, <2>2, FailureKeeps
  <2> QED BY <1>2, <2>1, <2>3
<1>12. ASSUME NEW c \in Clients, CallSucceeds(c)
       PROVE  current' # None /\ checker'.state = "good"
  <2>1. Quiet /\ current # None /\ UNCHANGED current /\ Watching
    BY <1>2, <1>12 DEF CallSucceeds
  <2> QED BY <1>12, <2>1, CheckerMoves DEF CallSucceeds, CheckTypes
<1>13. ASSUME NEW c \in Clients, CallFails(c)
       PROVE  current' # None /\ checker'.state = "good"
  <2>1. Quiet /\ UNCHANGED current
    BY <1>13 DEF CallFails
  <2>2. c \in live /\ current # None /\ StatusChange(checker, Failed(checker))
        /\ checker' = Failed(checker)
    BY <1>2, <1>3, <1>13, <2>1 DEF CallFails
  <2>3. checker'.state = checker.state /\ UNCHANGED timer
    BY <1>3, <2>1, <2>2, FailureKeeps DEF CheckTypes
  <2> QED BY <1>2, <2>1, <2>2, <2>3
<1>14. ASSUME \/ \E c \in Clients : TransportLost(c)
              \/ CallStarts \/ ServerDown \/ ServerUp \/ UNCHANGED vars
       PROVE  current' # None /\ checker'.state = "good"
  <2>1. UNCHANGED <<current, checker, timer, wanted, pc>>
    BY <1>14 DEF TransportLost, CallStarts, ServerDown, ServerUp, vars
  <2> QED BY <1>2, <2>1
<1> QED BY <1>4, <1>5, <1>6, <1>7, <1>8, <1>9, <1>10, <1>11, <1>12, <1>13, <1>14
    DEF Next, RunStep, AnyOrphanEnds

----------------------------------------------------------------------------
(* Theorems                                                                *)

THEOREM InvHolds == Spec => []Inv
<1>1. Init => Inv
  <2>1. Init => RunTypes /\ StateTypes
    BY RemoteClientAssumption DEF Init, RunTypes, StateTypes
  <2>2. Init => FlagTypes
    BY DEF Init, FlagTypes
  <2>3. Init => CheckTypes
    BY NewCheckers DEF Init, CheckTypes
  <2>4. Init => TypeOK
    BY <2>1, <2>2, <2>3 DEF TypeOK, RunTypes, StateTypes, FlagTypes, CheckTypes
  <2>5. Init => Watched /\ ConnectsByConfig /\ Reconnectable
    BY DEF Init, Watched, ConnectsByConfig, Reconnectable
  <2>6. Init => OneRequest
    BY DEF Init, OneRequest
  <2>7. Init => Alone /\ OffIsQuiet /\ WantedNow /\ HealerLeft
    BY DEF Init, Alone, OffIsQuiet, WantedNow, HealerLeft, Watching, NoChecker
  <2> QED BY <2>4, <2>5, <2>6, <2>7 DEF Inv
<1>2. Inv /\ [Next]_vars => Inv'
  <2> SUFFICES ASSUME Inv, [Next]_vars PROVE Inv'
    OBVIOUS
  <2>1. /\ TypeOK /\ Watched /\ OneRequest /\ ConnectsByConfig /\ Reconnectable
        /\ Alone /\ OffIsQuiet /\ WantedNow /\ HealerLeft
    BY DEF Inv
  <2>2. RunTypes /\ StateTypes /\ CheckTypes /\ FlagTypes
    BY <2>1 DEF TypeOK, RunTypes, StateTypes, CheckTypes, FlagTypes
  <2>3. TypeOK' /\ Watched' /\ OneRequest' /\ ConnectsByConfig' /\ Reconnectable'
    BY <2>1, <2>2, TypeStep, WatchedStep, RequestStep, ConfigStep
  <2>4. Alone' /\ OffIsQuiet' /\ WantedNow' /\ HealerLeft'
    BY <2>1, <2>2, AloneStep, QuietStep, WantedNowStep, HealerLeftStep
  <2> QED BY <2>3, <2>4 DEF Inv
<1> QED BY <1>1, <1>2, PTL DEF Spec

\* Type correctness: attempts and timers stay within maxAutoReconnectAttempts.
THEOREM TypeCorrect == Spec => []TypeOK
BY InvHolds, PTL DEF Inv

\* A connection nobody is working on has a health checker, however operations overlap.
THEOREM MonitoredHolds == Spec => []Monitored
<1>1. Inv => Monitored
  BY DEF Inv, TypeOK, Watched, Monitored
<1> QED BY <1>1, InvHolds, PTL

\* An app that relies on its connection can always be reconnected.
THEOREM ReconnectableHolds == Spec => []Reconnectable
BY InvHolds, PTL DEF Inv

\* As long as operations have not overlapped, an app that relies on its connection is
\* never left without a timer or a checker that would bring it back: the safety half of
\* Heals, for every number of clients, runs, faults, calls and attempts.
THEOREM HealerLeftHolds == Spec => []HealerLeft
BY InvHolds, PTL DEF Inv
=============================================================================
