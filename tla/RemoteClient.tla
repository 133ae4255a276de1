----------------------------- MODULE RemoteClient -----------------------------
(***************************************************************************)
(* McpClientService: the connection of one remote app, its health checker  *)
(* and its auto-reconnect timer.  connect, disconnect and reconnect are    *)
(* async and nothing serialises them: a run of one of them, asked for by   *)
(* the app or started by the timer, interleaves with the others at every   *)
(* await.  Calls of remote tools and health checks in flight outlive the   *)
(* connection they were sent on and report to whatever is there when they  *)
(* end.                                                                    *)
(*                                                                         *)
(* Clients are MCP client objects; an identity nobody refers to any more   *)
(* is used again.                                                          *)
(***************************************************************************)
EXTENDS Naturals, FiniteSets

CONSTANTS
  Clients,
  Runs,               \* the runs of connect, disconnect and reconnect that can overlap
  None,
  UnhealthyThreshold, \* failures that make a checker unhealthy
  HealthyThreshold,   \* passed checks that make it healthy
  MaxAttempts,        \* maxAutoReconnectAttempts
  MaxCalls,           \* bound: clients with calls in flight
  MaxRequests,        \* bound: operations the app asks for
  MaxFaults           \* bound: outages, lost transports and failures of a reachable server

ASSUME RemoteClientAssumption ==
  /\ Clients # {} /\ None \notin Clients
  /\ UnhealthyThreshold \in Nat \ {0, 1} /\ HealthyThreshold \in Nat \ {0}
  /\ MaxAttempts \in Nat /\ MaxCalls \in Nat /\ MaxRequests \in Nat /\ MaxFaults \in Nat

VARIABLES
  up,       \* whether the remote server accepts connections
  live,     \* clients whose transport works
  config,   \* whether configs has the app's connect request
  current,  \* the client in connections, or None
  status,   \* its status
  timer,    \* the attempt the reconnect timer is armed for, 0 if it is not
  attempts, \* reconnectAttempts of the app
  op, pc, held, \* per run: operation, control, client it closes or connected
  checker,  \* the app's health checker
  orphans,  \* removed checkers whose check is still in flight
  calls,    \* clients with a tool call in flight
  overlap,  \* history: a run began while another was in progress
  wanted,   \* history: what the app asked for last was to connect, and it succeeded
  requests, faults

worldVars == <<up, live, faults>>
connVars == <<config, current, status>>
timerVars == <<timer, attempts>>
runVars == <<op, pc, held>>
checkVars == <<checker, orphans>>
historyVars == <<overlap, wanted>>
vars == <<worldVars, connVars, timerVars, runVars, checkVars, calls, historyVars, requests>>

----------------------------------------------------------------------------
(* Health checkers                                                         *)

\* A checker is bad when its status is unhealthy, and good when it is unknown, healthy
\* or degraded.  count: consecutive failures of a good one, passes of a bad one.
NewChecker == [state |-> "good", count |-> 0, probe |-> None]
NoChecker == [state |-> "off", count |-> 0, probe |-> None]

Counted(k, threshold, other) ==
  IF k.count + 1 >= threshold THEN [k EXCEPT !.state = other, !.count = 0]
                              ELSE [k EXCEPT !.count = @ + 1]

Failed(k) ==
  IF k.state = "bad" THEN [k EXCEPT !.count = 0] ELSE Counted(k, UnhealthyThreshold, "bad")
Passed(k) ==
  IF k.state = "bad" THEN Counted(k, HealthyThreshold, "good") ELSE [k EXCEPT !.count = 0]
MarkedHealthy(k) == [k EXCEPT !.state = "good", !.count = 0]
Ended(k) == [k EXCEPT !.probe = None]

Watching == checker.state # "off"

\* stop() ends the interval, not the check in flight.
RemovedChecker ==
  orphans' = IF checker.probe = None THEN orphans ELSE orphans \cup {checker}

----------------------------------------------------------------------------
(* The reconnect timer                                                     *)

\* The attempt after n of them, 0 when there is none: maxAutoReconnectAttempts.
Unbounded(n) == n + 1
NextAttempt(n) == IF n < MaxAttempts THEN n + 1 ELSE 0

ScheduleAutoReconnect ==
  /\ timer' = IF timer = 0 THEN NextAttempt(attempts) ELSE timer
  /\ UNCHANGED attempts
CancelAutoReconnect == timer' = 0 /\ attempts' = 0

\* handleHealthStatusChange, called when a checker k becomes l.
Fell(k, l) == k.state # "bad" /\ l.state = "bad"
Recovered(k, l) == k.state = "bad" /\ l.state # "bad"
StatusChange(k, l) ==
  \/ Fell(k, l) /\ ScheduleAutoReconnect
  \/ Recovered(k, l) /\ CancelAutoReconnect
  \/ ~Fell(k, l) /\ ~Recovered(k, l) /\ UNCHANGED timerVars

----------------------------------------------------------------------------
Init ==
  /\ up = TRUE /\ live = {} /\ config = FALSE /\ current = None /\ status = "none"
  /\ timer = 0 /\ attempts = 0
  /\ op = [r \in Runs |-> "none"] /\ pc = [r \in Runs |-> "idle"]
  /\ held = [r \in Runs |-> None]
  /\ checker = NoChecker /\ orphans = {} /\ calls = {}
  /\ overlap = FALSE /\ wanted = FALSE /\ requests = 0 /\ faults = 0

Begins(r) ==
  overlap' = IF \A x \in Runs : pc[x] = "idle" THEN overlap ELSE TRUE

Goto(r, o, l, c) ==
  /\ op' = [op EXCEPT ![r] = o] /\ pc' = [pc EXCEPT ![r] = l]
  /\ held' = [held EXCEPT ![r] = c]
Return(r) == Goto(r, "none", "idle", None)

Fault == faults < MaxFaults /\ faults' = faults + 1
\* The app (AppRemoteInstance) awaits an operation before it asks for the next.
Request(r) ==
  /\ pc[r] = "idle" /\ \A x \in Runs : op[x] \in {"none", "auto"}
  /\ requests < MaxRequests /\ requests' = requests + 1

\* updateConnectionStatus writes to the connection of the app, whoever made it.
SetStatus(s) == status' = IF current = None THEN "none" ELSE s

Connected == current # None /\ status = "connected"

\* connect() up to its first await.
BeginConnect(r, o) ==
  /\ config' = TRUE /\ UNCHANGED current /\ SetStatus("connecting")
  /\ Goto(r, o, "connecting", None)

\* disconnect() up to its first await; without a connection there is none, and a
\* reconnect goes on to connect().
BeginDisconnect(r, o) ==
  /\ RemovedChecker /\ checker' = NoChecker
  /\ CancelAutoReconnect
  /\ \/ current # None /\ Goto(r, o, "closing", current) /\ UNCHANGED connVars
     \/ current = None /\ o = "disconnect" /\ UNCHANGED <<connVars, runVars>>
     \/ current = None /\ o # "disconnect" /\ BeginConnect(r, o)

UserConnect(r) ==
  /\ Request(r) /\ ~Connected
  /\ BeginConnect(r, "connect")
  /\ Begins(r) /\ wanted' = FALSE
  /\ UNCHANGED <<worldVars, timerVars, checkVars, calls>>

UserDisconnect(r) ==
  /\ Request(r) /\ BeginDisconnect(r, "disconnect")
  /\ Begins(r) /\ wanted' = FALSE
  /\ UNCHANGED <<worldVars, calls>>

UserReconnect(r) ==
  /\ Request(r) /\ config
  /\ BeginDisconnect(r, "reconnect")
  /\ Begins(r) /\ wanted' = FALSE
  /\ UNCHANGED <<worldVars, calls>>

\* The timer's callback: without a config reconnect() throws at once.
TimerFires(r) ==
  /\ timer # 0 /\ pc[r] = "idle" /\ Begins(r)
  /\ \/ config /\ BeginDisconnect(r, "auto")
     \/ /\ ~config
        /\ attempts' = timer
        /\ timer' = NextAttempt(timer)
        /\ UNCHANGED <<connVars, runVars, checkVars>>
  /\ UNCHANGED <<worldVars, calls, wanted, requests>>

\* disconnect() after close(): it removes the connection the app has now, and the
\* config; a reconnect goes on to connect(), which stores the config again.
Dropped(o) == FALSE
StoredAgain(o) == o # "disconnect"
Closed(r) ==
  /\ pc[r] = "closing"
  /\ live' = live \ {held[r]}
  /\ current' = None /\ status' = "none"
  /\ config' = StoredAgain(op[r])
  /\ IF op[r] = "disconnect" THEN Return(r) ELSE Goto(r, op[r], "connecting", None)
  /\ UNCHANGED <<up, faults, timerVars, checkVars, calls, historyVars, requests>>

Referenced ==
  {current} \cup {held[r] : r \in Runs} \cup calls
    \cup {k.probe : k \in orphans \cup {checker}}
Fresh == Clients \ Referenced

\* client.connect() succeeds: the connection replaces whatever the app had.
ConnectSucceeds(r) ==
  /\ pc[r] = "connecting" /\ up /\ Fresh # {}
  /\ LET c == CHOOSE x \in Fresh : TRUE
     IN  /\ current' = c /\ status' = "connected"
         /\ live' = live \cup {c}
         /\ Goto(r, op[r], "discovering", c)
  /\ UNCHANGED <<up, faults, config, timerVars, checkVars, calls, historyVars, requests>>

\* The run of a timer that fails schedules the next attempt.
GivesUp(o) == UNCHANGED timerVars
AfterFailure(o) == IF o = "auto" THEN ScheduleAutoReconnect ELSE UNCHANGED timerVars
ConnectFails(r) ==
  /\ pc[r] = "connecting"
  /\ \/ ~up /\ UNCHANGED faults
     \/ up /\ Fault
  /\ SetStatus("error") /\ UNCHANGED <<config, current>>
  /\ AfterFailure(op[r])
  /\ wanted' = IF op[r] = "auto" THEN wanted ELSE FALSE
  /\ Return(r)
  /\ UNCHANGED <<up, live, checkVars, calls, overlap, requests>>

\* start() checks at once, on the connection the app has at that moment.
FirstCheck ==
  IF Connected THEN [NewChecker EXCEPT !.probe = current] ELSE Failed(NewChecker)

\* The rest of connect(), after the capabilities have been read.
ChecksOnce(r) == checker' = (IF op[r] = "connect" THEN FirstCheck ELSE checker)
StartsHealthCheck(r) == checker' = FirstCheck
Discovered(r) ==
  /\ pc[r] = "discovering"
  /\ RemovedChecker /\ StartsHealthCheck(r)
  /\ CancelAutoReconnect
  /\ SetStatus("connected") /\ UNCHANGED <<config, current>>
  /\ wanted' = IF op[r] = "auto" THEN wanted ELSE TRUE
  /\ Return(r)
  /\ UNCHANGED <<worldVars, calls, overlap, requests>>

----------------------------------------------------------------------------
(* Checks and calls                                                        *)

\* The interval fires: a check without a connection fails at once.  By then the checks
\* of removed checkers have timed out (timeoutMs is below intervalMs).
CheckStarts ==
  /\ Watching /\ checker.probe = None /\ orphans = {}
  /\ \/ Connected /\ checker' = [checker EXCEPT !.probe = current] /\ UNCHANGED timerVars
     \/ ~Connected /\ checker' = Failed(checker) /\ StatusChange(checker, checker')
  /\ UNCHANGED <<worldVars, connVars, runVars, orphans, calls, historyVars, requests>>

\* A check fails on a client that is gone, and by a fault (a slow server, a timeout)
\* on one that is not; k becomes l.  A slow pass makes the app degraded instead of
\* healthy, which changes nothing else.
CheckResult(k, l) ==
  \/ /\ k.probe \in live /\ l = Passed(k) /\ UNCHANGED faults
     /\ StatusChange(k, l) \/ UNCHANGED timerVars
  \/ /\ (k.probe \in live /\ Fault) \/ (k.probe \notin live /\ UNCHANGED faults)
     /\ l = Failed(k) /\ StatusChange(k, l)

CheckEnds ==
  /\ Watching /\ checker.probe # None
  /\ \E l \in {Passed(checker), Failed(checker)} :
       CheckResult(checker, l) /\ checker' = Ended(l)
  /\ UNCHANGED <<up, live, connVars, runVars, orphans, calls, historyVars, requests>>

OrphanEnds(k) ==
  /\ \E l \in {Passed(k), Failed(k)} : CheckResult(k, l)
  /\ orphans' = orphans \ {k}
  /\ UNCHANGED <<up, live, connVars, runVars, checker, calls, historyVars, requests>>

CallStarts ==
  /\ Connected /\ Cardinality(calls) < MaxCalls
  /\ calls' = calls \cup {current}
  /\ UNCHANGED <<worldVars, connVars, timerVars, runVars, checkVars, historyVars, requests>>

\* getChecker(appId)?. : the checker the app has when the call ends.
CallSucceeds(c) ==
  /\ c \in calls \cap live
  /\ calls' = calls \ {c}
  /\ checker' = IF Watching THEN MarkedHealthy(checker) ELSE checker
  /\ StatusChange(checker, checker')
  /\ UNCHANGED <<worldVars, connVars, runVars, orphans, historyVars, requests>>

\* An error of the tool or a timeout counts as a failure too; only an error of the
\* connection schedules a reconnect by itself.
CallFails(c) ==
  /\ c \in calls
  /\ calls' = calls \ {c}
  /\ checker' = IF Watching THEN Failed(checker) ELSE checker
  /\ IF c \in live THEN StatusChange(checker, checker') ELSE ScheduleAutoReconnect
  /\ UNCHANGED <<worldVars, connVars, runVars, orphans, historyVars, requests>>

----------------------------------------------------------------------------
(* The world                                                               *)

ServerDown ==
  /\ up /\ Fault /\ up' = FALSE /\ live' = {}
  /\ UNCHANGED <<connVars, timerVars, runVars, checkVars, calls, historyVars, requests>>

ServerUp ==
  /\ ~up /\ up' = TRUE
  /\ UNCHANGED <<live, faults, connVars, timerVars, runVars, checkVars, calls, historyVars, requests>>

TransportLost(c) ==
  /\ c \in live /\ Fault /\ live' = live \ {c}
  /\ UNCHANGED <<up, connVars, timerVars, runVars, checkVars, calls, historyVars, requests>>

RunStep(r) == Closed(r) \/ ConnectSucceeds(r) \/ ConnectFails(r) \/ Discovered(r)
AnyOrphanEnds == \E k \in orphans : OrphanEnds(k)

Next ==
  \/ \E r \in Runs :
       \/ UserConnect(r) \/ UserDisconnect(r) \/ UserReconnect(r)
       \/ TimerFires(r) \/ RunStep(r)
  \/ CheckStarts \/ CheckEnds \/ AnyOrphanEnds
  \/ CallStarts
  \/ \E c \in Clients : CallSucceeds(c) \/ CallFails(c) \/ TransportLost(c)
  \/ ServerDown \/ ServerUp

Spec == Init /\ [][Next]_vars

----------------------------------------------------------------------------
Checkers ==
  [state : {"off", "good", "bad"}, count : Nat, probe : Clients \cup {None}]

TypeOK ==
  /\ up \in BOOLEAN /\ live \subseteq Clients /\ faults \in 0 .. MaxFaults
  /\ config \in BOOLEAN /\ current \in Clients \cup {None}
  /\ status \in {"none", "connecting", "connected", "error"}
  /\ timer \in 0 .. MaxAttempts /\ attempts \in 0 .. MaxAttempts
  /\ op \in [Runs -> {"none", "connect", "disconnect", "reconnect", "auto"}]
  /\ pc \in [Runs -> {"idle", "closing", "connecting", "discovering"}]
  /\ held \in [Runs -> Clients \cup {None}]
  /\ checker \in Checkers /\ orphans \subseteq Checkers /\ calls \subseteq Clients
  /\ overlap \in BOOLEAN /\ wanted \in BOOLEAN /\ requests \in 0 .. MaxRequests

\* A connection that no operation is working on is watched by a health checker, in
\* whatever order overlapping operations and their awaits came: nothing else would
\* notice that it is gone (startHealthCheck, stopHealthCheck).
Monitored == current # None /\ (\A r \in Runs : pc[r] = "idle") => Watching

\* While the app relies on the connection, its request is stored: a timer that fires
\* without one gives up (configs, read by reconnect()).
Reconnectable == wanted => config

\* As long as operations have not overlapped, an app that relies on its connection is
\* never left with nothing that would bring it back: when no operation is in progress,
\* the timer is armed, or a checker that has not given the connection up yet watches it
\* (a bad one reports nothing more until it recovers).  Armed by whatever fails first,
\* a check, a call or the timer's own run; cancelled only by what has just worked.
HealerLeft ==
  MaxAttempts > 0 /\ wanted /\ ~overlap /\ (\A r \in Runs : pc[r] = "idle") =>
    timer # 0 \/ (current # None /\ checker.state = "good")

\* A connection the app relies on comes back after every outage, as long as
\* operations have not overlapped: each failure leaves a timer armed, a run in
\* progress or a checker or call that will arm one.
Heals == []<>(wanted /\ ~overlap => Connected /\ current \in live)

\* Operations settle (requests time out), timers and intervals fire, and the server
\* comes back.  Nothing obliges the app to call a tool.
Fairness ==
  /\ \A r \in Runs : WF_vars(RunStep(r))
  /\ WF_vars(\E r \in Runs : TimerFires(r))
  /\ WF_vars(CheckStarts) /\ WF_vars(CheckEnds) /\ WF_vars(AnyOrphanEnds)
  /\ \A c \in Clients : WF_vars(CallSucceeds(c) \/ CallFails(c))
  /\ WF_vars(ServerUp)
FairSpec == Spec /\ Fairness
=============================================================================
