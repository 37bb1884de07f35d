------------------------------ MODULE Autorestart ------------------------------
(***************************************************************************)
(* tf_autorestart (tf_autorestart/src/mainHandler.c, portConfig.c): the    *)
(* daemon that power-cycles a camera on a PoE port that fails its test, or *)
(* when a user asks for it through the socket.                             *)
(*                                                                         *)
(* One loop accepts clients, reads the pipe on which the process forked    *)
(* for a client passes a request on, and calls mainHandler, which does a   *)
(* round over the ports every test_delay seconds.  A round that is late is *)
(* made up for at once.  A round first tests every port (createTread,      *)
(* joinThread) and then lets its state machine take a step.  At this       *)
(* commit the two calls that run the tests are commented out: RunTests is  *)
(* FALSE for the code as shipped and TRUE with the two lines restored.     *)
(***************************************************************************)
EXTENDS Integers, Sequences

CONSTANTS
  Ports,        \* ports 1 .. NUM_PORTS - 1
  Tests,        \* the tests a port may be configured for
  DemonParams,  \* values of test_delay, test_num and max_reset
  TimeDelay,    \* timeDelay: 15 s in the code
  RunTests,     \* whether a round runs the tests
  MaxLag,       \* bound: how late a round may be, in seconds
  MaxPipe,      \* bound: requests on the pipe
  MaxSwitch     \* bound: changes of the configuration of a port

ASSUME AutorestartAssumption ==
  /\ Tests \subseteq {"disable", "link", "ping", "speed", "time"}
  /\ DemonParams \subseteq [test_delay : Nat \ {0}, test_num : Nat \ {0},
                            max_reset : Nat \ {0}]
  /\ TimeDelay \in Nat \ {0}
  /\ RunTests \in BOOLEAN
  /\ MaxLag \in Nat /\ MaxPipe \in Nat /\ MaxSwitch \in Nat

VARIABLES
  demonParam,  \* the parameters of the daemon
  port,        \* portInfoArr and rebootParam: what is known of each port
  due,         \* mainTime - now: seconds to the next round, negative if late
  pipe,        \* requests written to the pipe and not yet read
  enabled,     \* the ports whose state and poe options say enable (external)
  on,          \* the ports poe_Control last turned on (external)
  dead,        \* the ports whose device is out of reach (external)
  offFor,      \* history: seconds since a port was turned off
  fails,       \* history: failed tests of a port since its last restart
  cuts,        \* history: restarts of a port since a user last asked for one
  switches     \* history: changes of the configuration

outside == <<enabled, on, dead>>
history == <<offFor, fails, cuts, switches>>
vars    == <<demonParam, port, due, pipe, outside, history>>

(* The bits of errorCode that decide something. *)
ErrorBits == {"OK", "PORT_DISABLE", "TEST_LINK", "TEST_PING", "TEST_SPEED",
              "TIME_ALARM", "TEST_DISABLE", "PORT_SHUTDOWN"}

PortInfo ==
  [test : Tests, state : {"IDLE", "REGULAR", "REBOOT"},
   event : SUBSET {"AUTO_RESTART", "MANUAL_RESTART"},
   errorCode : SUBSET ErrorBits, errorTestCount : Nat, resetCount : Nat,
   remainZero : SUBSET {"up", "down"},   \* timeAlarm[..].remainTime = 0
   rebootState : {"IDLE", "INIT", "POE_DOWN", "POE_UP"},
   rebootEvent : SUBSET {"START", "TIMER_STOP", "DONE"},
   wait : Nat]                           \* timeStartReboot - now, at least 0

Min2(x, y) == IF x < y THEN x ELSE y

-----------------------------------------------------------------------------
(* The tests.  An outcome o says what the outside world answers: whether   *)
(* the link is up, whether the host answers or the speed is in range, and  *)
(* which alarm times have come.  A device out of reach passes no test.     *)

Outcome(t) == [up    : IF t \in {"link", "ping", "speed"} THEN BOOLEAN ELSE {TRUE},
               good  : IF t \in {"ping", "speed"} THEN BOOLEAN ELSE {TRUE},
               fires : IF t = "time" THEN SUBSET {"up", "down"} ELSE {{}}]

Passed(o) == o.up /\ o.good

Answers(t, isDead) ==
  {o \in Outcome(t) : isDead /\ t \in {"link", "ping", "speed"} => ~Passed(o)}

port_runTestLink(e, o) ==
  IF o.up THEN (e \ {"TEST_LINK"}) \cup {"OK"}
          ELSE (e \ {"OK"}) \cup {"TEST_LINK"}

(* A ping that is answered clears every bit. *)
port_runTestPing(e, o) ==
  IF o.good THEN {"OK"} ELSE (e \ {"OK"}) \cup {"TEST_PING"}

(* A speed in range clears nothing: TEST_SPEED, once set, stays. *)
port_runTestSpeed(e, o) ==
  IF o.good THEN e ELSE (e \ {"OK"}) \cup {"TEST_SPEED"}

(* Each alarm reports either OK or TIME_ALARM.  When an alarm fires next   *)
(* is left to the outcome.                                                 *)
timeAlarm(alarm, o) == IF alarm \in o.fires THEN "TIME_ALARM" ELSE "OK"

port_runTestTime(e, o) ==
  (e \ {"OK"}) \cup {timeAlarm(alarm, o) : alarm \in {"up", "down"}}

runTest(t, e, o) ==
  LET linked == port_runTestLink(e, o) IN
  CASE t = "disable"         -> (e \ {"OK"}) \cup {"TEST_DISABLE"}
    [] "PORT_DISABLE" \in e /\ t # "disable" -> e
    [] "PORT_DISABLE" \notin e /\ t = "link" -> linked
    [] "PORT_DISABLE" \notin e /\ t = "ping" ->
         IF "TEST_LINK" \in linked THEN linked ELSE port_runTestPing(linked, o)
    [] "PORT_DISABLE" \notin e /\ t = "speed" ->
         IF "TEST_LINK" \in linked THEN linked \cup {"TEST_SPEED"}
                                   ELSE port_runTestSpeed(linked, o)
    [] "PORT_DISABLE" \notin e /\ t = "time" -> port_runTestTime(e, o)

(* A port found disabled goes IDLE and is marked; nothing takes the mark   *)
(* away again.                                                             *)
get_PortAndPoeState(r, en) ==
  IF en THEN r
  ELSE [r EXCEPT !.state = "IDLE",
                 !.errorCode = (@ \ {"OK"}) \cup {"PORT_DISABLE"}]

(* createTread and joinThread, for one port. *)
createTread(r, en, o) ==
  LET q == get_PortAndPoeState(r, en) IN
    [q EXCEPT !.errorCode = runTest(q.test, q.errorCode, o),
              !.remainZero = IF q.test = "time" /\ "PORT_DISABLE" \notin q.errorCode
                               THEN o.fires ELSE @]

Failing(e) == e \cap {"TEST_LINK", "TEST_SPEED", "TEST_PING"} # {}

-----------------------------------------------------------------------------
(* The state machine of a port.  Each handler returns the new record and   *)
(* what it does to the power of the port: "up", "down" or "keep".          *)

(* An OK test takes one failure back; a failing one counts up to test_num. *)
CountAfter(e, n, num) ==
  LET m == IF "OK" \in e /\ n > 0 THEN n - 1 ELSE n IN
    IF Failing(e) /\ m < num THEN m + 1 ELSE m

test_ErrorHandler(r) ==
  LET n     == CountAfter(r.errorCode, r.errorTestCount, demonParam.test_num)
      fatal == Failing(r.errorCode) /\ n = demonParam.test_num
      alarm == "TIME_ALARM" \in r.errorCode
  IN [info  |-> [r EXCEPT !.errorTestCount = n,
                          !.event = IF fatal THEN @ \cup {"AUTO_RESTART"} ELSE @,
                          !.state = IF fatal THEN "REBOOT" ELSE @,
                          !.errorCode = @ \ {"TIME_ALARM"}],
      power |-> IF alarm /\ "down" \in r.remainZero THEN "down"
                ELSE IF alarm /\ "up" \in r.remainZero THEN "up"
                ELSE "keep"]

(* Mutant: one automatic restart too many. *)
MutAutoOneMore(r) ==
  IF r.resetCount > demonParam.max_reset
    THEN [r EXCEPT !.errorCode = (@ \ {"OK"}) \cup {"PORT_SHUTDOWN"},
                   !.state = "IDLE", !.rebootState = "IDLE"]
    ELSE [r EXCEPT !.errorCode = @ \ {"OK"},
                   !.errorTestCount = 0, !.resetCount = @ + 1,
                   !.rebootState = "INIT"]

(* After max_reset automatic restarts the port is given up. *)
autoResetHandler(r) ==
  IF r.resetCount >= demonParam.max_reset
    THEN [r EXCEPT !.errorCode = (@ \ {"OK"}) \cup {"PORT_SHUTDOWN"},
                   !.state = "IDLE", !.rebootState = "IDLE"]
    ELSE [r EXCEPT !.errorCode = @ \ {"OK"},
                   !.errorTestCount = 0, !.resetCount = @ + 1,
                   !.rebootState = "INIT"]

(* Mutant: the failed tests before the request still count after it. *)
MutManualKeepsCount(r) ==
  [r EXCEPT !.errorCode = @ \ {"OK", "PORT_SHUTDOWN"},
            !.resetCount = 0, !.rebootState = "INIT"]

manualResetHandler(r) ==
  [r EXCEPT !.errorCode = @ \ {"OK", "PORT_SHUTDOWN"},
            !.errorTestCount = 0, !.resetCount = 0,
            !.rebootState = "INIT"]

RebootIdle(r) ==
  LET s == IF "AUTO_RESTART" \in r.event
             THEN autoResetHandler([r EXCEPT !.event = @ \ {"AUTO_RESTART"}]) ELSE r
      t == IF "MANUAL_RESTART" \in s.event
             THEN manualResetHandler([s EXCEPT !.event = @ \ {"MANUAL_RESTART"}]) ELSE s
  IN [info |-> t, power |-> "keep"]

RebootInit(r) ==
  [info  |-> [r EXCEPT !.rebootState = "POE_DOWN",
                       !.rebootEvent = @ \cup {"START"},
                       !.wait = TimeDelay],
   power |-> "keep"]

checkTimePoeUP(r) == r.wait = 0

RebootPoeDown(r) ==
  LET stop == checkTimePoeUP(r) \/ "TIMER_STOP" \in r.rebootEvent IN
  [info  |-> [r EXCEPT !.rebootState = IF stop THEN "POE_UP" ELSE @,
                       !.rebootEvent = (@ \ {"START"})
                                         \cup (IF stop THEN {"TIMER_STOP"} ELSE {})],
   power |-> IF "START" \in r.rebootEvent THEN "down" ELSE "keep"]

(* Mutant: an old DONE ends the restart, and TIMER_STOP is forgotten. *)
MutPoeUpDoneFirst(r) ==
  IF "DONE" \in r.rebootEvent
    THEN [info  |-> [r EXCEPT !.rebootState = "IDLE", !.state = "REGULAR",
                              !.rebootEvent = @ \ {"TIMER_STOP"}],
          power |-> "keep"]
    ELSE [info  |-> [r EXCEPT !.rebootState = "IDLE", !.state = "REGULAR",
                              !.rebootEvent = (@ \ {"TIMER_STOP"}) \cup {"DONE"}],
          power |-> "up"]

(* DONE is never cleared: every later restart finds it set. *)
RebootPoeUp(r) ==
  LET stop == "TIMER_STOP" \in r.rebootEvent
      done == stop \/ "DONE" \in r.rebootEvent
  IN [info  |-> [r EXCEPT !.rebootEvent = (@ \ {"TIMER_STOP"})
                                            \cup (IF stop THEN {"DONE"} ELSE {}),
                          !.rebootState = IF done THEN "IDLE" ELSE @,
                          !.state = IF done THEN "REGULAR" ELSE @],
      power |-> IF stop THEN "up" ELSE "keep"]

rebootHandler(r) ==
  CASE r.rebootState = "IDLE"     -> RebootIdle(r)
    [] r.rebootState = "INIT"     -> RebootInit(r)
    [] r.rebootState = "POE_DOWN" -> RebootPoeDown(r)
    [] r.rebootState = "POE_UP"   -> RebootPoeUp(r)

(* What a round does to one port after the tests. *)
HandlePort(r) ==
  IF "PORT_DISABLE" \in r.errorCode THEN [info |-> r, power |-> "keep"]
  ELSE IF r.state = "REBOOT" THEN rebootHandler(r)
  ELSE IF r.state = "REGULAR" THEN test_ErrorHandler(r)
  ELSE [info |-> r, power |-> "keep"]

-----------------------------------------------------------------------------
(* The loop of mainApp. *)

(* The ports after the tests, and what the state machines make of them.    *)
Tested(o)  == [p \in Ports |-> IF RunTests THEN createTread(port[p], p \in enabled, o[p])
                                           ELSE port[p]]
Handled(o) == [p \in Ports |-> HandlePort(Tested(o)[p])]

(* The ports that have power after the calls of poe_Control in a round. *)
poe_Control(h) ==
  {p \in Ports : h[p].power = "up" \/ (p \in on /\ h[p].power = "keep")}

(* A round of mainHandler. *)
mainHandler ==
  /\ due <= 0
  /\ due' = due + demonParam.test_delay
  /\ \E o \in [Ports -> UNION {Outcome(t) : t \in Tests}] :
       /\ \A p \in Ports : o[p] \in Answers(port[p].test, p \in dead)
       /\ LET h == Handled(o) IN
            /\ port' = [p \in Ports |-> h[p].info]
            /\ on' = poe_Control(h)
            /\ offFor' = [p \in Ports |-> IF h[p].power = "down" THEN 0 ELSE offFor[p]]
            /\ fails' = [p \in Ports |->
                 IF h[p].info.rebootState = "INIT" THEN 0
                 ELSE IF RunTests /\ port[p].state = "REGULAR" /\ ~Passed(o[p])
                   THEN Min2(fails[p] + 1, demonParam.test_num) ELSE fails[p]]
            /\ cuts' = [p \in Ports |->
                 IF "MANUAL_RESTART" \in port[p].event /\ h[p].info.event = {} THEN 0
                 ELSE IF h[p].power = "down" /\ port[p].state = "REBOOT"
                   THEN Min2(cuts[p] + 1, demonParam.max_reset + 2) ELSE cuts[p]]
  /\ UNCHANGED <<demonParam, pipe, enabled, dead, switches>>

(* A second passes.  The loop may be busy (popen, ping, a client), so a    *)
(* round may come late, by up to MaxLag.                                   *)
Elapse ==
  /\ due > -MaxLag
  /\ due' = due - 1
  /\ port' = [p \in Ports |-> [port[p] EXCEPT !.wait = IF @ > 0 THEN @ - 1 ELSE 0]]
  /\ offFor' = [p \in Ports |-> Min2(offFor[p] + 1, TimeDelay)]
  /\ UNCHANGED <<demonParam, pipe, outside, fails, cuts, switches>>

(* A client asks for a restart: the child forked for it answers and writes *)
(* the request to the pipe, while the daemon waits for the child.          *)
ServeClient(p) ==
  /\ Len(pipe) < MaxPipe
  /\ pipe' = Append(pipe, p)
  /\ UNCHANGED <<demonParam, port, due, outside, history>>

(* Mutant: the request is noted, but the state machine is not started. *)
MutReadPipeEventOnly ==
  /\ pipe # <<>>
  /\ pipe' = Tail(pipe)
  /\ port' = IF port[Head(pipe)].state # "REBOOT"
               THEN [port EXCEPT ![Head(pipe)].event = {"MANUAL_RESTART"}]
               ELSE port
  /\ UNCHANGED <<demonParam, due, outside, history>>

(* The daemon reads a request.  One for a port that is being restarted is  *)
(* only logged.                                                            *)
ReadPipe ==
  /\ pipe # <<>>
  /\ pipe' = Tail(pipe)
  /\ port' = IF port[Head(pipe)].state # "REBOOT"
               THEN [port EXCEPT ![Head(pipe)].state = "REBOOT",
                                 ![Head(pipe)].event = {"MANUAL_RESTART"}]
               ELSE port
  /\ UNCHANGED <<demonParam, due, outside, history>>

(* The configuration of a port is changed (external). *)
SwitchPort(p) ==
  /\ switches < MaxSwitch
  /\ switches' = switches + 1
  /\ enabled' = IF p \in enabled THEN enabled \ {p} ELSE enabled \cup {p}
  /\ UNCHANGED <<demonParam, port, due, pipe, on, dead, offFor, fails, cuts>>

(* A device stops or starts answering (external). *)
Camera(p) ==
  /\ dead' = IF p \in dead THEN dead \ {p} ELSE dead \cup {p}
  /\ UNCHANGED <<demonParam, port, due, pipe, enabled, on, history>>

(* A host, a speed or a time that makes no sense adds a bit that decides   *)
(* nothing and leaves OK set.                                              *)
Unusable == {"OK"}

(* getPortParam and set_errorHandler: a test that is disabled, unknown or  *)
(* has unusable parameters is the test "disable"; the error code tells     *)
(* which of the three it was.                                              *)
InitialCodes(t) ==
  IF t = "disable" THEN {{"TEST_DISABLE"}, {}, Unusable} ELSE {{"OK"}}

InitialInfo(t) ==
  [test : {t}, state : {"REGULAR"}, event : {{}},
   errorCode : InitialCodes(t),
   errorTestCount : {0}, resetCount : {0}, remainZero : {{"up", "down"}},
   rebootState : {"IDLE"}, rebootEvent : {{}}, wait : {0}]

Init ==
  /\ demonParam \in DemonParams
  /\ port \in [Ports -> UNION {InitialInfo(t) : t \in Tests}]
  /\ due = demonParam.test_delay
  /\ pipe = <<>>
  /\ enabled = Ports
  /\ on = Ports
  /\ offFor = [p \in Ports |-> 0]
  /\ dead = {}
  /\ fails = [p \in Ports |-> 0]
  /\ cuts = [p \in Ports |-> 0]
  /\ switches = 0

Next ==
  \/ mainHandler
  \/ Elapse
  \/ \E p \in Ports : ServeClient(p)
  \/ ReadPipe
  \/ \E p \in Ports : SwitchPort(p)
  \/ \E p \in Ports : Camera(p)

Spec == Init /\ [][Next]_vars

(* The loop never blocks for good (a client always sends its request), and *)
(* time passes.                                                            *)
FairSpec == Spec /\ WF_vars(mainHandler) /\ WF_vars(Elapse) /\ WF_vars(ReadPipe)

-----------------------------------------------------------------------------
(* Properties *)

(* Type invariant of the port's record (portInfo_t) and of the requests. *)
TypeOK ==
  /\ demonParam \in DemonParams
  /\ port \in [Ports -> PortInfo]
  /\ \A p \in Ports : /\ port[p].errorTestCount <= demonParam.test_num
                      /\ port[p].resetCount <= demonParam.max_reset
  /\ due \in Int
  /\ pipe \in Seq(Ports)
  /\ enabled \subseteq Ports
  /\ on \subseteq Ports
  /\ offFor \in [Ports -> Nat]
  /\ dead \subseteq Ports
  /\ fails \in [Ports -> Nat]
  /\ cuts \in [Ports -> Nat]
  /\ switches \in Nat

Marked(p) == "PORT_DISABLE" \in port[p].errorCode

(* A port without a schedule is without power only while its restart is    *)
(* under way, with a timer or a set TIMER_STOP to end it, although the     *)
(* events of earlier restarts are still set (DONE).                        *)
OffOnlyInRestart ==
  \A p \in Ports : p \notin on /\ port[p].test # "time" =>
    /\ port[p].rebootState \in {"POE_DOWN", "POE_UP"}
    /\ "START" \notin port[p].rebootEvent
    /\ port[p].rebootState = "POE_UP" => "TIMER_STOP" \in port[p].rebootEvent
    /\ port[p].state = "REBOOT" \/ Marked(p)

(* A restart keeps the power off for at least timeDelay seconds, less      *)
(* twice the time by which a round may be late, whatever test_delay is:    *)
(* the timer is started a round before the power is cut, and the power     *)
(* comes back a round after it has run off, but late rounds are made up    *)
(* for at once.                                                            *)
OffLongEnough ==
  [][\A p \in Ports : p \notin on /\ p \in on' /\ port[p].test # "time"
                        => offFor[p] + 2 * MaxLag >= TimeDelay]_vars

(* An automatic restart of a port with a link or ping test is preceded by  *)
(* at least test_num failed tests since the last restart: passed tests     *)
(* take failures back, and neither a manual restart nor tests made while   *)
(* the port is being restarted count.                                      *)
NoHastyRestart ==
  \A p \in Ports : port[p].test \in {"link", "ping"} =>
    port[p].errorTestCount <= fails[p]

(* Between two requests of a user a port is restarted at most max_reset    *)
(* times, plus once for the request: passed tests in between do not start  *)
(* the count anew.                                                         *)
BoundedRestarts == \A p \in Ports : cuts[p] <= demonParam.max_reset + 1

(* A port that is no longer supervised, and was not disabled, says so in   *)
(* its error code.  (A ping that is answered clears the code of a port     *)
(* that was given up, so ping tests are left out.)                         *)
GivenUpIsShown ==
  \A p \in Ports : port[p].state = "IDLE" /\ ~Marked(p) /\ port[p].test # "ping" =>
    "PORT_SHUTDOWN" \in port[p].errorCode

(* What a restart may do, in every interleaving of automatic and manual    *)
(* ones: the power is off only within it (rebootHandler), restarts are     *)
(* limited and the limit is shown (autoResetHandler).                      *)
RestartDiscipline == OffOnlyInRestart /\ BoundedRestarts /\ GivenUpIsShown

(* The power comes back after every restart, unless the port was disabled  *)
(* meanwhile.                                                              *)
PowerReturns ==
  \A p \in Ports : (p \notin on /\ port[p].test # "time") ~> (p \in on \/ Marked(p))

(* A restart is a power cycle (rebootHandler): off for long enough, and on *)
(* again.                                                                  *)
PowerCycles == OffLongEnough /\ PowerReturns

(* A request the daemon has taken leads to a power cycle.                  *)
RequestServed ==
  \A p \in Ports : ("MANUAL_RESTART" \in port[p].event) ~> (p \notin on \/ Marked(p))

(* What the package promises in its title: a camera that stays out of      *)
(* reach is restarted, unless its port has been given up or disabled.  The *)
(* shipped daemon (RunTests = FALSE) does not: mainHandler runs no test.   *)
DeadIsRestarted ==
  \A p \in Ports :
    (p \in dead /\ port[p].test \in {"link", "ping", "speed"})
      ~> (p \notin dead \/ p \notin on \/ port[p].state = "IDLE" \/ Marked(p))
=============================================================================
