--------------------------- MODULE AutorestartProofs ---------------------------
(***************************************************************************)
(* Proofs about Autorestart, for every number of ports, every choice of    *)
(* tests and every value of the daemon's parameters.                       *)
(***************************************************************************)
EXTENDS Autorestart, TLAPS

(* What holds of the record of a port at every moment.  Its state machine  *)
(* and the one of its restart agree unless the port was disabled, events   *)
(* are there only when a handler is to take them, and the error code holds *)
(* only bits that the port's own test can set.                             *)
Disabled(r) == "PORT_DISABLE" \in r.errorCode

CodeInv(r) ==
  /\ "TIME_ALARM" \in r.errorCode => r.test = "time"
  /\ r.test = "link" => "TEST_PING" \notin r.errorCode /\ "TEST_SPEED" \notin r.errorCode
  /\ ~RunTests => ~Failing(r.errorCode)
  /\ r.state = "IDLE" /\ ~Disabled(r) /\ r.test # "ping" => "PORT_SHUTDOWN" \in r.errorCode

RestartInv(r) ==
  /\ r.rebootState # "IDLE" => r.state = "REBOOT" \/ Disabled(r)
  /\ r.event # {} /\ ~Disabled(r) =>
       /\ r.state = "REBOOT" /\ r.rebootState = "IDLE"
       /\ r.event = {"AUTO_RESTART"} \/ r.event = {"MANUAL_RESTART"}
  /\ "START" \in r.rebootEvent => r.rebootState = "POE_DOWN"
  /\ "TIMER_STOP" \in r.rebootEvent <=> r.rebootState = "POE_UP"
  /\ r.rebootState = "INIT" => r.errorTestCount = 0

(* The power of a port without a schedule, its restarts and its failures.  *)
(* A restart that is under way counts before it cuts the power.            *)
PowerInv(r, isOn) ==
  ~isOn /\ r.test # "time" =>
    r.rebootState \in {"POE_DOWN", "POE_UP"} /\ "START" \notin r.rebootEvent

Pending(r) == IF r.rebootState = "INIT" \/ "START" \in r.rebootEvent THEN 1 ELSE 0

CutsInv(r, n) == n + Pending(r) <= r.resetCount + 1

FailsInv(r, n) == r.test \in {"link", "ping"} => r.errorTestCount <= n

(* The timer of a restart, the rounds and the time without power.  The     *)
(* timer was set in the last round but at most MaxLag before its time was  *)
(* due, and since then all three have moved together.                      *)
TimeInv(r, d, off) ==
  ~Disabled(r) =>
    /\ r.rebootState = "POE_DOWN" /\ "START" \in r.rebootEvent =>
         r.wait + demonParam.test_delay >= TimeDelay + d
    /\ r.rebootState = "POE_DOWN" /\ "START" \notin r.rebootEvent =>
         off + r.wait + demonParam.test_delay + MaxLag >= TimeDelay
    /\ r.rebootState = "POE_UP" => off + d + 2 * MaxLag >= TimeDelay

PortInv(p) ==
  /\ CodeInv(port[p]) /\ RestartInv(port[p])
  /\ PowerInv(port[p], p \in on) /\ CutsInv(port[p], cuts[p]) /\ FailsInv(port[p], fails[p])
  /\ TimeInv(port[p], due, offFor[p])

Inv == TypeOK /\ due >= -MaxLag /\ \A p \in Ports : PortInv(p)

-----------------------------------------------------------------------------
(* The tests *)

(* What a test may do to the error code (runTest): it keeps the mark of a  *)
(* disabled port and, but for a ping that is answered, that of a port that *)
(* was given up; a link or ping test leaves a failure only if it failed.   *)
LEMMA RunTestEffect ==
  ASSUME NEW t \in Tests, NEW e \in SUBSET ErrorBits, NEW o \in Outcome(t)
  PROVE  /\ runTest(t, e, o) \in SUBSET ErrorBits
         /\ "PORT_DISABLE" \in e <=> "PORT_DISABLE" \in runTest(t, e, o)
         /\ "TIME_ALARM" \in runTest(t, e, o) => "TIME_ALARM" \in e \/ t = "time"
         /\ "PORT_SHUTDOWN" \in e /\ t # "ping" => "PORT_SHUTDOWN" \in runTest(t, e, o)
         /\ t = "link" /\ "TEST_PING" \notin e /\ "TEST_SPEED" \notin e =>
              "TEST_PING" \notin runTest(t, e, o) /\ "TEST_SPEED" \notin runTest(t, e, o)
         /\ /\ t \in {"link", "ping"} /\ "PORT_DISABLE" \notin e /\ Failing(runTest(t, e, o))
            /\ t = "link" => "TEST_PING" \notin e /\ "TEST_SPEED" \notin e
            => ~Passed(o)
<1> DEFINE linked == port_runTestLink(e, o)
<1>1. t \in {"disable", "link", "ping", "speed", "time"}
  BY AutorestartAssumption
<1>2. o.up \in BOOLEAN /\ o.good \in BOOLEAN /\ (t = "link" => o.good = TRUE)
  BY <1>1 DEF Outcome
<1>3. linked = IF o.up THEN (e \ {"TEST_LINK"}) \cup {"OK"} ELSE (e \ {"OK"}) \cup {"TEST_LINK"}
  BY DEF port_runTestLink
<1>4. /\ linked \in SUBSET ErrorBits /\ ("PORT_DISABLE" \in e <=> "PORT_DISABLE" \in linked)
      /\ "TIME_ALARM" \in linked => "TIME_ALARM" \in e
      /\ "PORT_SHUTDOWN" \in e => "PORT_SHUTDOWN" \in linked
      /\ "TEST_PING" \in linked => "TEST_PING" \in e
      /\ "TEST_SPEED" \in linked => "TEST_SPEED" \in e
      /\ "TEST_LINK" \in linked <=> ~o.up
  BY <1>2, <1>3 DEF ErrorBits
<1> HIDE DEF linked
<1>5. CASE t = "disable"
  <2>1. runTest(t, e, o) = (e \ {"OK"}) \cup {"TEST_DISABLE"}
    BY <1>5 DEF runTest
  <2>2. QED
    BY <1>5, <2>1 DEF ErrorBits
<1>6. CASE "PORT_DISABLE" \in e /\ t # "disable"
  <2>1. runTest(t, e, o) = e
    BY <1>6 DEF runTest
  <2>2. QED
    BY <1>6, <2>1
<1>7. CASE "PORT_DISABLE" \notin e /\ t = "link"
  <2>1. runTest(t, e, o) = linked
    BY <1>7 DEF runTest, linked
  <2>2. QED
    BY <1>2, <1>4, <1>7, <2>1 DEF Failing, Passed
<1>8. CASE "PORT_DISABLE" \notin e /\ t = "ping"
  <2>1. runTest(t, e, o) = IF "TEST_LINK" \in linked THEN linked
                           ELSE IF o.good THEN {"OK"} ELSE (linked \ {"OK"}) \cup {"TEST_PING"}
    BY <1>8 DEF runTest, port_runTestPing, linked
  <2>2. CASE "TEST_LINK" \in linked
    <3>1. runTest(t, e, o) = linked /\ ~Passed(o)
      BY <1>4, <2>1, <2>2 DEF Passed
    <3>2. QED
      BY <1>4, <1>8, <3>1
  <2>3. CASE "TEST_LINK" \notin linked /\ o.good
    <3>1. runTest(t, e, o) = {"OK"}
      BY <2>1, <2>3
    <3>2. QED
      BY <1>8, <3>1 DEF Failing, ErrorBits
  <2>4. CASE "TEST_LINK" \notin linked /\ ~o.good
    <3>1. runTest(t, e, o) = (linked \ {"OK"}) \cup {"TEST_PING"} /\ ~Passed(o)
      BY <2>1, <2>4 DEF Passed
    <3>2. runTest(t, e, o) \in SUBSET ErrorBits
      BY <1>4, <3>1 DEF ErrorBits
    <3>3. QED
      BY <1>4, <1>8, <3>1, <3>2
  <2>5. QED
    BY <1>2, <2>2, <2>3, <2>4
<1>9. CASE "PORT_DISABLE" \notin e /\ t = "speed"
  <2>1. runTest(t, e, o) = IF "TEST_LINK" \in linked THEN linked \cup {"TEST_SPEED"}
                           ELSE IF o.good THEN linked ELSE (linked \ {"OK"}) \cup {"TEST_SPEED"}
    BY <1>9 DEF runTest, port_runTestSpeed, linked
  <2>2. CASE "TEST_LINK" \in linked
    <3>1. runTest(t, e, o) = linked \cup {"TEST_SPEED"}
      BY <2>1, <2>2
    <3>2. runTest(t, e, o) \in SUBSET ErrorBits
      BY <1>4, <3>1 DEF ErrorBits
    <3>3. QED
      BY <1>4, <1>9, <3>1, <3>2
  <2>3. CASE "TEST_LINK" \notin linked /\ o.good
    <3>1. runTest(t, e, o) = linked
      BY <2>1, <2>3
    <3>2. QED
      BY <1>4, <1>9, <3>1
  <2>4. CASE "TEST_LINK" \notin linked /\ ~o.good
    <3>1. runTest(t, e, o) = (linked \ {"OK"}) \cup {"TEST_SPEED"}
      BY <2>1, <2>4
    <3>2. runTest(t, e, o) \in SUBSET ErrorBits
      BY <1>4, <3>1 DEF ErrorBits
    <3>3. QED
      BY <1>4, <1>9, <3>1, <3>2
  <2>5. QED
    BY <1>2, <2>2, <2>3, <2>4
<1>10. CASE "PORT_DISABLE" \notin e /\ t = "time"
  <2>1. runTest(t, e, o) = (e \ {"OK"}) \cup {timeAlarm(alarm, o) : alarm \in {"up", "down"}}
    BY <1>10 DEF runTest, port_runTestTime
  <2>2. \A alarm \in {"up", "down"} : timeAlarm(alarm, o) \in {"OK", "TIME_ALARM"}
    BY DEF timeAlarm
  <2>3. QED
    BY <1>10, <2>1, <2>2 DEF ErrorBits
<1>11. QED
  BY <1>1, <1>5, <1>6, <1>7, <1>8, <1>9, <1>10

(* What the tests of a round may do to the record of a port (createTread). *)
LEMMA TestedEffect ==
  ASSUME NEW r \in PortInfo, NEW en \in BOOLEAN, NEW o \in Outcome(r.test)
  PROVE  LET q == createTread(r, en, o) IN
         /\ q \in PortInfo
         /\ q.test = r.test /\ q.event = r.event /\ q.rebootState = r.rebootState
         /\ q.rebootEvent = r.rebootEvent /\ q.wait = r.wait
         /\ q.errorTestCount = r.errorTestCount /\ q.resetCount = r.resetCount
         /\ q.state = r.state \/ (q.state = "IDLE" /\ Disabled(q))
         /\ Disabled(r) => Disabled(q)
         /\ "TIME_ALARM" \in q.errorCode => "TIME_ALARM" \in r.errorCode \/ r.test = "time"
         /\ "PORT_SHUTDOWN" \in r.errorCode /\ r.test # "ping" => "PORT_SHUTDOWN" \in q.errorCode
         /\ r.test = "link" /\ "TEST_PING" \notin r.errorCode /\ "TEST_SPEED" \notin r.errorCode
              => "TEST_PING" \notin q.errorCode /\ "TEST_SPEED" \notin q.errorCode
         /\ /\ r.test \in {"link", "ping"} /\ ~Disabled(q) /\ Failing(q.errorCode)
            /\ r.test = "link" => "TEST_PING" \notin r.errorCode /\ "TEST_SPEED" \notin r.errorCode
            => ~Passed(o)
<1> DEFINE g == get_PortAndPoeState(r, en)
           code == runTest(g.test, g.errorCode, o)
           zero == IF g.test = "time" /\ "PORT_DISABLE" \notin g.errorCode THEN o.fires ELSE g.remainZero
           upd(x, c, z) == [x EXCEPT !.errorCode = c, !.remainZero = z]
<1>1. /\ g \in PortInfo
      /\ g.test = r.test /\ g.event = r.event /\ g.rebootState = r.rebootState
      /\ g.rebootEvent = r.rebootEvent /\ g.wait = r.wait
      /\ g.errorTestCount = r.errorTestCount /\ g.resetCount = r.resetCount
      /\ \/ g.state = r.state /\ g.errorCode = r.errorCode
         \/ g.state = "IDLE" /\ g.errorCode = (r.errorCode \ {"OK"}) \cup {"PORT_DISABLE"}
  BY DEF get_PortAndPoeState, PortInfo, ErrorBits
<1>2. g.test \in Tests /\ g.errorCode \in SUBSET ErrorBits /\ o \in Outcome(g.test)
  BY <1>1 DEF PortInfo
<1>3. zero \in SUBSET {"up", "down"}
  <2>1. g.remainZero \in SUBSET {"up", "down"}
    BY <1>1 DEF PortInfo
  <2>2. o.fires \in SUBSET {"up", "down"}
    BY <1>2 DEF Outcome
  <2>3. QED
    BY <2>1, <2>2
<1>4. createTread(r, en, o) = upd(g, code, zero)
  BY DEF createTread
<1>5. ASSUME NEW x \in PortInfo, NEW c \in SUBSET ErrorBits, NEW z \in SUBSET {"up", "down"}
      PROVE  /\ upd(x, c, z) \in PortInfo /\ upd(x, c, z).errorCode = c
             /\ upd(x, c, z).test = x.test /\ upd(x, c, z).event = x.event
             /\ upd(x, c, z).rebootState = x.rebootState /\ upd(x, c, z).state = x.state
             /\ upd(x, c, z).rebootEvent = x.rebootEvent /\ upd(x, c, z).wait = x.wait
             /\ upd(x, c, z).errorTestCount = x.errorTestCount
             /\ upd(x, c, z).resetCount = x.resetCount
  BY DEF PortInfo
<1> HIDE DEF g, zero, upd
<1>6. code \in SUBSET ErrorBits
  BY <1>2, RunTestEffect
<1>7. LET q == createTread(r, en, o) IN
         /\ q \in PortInfo /\ q.errorCode = code
         /\ q.test = g.test /\ q.event = g.event /\ q.rebootState = g.rebootState
         /\ q.rebootEvent = g.rebootEvent /\ q.wait = g.wait /\ q.state = g.state
         /\ q.errorTestCount = g.errorTestCount /\ q.resetCount = g.resetCount
  BY <1>1, <1>3, <1>4, <1>5, <1>6
<1>8. /\ "PORT_DISABLE" \in g.errorCode <=> "PORT_DISABLE" \in code
      /\ "TIME_ALARM" \in code => "TIME_ALARM" \in g.errorCode \/ g.test = "time"
      /\ "PORT_SHUTDOWN" \in g.errorCode /\ g.test # "ping" => "PORT_SHUTDOWN" \in code
      /\ g.test = "link" /\ "TEST_PING" \notin g.errorCode /\ "TEST_SPEED" \notin g.errorCode =>
           "TEST_PING" \notin code /\ "TEST_SPEED" \notin code
      /\ /\ g.test \in {"link", "ping"} /\ "PORT_DISABLE" \notin g.errorCode /\ Failing(code)
         /\ g.test = "link" => "TEST_PING" \notin g.errorCode /\ "TEST_SPEED" \notin g.errorCode
         => ~Passed(o)
  BY <1>2, RunTestEffect
<1> HIDE DEF code
<1>9. QED
  BY <1>1, <1>7, <1>8 DEF Disabled

-----------------------------------------------------------------------------
(* The state machine of a port *)

(* The record of a port is sound. *)
Sound(r) ==
  /\ r \in PortInfo
  /\ r.errorTestCount <= demonParam.test_num /\ r.resetCount <= demonParam.max_reset
  /\ CodeInv(r) /\ RestartInv(r)

(* What the restart and the counters of s have from those of r. *)
SameRestart(r, s) ==
  r.rebootState = s.rebootState /\ r.rebootEvent = s.rebootEvent /\ r.wait = s.wait

(* The steps of HandlePort from r to s, with the power it asks for. *)
Rests(r, s, power) ==
  /\ SameRestart(r, s) /\ s.resetCount = r.resetCount /\ s.errorTestCount = r.errorTestCount
  /\ Disabled(r) \/ r.rebootState = "IDLE"
  /\ power = "keep"

Watches(r, s, power) ==
  /\ SameRestart(r, s) /\ s.resetCount = r.resetCount
  /\ ~Disabled(r) /\ r.state = "REGULAR" /\ r.rebootState = "IDLE"
  /\ s.errorTestCount <= r.errorTestCount + IF Failing(r.errorCode) THEN 1 ELSE 0
  /\ power # "keep" => r.test = "time"

Begins(r, s, power) ==
  /\ r.rebootState = "IDLE" /\ s.rebootState = "INIT" /\ s.rebootEvent = r.rebootEvent
  /\ s.errorTestCount = 0
  /\ \/ "MANUAL_RESTART" \notin r.event /\ s.resetCount = r.resetCount + 1
     \/ "MANUAL_RESTART" \in r.event /\ s.event = {} /\ s.resetCount = 0
  /\ power = "keep"

Arms(r, s, power) ==
  /\ r.rebootState = "INIT" /\ s.rebootState = "POE_DOWN" /\ "START" \in s.rebootEvent
  /\ s.wait = TimeDelay /\ s.resetCount = r.resetCount /\ s.errorTestCount = r.errorTestCount
  /\ power = "keep"

Cuts(r, s, power) ==
  /\ r.rebootState = "POE_DOWN" /\ "START" \notin s.rebootEvent
  /\ s.rebootState = IF r.wait = 0 THEN "POE_UP" ELSE "POE_DOWN"
  /\ s.wait = r.wait /\ s.resetCount = r.resetCount /\ s.errorTestCount = r.errorTestCount
  /\ r.state = "REBOOT"
  /\ power = IF "START" \in r.rebootEvent THEN "down" ELSE "keep"

Restores(r, s, power) ==
  /\ ~Disabled(r)
  /\ r.rebootState = "POE_UP" /\ s.rebootState = "IDLE" /\ "START" \notin s.rebootEvent
  /\ s.resetCount = r.resetCount /\ s.errorTestCount = r.errorTestCount
  /\ power = "up"

Moves(r, s, power) ==
  \/ Rests(r, s, power) \/ Watches(r, s, power) \/ Begins(r, s, power)
  \/ Arms(r, s, power) \/ Cuts(r, s, power) \/ Restores(r, s, power)

(* A round's view of a port that is being watched (test_ErrorHandler). *)
LEMMA WatchStep ==
  ASSUME demonParam \in DemonParams, NEW r, Sound(r), ~Disabled(r), r.state = "REGULAR"
  PROVE  LET h == test_ErrorHandler(r) IN
         Sound(h.info) /\ h.info.test = r.test /\ ~Disabled(h.info)
         /\ Watches(r, h.info, h.power)
<1> DEFINE n == CountAfter(r.errorCode, r.errorTestCount, demonParam.test_num)
           fatal == Failing(r.errorCode) /\ n = demonParam.test_num
           ev == IF fatal THEN r.event \cup {"AUTO_RESTART"} ELSE r.event
           st == IF fatal THEN "REBOOT" ELSE r.state
           s == [r EXCEPT !.errorTestCount = n, !.event = ev, !.state = st,
                          !.errorCode = r.errorCode \ {"TIME_ALARM"}]
<1>1. r \in PortInfo /\ r.errorTestCount \in Nat /\ r.errorTestCount <= demonParam.test_num
  BY DEF Sound, PortInfo
<1>2. demonParam.test_num \in Nat
  BY AutorestartAssumption
<1>3. /\ n \in Nat /\ n <= demonParam.test_num
      /\ n <= r.errorTestCount + IF Failing(r.errorCode) THEN 1 ELSE 0
  BY <1>1, <1>2 DEF CountAfter
<1>4. r.rebootState = "IDLE" /\ r.event = {}
  BY DEF Sound, RestartInv
<1>5. /\ test_ErrorHandler(r).info = s
      /\ test_ErrorHandler(r).power # "keep" => "TIME_ALARM" \in r.errorCode
  BY DEF test_ErrorHandler
<1>6. /\ ev \in SUBSET {"AUTO_RESTART", "MANUAL_RESTART"}
      /\ st \in {"REGULAR", "REBOOT"} /\ (ev # {} => st = "REBOOT" /\ ev = {"AUTO_RESTART"})
  BY <1>4
<1> HIDE DEF n, ev, st
<1>7. /\ s \in PortInfo /\ s.errorTestCount = n /\ s.event = ev /\ s.state = st
      /\ s.errorCode = r.errorCode \ {"TIME_ALARM"} /\ s.test = r.test
      /\ s.resetCount = r.resetCount /\ SameRestart(r, s)
  BY <1>1, <1>3, <1>6 DEF PortInfo, SameRestart
<1> HIDE DEF s
<1>8. CodeInv(s) /\ ~Disabled(s)
  BY <1>6, <1>7 DEF Sound, CodeInv, Disabled, Failing
<1>9. RestartInv(s)
  BY <1>4, <1>6, <1>7 DEF Sound, RestartInv, SameRestart
<1>10. Sound(s)
  BY <1>3, <1>7, <1>8, <1>9 DEF Sound
<1>11. test_ErrorHandler(r).power # "keep" => r.test = "time"
  BY <1>5 DEF Sound, CodeInv
<1>12. Watches(r, s, test_ErrorHandler(r).power)
  BY <1>3, <1>4, <1>7, <1>11 DEF Watches
<1>13. QED
  BY <1>5, <1>7, <1>8, <1>10, <1>12

(* A restart is begun or refused (autoResetHandler, manualResetHandler). *)
LEMMA IdleStep ==
  ASSUME demonParam \in DemonParams, NEW r, Sound(r), ~Disabled(r),
         r.state = "REBOOT", r.rebootState = "IDLE"
  PROVE  LET h == RebootIdle(r) IN
         Sound(h.info) /\ h.info.test = r.test /\ ~Disabled(h.info)
         /\ (Rests(r, h.info, h.power) \/ Begins(r, h.info, h.power))
<1>1. /\ r \in PortInfo /\ r.errorTestCount \in Nat /\ r.resetCount \in Nat
      /\ r.errorCode \in SUBSET ErrorBits /\ CodeInv(r) /\ RestartInv(r)
      /\ r.resetCount <= demonParam.max_reset
  BY DEF Sound, PortInfo
<1>2. /\ demonParam.test_num \in Nat /\ demonParam.max_reset \in Nat
  BY AutorestartAssumption
<1>3. r.event = {} \/ r.event = {"AUTO_RESTART"} \/ r.event = {"MANUAL_RESTART"}
  BY <1>1 DEF RestartInv
<1>4. "START" \notin r.rebootEvent /\ "TIMER_STOP" \notin r.rebootEvent
  BY <1>1 DEF RestartInv
<1>5. RebootIdle(r).power = "keep"
  BY DEF RebootIdle
<1>6. CASE r.event = {}
  <2>1. RebootIdle(r).info = r
    BY <1>6 DEF RebootIdle
  <2>2. QED
    BY <1>5, <2>1 DEF Rests, SameRestart
<1>7. CASE r.event = {"AUTO_RESTART"} /\ r.resetCount >= demonParam.max_reset
  <2> DEFINE s == [r EXCEPT !.event = {}, !.errorCode = (r.errorCode \ {"OK"}) \cup {"PORT_SHUTDOWN"},
                            !.state = "IDLE", !.rebootState = "IDLE"]
             a == [r EXCEPT !.event = r.event \ {"AUTO_RESTART"}]
  <2>1. /\ a \in PortInfo /\ a.event = {} /\ a.resetCount = r.resetCount
        /\ a.errorCode = r.errorCode
    BY <1>1, <1>7 DEF PortInfo
  <2>2. autoResetHandler(a) = s
    BY <1>1, <1>7, <2>1 DEF autoResetHandler, PortInfo
  <2>3. s.event = {}
    BY <1>1 DEF PortInfo
  <2>4. RebootIdle(r).info = s
    BY <1>7, <2>2, <2>3 DEF RebootIdle
  <2>5. (r.errorCode \ {"OK"}) \cup {"PORT_SHUTDOWN"} \in SUBSET ErrorBits
    BY <1>1 DEF ErrorBits
  <2>6. /\ s \in PortInfo /\ s.errorCode = (r.errorCode \ {"OK"}) \cup {"PORT_SHUTDOWN"}
        /\ s.state = "IDLE" /\ s.rebootState = "IDLE" /\ s.rebootEvent = r.rebootEvent
        /\ s.test = r.test /\ s.resetCount = r.resetCount
        /\ s.errorTestCount = r.errorTestCount /\ s.wait = r.wait
    BY <1>1, <2>5 DEF PortInfo
  <2> HIDE DEF s, a
  <2>7. CodeInv(s) /\ ~Disabled(s)
    BY <1>1, <2>6 DEF CodeInv, Disabled, Failing
  <2>8. RestartInv(s) /\ Rests(r, s, "keep")
    BY <1>1, <1>4, <2>3, <2>6 DEF RestartInv, Rests, SameRestart
  <2>9. QED
    BY <1>5, <2>4, <2>6, <2>7, <2>8 DEF Sound
<1>8. CASE r.event = {"AUTO_RESTART"} /\ ~(r.resetCount >= demonParam.max_reset)
  <2> DEFINE s == [r EXCEPT !.event = {}, !.errorCode = r.errorCode \ {"OK"},
                            !.errorTestCount = 0, !.resetCount = r.resetCount + 1,
                            !.rebootState = "INIT"]
             a == [r EXCEPT !.event = r.event \ {"AUTO_RESTART"}]
  <2>1. /\ a \in PortInfo /\ a.event = {} /\ a.resetCount = r.resetCount
        /\ a.errorCode = r.errorCode
    BY <1>1, <1>8 DEF PortInfo
  <2>2. autoResetHandler(a) = s
    BY <1>1, <1>8, <2>1 DEF autoResetHandler, PortInfo
  <2>3. s.event = {}
    BY <1>1 DEF PortInfo
  <2>4. RebootIdle(r).info = s
    BY <1>8, <2>2, <2>3 DEF RebootIdle
  <2>5. r.errorCode \ {"OK"} \in SUBSET ErrorBits /\ r.resetCount + 1 \in Nat
        /\ r.resetCount + 1 <= demonParam.max_reset
    BY <1>1, <1>2, <1>8
  <2>6. /\ s \in PortInfo /\ s.errorCode = r.errorCode \ {"OK"}
        /\ s.state = "REBOOT" /\ s.rebootState = "INIT" /\ s.rebootEvent = r.rebootEvent
        /\ s.test = r.test /\ s.resetCount = r.resetCount + 1
        /\ s.errorTestCount = 0
    BY <1>1, <2>5 DEF PortInfo
  <2> HIDE DEF s, a
  <2>7. CodeInv(s) /\ ~Disabled(s)
    BY <1>1, <2>6 DEF CodeInv, Disabled, Failing
  <2>8. RestartInv(s) /\ Begins(r, s, "keep")
    BY <1>1, <1>4, <1>8, <2>3, <2>6 DEF RestartInv, Begins
  <2>9. QED
    BY <1>2, <1>5, <2>4, <2>5, <2>6, <2>7, <2>8 DEF Sound
<1>9. CASE r.event = {"MANUAL_RESTART"}
  <2> DEFINE s == [r EXCEPT !.event = {}, !.errorCode = r.errorCode \ {"OK", "PORT_SHUTDOWN"},
                            !.errorTestCount = 0, !.resetCount = 0, !.rebootState = "INIT"]
             a == [r EXCEPT !.event = r.event \ {"MANUAL_RESTART"}]
  <2>1. a \in PortInfo /\ a.event = {} /\ a.errorCode = r.errorCode
    BY <1>1, <1>9 DEF PortInfo
  <2>2. manualResetHandler(a) = s
    BY <1>1, <1>9, <2>1 DEF manualResetHandler, PortInfo
  <2>3. s.event = {}
    BY <1>1 DEF PortInfo
  <2>4. RebootIdle(r).info = s
    BY <1>9, <2>2 DEF RebootIdle
  <2>5. r.errorCode \ {"OK", "PORT_SHUTDOWN"} \in SUBSET ErrorBits /\ 0 \in Nat
    BY <1>1
  <2>6. /\ s \in PortInfo /\ s.errorCode = r.errorCode \ {"OK", "PORT_SHUTDOWN"}
        /\ s.state = "REBOOT" /\ s.rebootState = "INIT" /\ s.rebootEvent = r.rebootEvent
        /\ s.test = r.test /\ s.resetCount = 0 /\ s.errorTestCount = 0
    BY <1>1, <2>5 DEF PortInfo
  <2> HIDE DEF s, a
  <2>7. CodeInv(s) /\ ~Disabled(s)
    BY <1>1, <2>6 DEF CodeInv, Disabled, Failing
  <2>8. RestartInv(s) /\ Begins(r, s, "keep")
    BY <1>1, <1>4, <1>9, <2>3, <2>6 DEF RestartInv, Begins
  <2>9. QED
    BY <1>2, <1>5, <2>4, <2>6, <2>7, <2>8 DEF Sound
<1>10. QED
  BY <1>3, <1>6, <1>7, <1>8, <1>9

(* A restart that has begun takes its steps (rebootHandler). *)
LEMMA RestartSteps ==
  ASSUME demonParam \in DemonParams, NEW r, Sound(r), ~Disabled(r),
         r.state = "REBOOT", r.rebootState # "IDLE"
  PROVE  LET h == rebootHandler(r) IN
         Sound(h.info) /\ h.info.test = r.test /\ ~Disabled(h.info)
         /\ (Arms(r, h.info, h.power) \/ Cuts(r, h.info, h.power) \/ Restores(r, h.info, h.power))
<1>1. /\ r \in PortInfo /\ r.rebootEvent \in SUBSET {"START", "TIMER_STOP", "DONE"}
      /\ r.rebootState \in {"INIT", "POE_DOWN", "POE_UP"}
      /\ CodeInv(r) /\ RestartInv(r)
  BY DEF Sound, PortInfo
<1>2. r.event = {}
  BY <1>1 DEF RestartInv
<1> DEFINE upd(ev, rs, st, w) == [r EXCEPT !.rebootEvent = ev, !.rebootState = rs, !.state = st,
                                           !.wait = w]
<1>3. ASSUME NEW ev \in SUBSET {"START", "TIMER_STOP", "DONE"},
             NEW rs \in {"IDLE", "INIT", "POE_DOWN", "POE_UP"},
             NEW st \in {"REBOOT", "REGULAR"}, NEW w \in Nat,
             rs # "IDLE" => st = "REBOOT", rs # "INIT",
             "START" \in ev => rs = "POE_DOWN", "TIMER_STOP" \in ev <=> rs = "POE_UP"
      PROVE  LET s == upd(ev, rs, st, w) IN
             /\ Sound(s) /\ s.test = r.test /\ ~Disabled(s) /\ s.rebootEvent = ev
             /\ s.rebootState = rs /\ s.state = st /\ s.wait = w
             /\ s.resetCount = r.resetCount /\ s.errorTestCount = r.errorTestCount
  <2> DEFINE s == upd(ev, rs, st, w)
  <2>1. /\ s \in PortInfo /\ s.test = r.test /\ s.rebootEvent = ev /\ s.event = {}
        /\ s.rebootState = rs /\ s.state = st /\ s.wait = w /\ s.errorCode = r.errorCode
        /\ s.resetCount = r.resetCount /\ s.errorTestCount = r.errorTestCount
    BY <1>1, <1>2 DEF PortInfo
  <2> HIDE DEF s
  <2>2. CodeInv(s) /\ ~Disabled(s)
    BY <1>1, <2>1 DEF CodeInv, Disabled
  <2>3. RestartInv(s)
    BY <1>3, <2>1 DEF RestartInv
  <2>4. QED
    BY <2>1, <2>2, <2>3 DEF Sound, s
<1>4. CASE r.rebootState = "INIT"
  <2> DEFINE ev == r.rebootEvent \cup {"START"}
             s == upd(ev, "POE_DOWN", "REBOOT", TimeDelay)
  <2>1. rebootHandler(r).info = s /\ rebootHandler(r).power = "keep"
    BY <1>1, <1>4 DEF rebootHandler, RebootInit, PortInfo
  <2>2. ev \in SUBSET {"START", "TIMER_STOP", "DONE"} /\ "TIMER_STOP" \notin ev /\ "START" \in ev
    BY <1>1, <1>4 DEF RestartInv
  <2>3. TimeDelay \in Nat
    BY AutorestartAssumption
  <2> HIDE DEF ev, upd
  <2>4. /\ Sound(s) /\ s.test = r.test /\ ~Disabled(s) /\ s.rebootEvent = ev
        /\ s.rebootState = "POE_DOWN" /\ s.wait = TimeDelay
        /\ s.resetCount = r.resetCount /\ s.errorTestCount = r.errorTestCount
    BY <1>3, <2>2, <2>3
  <2> HIDE DEF s
  <2>5. QED
    BY <1>4, <2>1, <2>2, <2>4 DEF Arms
<1>5. CASE r.rebootState = "POE_DOWN"
  <2>1. "TIMER_STOP" \notin r.rebootEvent /\ r.wait \in Nat
    BY <1>1, <1>5 DEF RestartInv, PortInfo
  <2> DEFINE stop == r.wait = 0
             ev == (r.rebootEvent \ {"START"}) \cup (IF stop THEN {"TIMER_STOP"} ELSE {})
             rs == IF stop THEN "POE_UP" ELSE "POE_DOWN"
             s == upd(ev, rs, "REBOOT", r.wait)
  <2>2. /\ rebootHandler(r).info = s
        /\ rebootHandler(r).power = IF "START" \in r.rebootEvent THEN "down" ELSE "keep"
    BY <1>1, <1>5, <2>1 DEF rebootHandler, RebootPoeDown, checkTimePoeUP, PortInfo
  <2>3. /\ ev \in SUBSET {"START", "TIMER_STOP", "DONE"} /\ "START" \notin ev
        /\ \/ "TIMER_STOP" \in ev /\ rs = "POE_UP"
           \/ "TIMER_STOP" \notin ev /\ rs = "POE_DOWN"
    BY <1>1, <2>1
  <2> HIDE DEF ev, upd, rs
  <2>4. /\ Sound(s) /\ s.test = r.test /\ ~Disabled(s) /\ s.rebootEvent = ev
        /\ s.rebootState = rs /\ s.wait = r.wait
        /\ s.resetCount = r.resetCount /\ s.errorTestCount = r.errorTestCount
    <3>1. CASE "TIMER_STOP" \in ev /\ rs = "POE_UP"
      BY <1>3, <2>1, <2>3, <3>1
    <3>2. CASE "TIMER_STOP" \notin ev /\ rs = "POE_DOWN"
      BY <1>3, <2>1, <2>3, <3>2
    <3>3. QED
      BY <2>3, <3>1, <3>2
  <2> HIDE DEF s
  <2>5. QED
    BY <1>5, <2>2, <2>3, <2>4 DEF Cuts, rs
<1>6. CASE r.rebootState = "POE_UP"
  <2>1. "TIMER_STOP" \in r.rebootEvent /\ "START" \notin r.rebootEvent /\ r.wait \in Nat
    BY <1>1, <1>6 DEF RestartInv, PortInfo
  <2> DEFINE ev == (r.rebootEvent \ {"TIMER_STOP"}) \cup {"DONE"}
             s == upd(ev, "IDLE", "REGULAR", r.wait)
  <2>2. rebootHandler(r).info = s /\ rebootHandler(r).power = "up"
    BY <1>1, <1>6, <2>1 DEF rebootHandler, RebootPoeUp, PortInfo
  <2>3. /\ ev \in SUBSET {"START", "TIMER_STOP", "DONE"} /\ "START" \notin ev
        /\ "TIMER_STOP" \notin ev
    BY <1>1, <2>1
  <2> HIDE DEF ev, upd
  <2>4. /\ Sound(s) /\ s.test = r.test /\ ~Disabled(s) /\ s.rebootEvent = ev
        /\ s.rebootState = "IDLE"
        /\ s.resetCount = r.resetCount /\ s.errorTestCount = r.errorTestCount
    BY <1>3, <2>1, <2>3
  <2> HIDE DEF s
  <2>5. QED
    BY <1>6, <2>2, <2>3, <2>4 DEF Restores
<1>7. QED
  BY <1>1, <1>4, <1>5, <1>6

(* A round's effect on a port after the tests (HandlePort). *)
LEMMA HandleEffect ==
  ASSUME demonParam \in DemonParams, NEW r, Sound(r)
  PROVE  LET h == HandlePort(r) IN
         /\ Sound(h.info) /\ h.info.test = r.test /\ (Disabled(h.info) <=> Disabled(r))
         /\ Moves(r, h.info, h.power)
<1>1. r.state \in {"IDLE", "REGULAR", "REBOOT"}
  BY DEF Sound, PortInfo
<1>2. CASE Disabled(r) \/ r.state = "IDLE"
  <2>1. HandlePort(r) = [info |-> r, power |-> "keep"]
    BY <1>2 DEF HandlePort, Disabled
  <2>2. Disabled(r) \/ r.rebootState = "IDLE"
    BY <1>2 DEF Sound, RestartInv
  <2>3. QED
    BY <2>1, <2>2 DEF Moves, Rests, SameRestart
<1>3. CASE ~Disabled(r) /\ r.state = "REGULAR"
  <2>1. HandlePort(r) = test_ErrorHandler(r)
    BY <1>3 DEF HandlePort, Disabled
  <2>2. QED
    BY <1>3, <2>1, WatchStep DEF Moves
<1>4. CASE ~Disabled(r) /\ r.state = "REBOOT" /\ r.rebootState = "IDLE"
  <2>1. HandlePort(r) = RebootIdle(r)
    BY <1>4 DEF HandlePort, Disabled, rebootHandler
  <2>2. QED
    BY <1>4, <2>1, IdleStep DEF Moves
<1>5. CASE ~Disabled(r) /\ r.state = "REBOOT" /\ r.rebootState # "IDLE"
  <2>1. HandlePort(r) = rebootHandler(r)
    BY <1>5 DEF HandlePort, Disabled
  <2>2. QED
    BY <1>5, <2>1, RestartSteps DEF Moves
<1>6. QED
  BY <1>1, <1>2, <1>3, <1>4, <1>5

(* The tests of a round leave the record sound, and of a link or ping test *)
(* a failure remains only if it failed now.                                *)
LEMMA TestedSound ==
  ASSUME NEW r, Sound(r), NEW en \in BOOLEAN, NEW o \in Outcome(r.test)
  PROVE  LET q == IF RunTests THEN createTread(r, en, o) ELSE r IN
         /\ Sound(q) /\ SameRestart(r, q) /\ q.test = r.test /\ q.event = r.event
         /\ q.errorTestCount = r.errorTestCount /\ q.resetCount = r.resetCount
         /\ q.state = r.state \/ (q.state = "IDLE" /\ Disabled(q))
         /\ Disabled(r) => Disabled(q)
         /\ r.test \in {"link", "ping"} /\ ~Disabled(q) /\ Failing(q.errorCode)
              => RunTests /\ ~Passed(o)
<1>1. CASE ~RunTests
  BY <1>1 DEF Sound, CodeInv, SameRestart
<1>2. CASE RunTests
  <2> DEFINE q == createTread(r, en, o)
  <2>1. r \in PortInfo /\ CodeInv(r) /\ RestartInv(r)
    BY DEF Sound
  <2>2. /\ q \in PortInfo
        /\ q.test = r.test /\ q.event = r.event /\ q.rebootState = r.rebootState
        /\ q.rebootEvent = r.rebootEvent /\ q.wait = r.wait
        /\ q.errorTestCount = r.errorTestCount /\ q.resetCount = r.resetCount
        /\ q.state = r.state \/ (q.state = "IDLE" /\ Disabled(q))
        /\ Disabled(r) => Disabled(q)
        /\ "TIME_ALARM" \in q.errorCode => "TIME_ALARM" \in r.errorCode \/ r.test = "time"
        /\ "PORT_SHUTDOWN" \in r.errorCode /\ r.test # "ping" => "PORT_SHUTDOWN" \in q.errorCode
        /\ r.test = "link" /\ "TEST_PING" \notin r.errorCode /\ "TEST_SPEED" \notin r.errorCode
             => "TEST_PING" \notin q.errorCode /\ "TEST_SPEED" \notin q.errorCode
        /\ /\ r.test \in {"link", "ping"} /\ ~Disabled(q) /\ Failing(q.errorCode)
           /\ r.test = "link" => "TEST_PING" \notin r.errorCode /\ "TEST_SPEED" \notin r.errorCode
           => ~Passed(o)
    BY <2>1, TestedEffect
  <2> HIDE DEF q
  <2>3. CodeInv(q)
    BY <1>2, <2>1, <2>2 DEF CodeInv
  <2>4. RestartInv(q)
    BY <2>1, <2>2 DEF RestartInv
  <2>5. Sound(q)
    BY <2>2, <2>3, <2>4 DEF Sound
  <2>6. QED
    BY <1>2, <2>1, <2>2, <2>5 DEF SameRestart, CodeInv, q
<1>3. QED
  BY <1>1, <1>2

(* A step of a port and its power: what is off is being restarted. *)
LEMMA PowerStep ==
  ASSUME NEW r, NEW s, NEW power, NEW isOn \in BOOLEAN, NEW isOn2 \in BOOLEAN,
         Sound(r), Moves(r, s, power), PowerInv(r, isOn), s.test = r.test,
         isOn2 <=> (power = "up" \/ (isOn /\ power = "keep"))
  PROVE  PowerInv(s, isOn2)
<1> SUFFICES ASSUME ~isOn2, s.test # "time"
             PROVE  s.rebootState \in {"POE_DOWN", "POE_UP"} /\ "START" \notin s.rebootEvent
  BY DEF PowerInv
<1>1. CASE Rests(r, s, power) \/ Watches(r, s, power)
  BY <1>1 DEF Rests, Watches, SameRestart, PowerInv
<1>2. CASE Begins(r, s, power) \/ Arms(r, s, power) \/ Restores(r, s, power)
  BY <1>2 DEF Begins, Arms, Restores, PowerInv
<1>3. CASE Cuts(r, s, power)
  BY <1>3 DEF Cuts
<1>4. QED
  BY <1>1, <1>2, <1>3 DEF Moves

(* A step of a port and the number of its restarts. *)
LEMMA CutsStep ==
  ASSUME demonParam \in DemonParams, NEW r, NEW s, NEW power, NEW n \in Nat, NEW n2 \in Nat,
         Sound(r), Sound(s), Moves(r, s, power), CutsInv(r, n),
         n2 = IF "MANUAL_RESTART" \in r.event /\ s.event = {} THEN 0
              ELSE IF power = "down" /\ r.state = "REBOOT"
                THEN Min2(n + 1, demonParam.max_reset + 2) ELSE n
  PROVE  CutsInv(s, n2)
<1>1. /\ r.resetCount \in Nat /\ s.resetCount \in Nat /\ demonParam.max_reset \in Nat
      /\ Pending(r) \in {0, 1} /\ Pending(s) \in {0, 1}
  BY AutorestartAssumption DEF Sound, PortInfo, Pending
<1>2. CASE n2 = 0
  BY <1>1, <1>2 DEF CutsInv
<1>3. CASE n2 # 0
  <2>1. ~("MANUAL_RESTART" \in r.event /\ s.event = {})
    BY <1>3
  <2>2. n2 <= IF power = "down" /\ r.state = "REBOOT" THEN n + 1 ELSE n
    BY <1>1, <2>1 DEF Min2
  <2>3. n + Pending(r) <= r.resetCount + 1
    BY DEF CutsInv
  <2>4. CASE Rests(r, s, power)
    <3>1. Pending(s) = Pending(r) /\ n2 <= n
      BY <1>1, <2>2, <2>4 DEF Rests, SameRestart, Pending
    <3>2. QED
      BY <1>1, <2>3, <2>4, <3>1 DEF Rests, CutsInv
  <2>5. CASE Watches(r, s, power)
    <3>1. Pending(s) = Pending(r) /\ n2 <= n
      BY <1>1, <2>2, <2>5 DEF Watches, SameRestart, Pending
    <3>2. QED
      BY <1>1, <2>3, <2>5, <3>1 DEF Watches, CutsInv
  <2>6. CASE Begins(r, s, power)
    <3>1. n2 <= n /\ s.resetCount = r.resetCount + 1
      BY <1>1, <2>1, <2>2, <2>6 DEF Begins
    <3>2. QED
      BY <1>1, <2>3, <3>1 DEF CutsInv
  <2>7. CASE Arms(r, s, power)
    <3>1. n2 <= n /\ s.resetCount = r.resetCount /\ Pending(r) = 1
      BY <1>1, <2>2, <2>7 DEF Arms, Pending
    <3>2. QED
      BY <1>1, <2>3, <3>1 DEF CutsInv
  <2>8. CASE Cuts(r, s, power)
    <3>1. n2 <= n + Pending(r) /\ s.resetCount = r.resetCount /\ Pending(s) = 0
      BY <1>1, <2>2, <2>8 DEF Cuts, Pending
    <3>2. QED
      BY <1>1, <2>3, <3>1 DEF CutsInv
  <2>9. CASE Restores(r, s, power)
    <3>1. n2 <= n /\ s.resetCount = r.resetCount /\ Pending(s) = 0
      BY <1>1, <2>2, <2>9 DEF Restores, Pending
    <3>2. QED
      BY <1>1, <2>3, <3>1 DEF CutsInv
  <2>10. QED
    BY <2>4, <2>5, <2>6, <2>7, <2>8, <2>9 DEF Moves
<1>4. QED
  BY <1>2, <1>3

(* A step of a port and the timer of its restart, in a round that is late  *)
(* by -d.                                                                  *)
LEMMA TimeStep ==
  ASSUME demonParam \in DemonParams, NEW r, NEW s, NEW power, NEW d \in Int,
         NEW off \in Nat, NEW off2 \in Nat,
         Sound(r), Sound(s), Moves(r, s, power), TimeInv(r, d, off), d <= 0, d >= -MaxLag,
         Disabled(s) <=> Disabled(r),
         off2 = IF power = "down" THEN 0 ELSE off
  PROVE  TimeInv(s, d + demonParam.test_delay, off2)
<1> SUFFICES ASSUME ~Disabled(s)
             PROVE  TimeInv(s, d + demonParam.test_delay, off2)
  BY DEF TimeInv
<1>1. /\ r.wait \in Nat /\ s.wait \in Nat /\ demonParam.test_delay \in Nat
      /\ TimeDelay \in Nat /\ MaxLag \in Nat
  BY AutorestartAssumption DEF Sound, PortInfo
<1>2. CASE Rests(r, s, power) \/ Watches(r, s, power) \/ Begins(r, s, power) \/ Restores(r, s, power)
  <2>1. s.rebootState \in {"IDLE", "INIT"}
    BY <1>2 DEF Rests, Watches, Begins, Restores, SameRestart
  <2>2. QED
    BY <2>1 DEF TimeInv
<1>3. CASE Arms(r, s, power)
  <2>1. s.rebootState = "POE_DOWN" /\ "START" \in s.rebootEvent /\ s.wait = TimeDelay
    BY <1>3 DEF Arms
  <2>2. QED
    BY <1>1, <2>1 DEF TimeInv
<1>4. CASE Cuts(r, s, power)
  <2>1. /\ r.rebootState = "POE_DOWN" /\ "START" \notin s.rebootEvent /\ s.wait = r.wait
        /\ s.rebootState = IF r.wait = 0 THEN "POE_UP" ELSE "POE_DOWN"
        /\ off2 = IF "START" \in r.rebootEvent THEN 0 ELSE off
    BY <1>4 DEF Cuts
  <2>2. IF "START" \in r.rebootEvent
          THEN r.wait + demonParam.test_delay >= TimeDelay + d
          ELSE off + r.wait + demonParam.test_delay + MaxLag >= TimeDelay
    BY <2>1 DEF TimeInv
  <2>3. off2 + s.wait + demonParam.test_delay + MaxLag >= TimeDelay
    BY <1>1, <2>1, <2>2
  <2>4. r.wait = 0 => off2 + (d + demonParam.test_delay) + 2 * MaxLag >= TimeDelay
    BY <1>1, <2>1, <2>2
  <2>5. QED
    BY <2>1, <2>3, <2>4 DEF TimeInv
<1>5. QED
  BY <1>2, <1>3, <1>4 DEF Moves

-----------------------------------------------------------------------------
(* The loop *)

(* What a round does to one port. *)
LEMMA RoundOfPort ==
  ASSUME Inv, NEW o \in [Ports -> UNION {Outcome(t) : t \in Tests}],
         \A p \in Ports : o[p] \in Answers(port[p].test, p \in dead),
         NEW p \in Ports
  PROVE  LET r == port[p]
             q == Tested(o)[p]
             h == Handled(o)[p]
         IN /\ Sound(r) /\ Sound(q) /\ Sound(h.info) /\ SameRestart(r, q)
            /\ q.test = r.test /\ q.event = r.event /\ h.info.test = r.test
            /\ q.errorTestCount = r.errorTestCount /\ q.resetCount = r.resetCount
            /\ q.state = r.state \/ q.state = "IDLE"
            /\ Disabled(r) => Disabled(q)
            /\ Disabled(h.info) <=> Disabled(q)
            /\ r.test \in {"link", "ping"} /\ ~Disabled(q) /\ Failing(q.errorCode)
                 => RunTests /\ ~Passed(o[p])
            /\ Moves(q, h.info, h.power)
<1> DEFINE r == port[p]
           q == Tested(o)[p]
<1>1. Sound(r) /\ demonParam \in DemonParams
  BY DEF Inv, TypeOK, PortInv, Sound
<1>2. o[p] \in Outcome(r.test)
  BY DEF Answers
<1>3. q = IF RunTests THEN createTread(r, p \in enabled, o[p]) ELSE r
  BY DEF Tested
<1>4. Handled(o)[p] = HandlePort(q)
  BY DEF Handled
<1> HIDE DEF q, r
<1>5. /\ Sound(q) /\ SameRestart(r, q) /\ q.test = r.test /\ q.event = r.event
      /\ q.errorTestCount = r.errorTestCount /\ q.resetCount = r.resetCount
      /\ q.state = r.state \/ (q.state = "IDLE" /\ Disabled(q))
      /\ Disabled(r) => Disabled(q)
      /\ r.test \in {"link", "ping"} /\ ~Disabled(q) /\ Failing(q.errorCode)
           => RunTests /\ ~Passed(o[p])
  <2>1. \A en \in BOOLEAN :
          LET x == IF RunTests THEN createTread(r, en, o[p]) ELSE r IN
          /\ Sound(x) /\ SameRestart(r, x) /\ x.test = r.test /\ x.event = r.event
          /\ x.errorTestCount = r.errorTestCount /\ x.resetCount = r.resetCount
          /\ x.state = r.state \/ (x.state = "IDLE" /\ Disabled(x))
          /\ Disabled(r) => Disabled(x)
          /\ r.test \in {"link", "ping"} /\ ~Disabled(x) /\ Failing(x.errorCode)
               => RunTests /\ ~Passed(o[p])
    BY <1>1, <1>2, TestedSound
  <2>2. (p \in enabled) \in BOOLEAN
    OBVIOUS
  <2>3. PICK en \in BOOLEAN : en = (p \in enabled)
    BY <2>2
  <2>4. q = IF RunTests THEN createTread(r, en, o[p]) ELSE r
    BY <1>3, <2>3
  <2>5. QED
    BY <2>1, <2>4
<1>6. /\ Sound(HandlePort(q).info) /\ HandlePort(q).info.test = q.test
      /\ Disabled(HandlePort(q).info) <=> Disabled(q)
      /\ Moves(q, HandlePort(q).info, HandlePort(q).power)
  BY <1>1, <1>5, HandleEffect
<1>7. QED
  BY <1>1, <1>4, <1>5, <1>6 DEF q, r

(* A step of a port and its failed tests. *)
LEMMA FailsStep ==
  ASSUME demonParam \in DemonParams, NEW r, NEW q, NEW s, NEW power, NEW n \in Nat, NEW n2 \in Nat,
         NEW failed \in BOOLEAN,
         Sound(r), Sound(q), Sound(s), Moves(q, s, power), FailsInv(r, n),
         q.test = r.test, s.test = r.test, q.errorTestCount = r.errorTestCount,
         q.state = r.state \/ q.state = "IDLE",
         r.test \in {"link", "ping"} /\ ~Disabled(q) /\ Failing(q.errorCode) => failed,
         n2 = IF s.rebootState = "INIT" THEN 0
              ELSE IF r.state = "REGULAR" /\ failed THEN Min2(n + 1, demonParam.test_num) ELSE n
  PROVE  FailsInv(s, n2)
<1> SUFFICES ASSUME r.test \in {"link", "ping"}
             PROVE  s.errorTestCount <= n2
  BY DEF FailsInv
<1>1. /\ r.errorTestCount \in Nat /\ s.errorTestCount \in Nat /\ demonParam.test_num \in Nat
      /\ s.errorTestCount <= demonParam.test_num /\ r.errorTestCount <= n
  BY AutorestartAssumption DEF Sound, PortInfo, FailsInv
<1>2. CASE s.rebootState = "INIT"
  BY <1>2 DEF Sound, RestartInv
<1>3. CASE s.rebootState # "INIT" /\ s.errorTestCount <= r.errorTestCount
  BY <1>1, <1>3 DEF Min2
<1>4. CASE s.rebootState # "INIT" /\ ~(s.errorTestCount <= r.errorTestCount)
  <2>1. Watches(q, s, power)
    <3>1. ~Begins(q, s, power)
      BY <1>4 DEF Begins
    <3>2. ~Rests(q, s, power) /\ ~Arms(q, s, power) /\ ~Cuts(q, s, power) /\ ~Restores(q, s, power)
      BY <1>1, <1>4 DEF Rests, Arms, Cuts, Restores
    <3>3. QED
      BY <3>1, <3>2 DEF Moves
  <2>2. /\ ~Disabled(q) /\ q.state = "REGULAR"
        /\ s.errorTestCount <= r.errorTestCount + IF Failing(q.errorCode) THEN 1 ELSE 0
    BY <2>1 DEF Watches
  <2>3. Failing(q.errorCode) /\ r.state = "REGULAR" /\ failed
    BY <1>1, <1>4, <2>2
  <2>4. QED
    BY <1>1, <1>4, <2>2, <2>3 DEF Min2
<1>5. QED
  BY <1>2, <1>3, <1>4

(* A round of the daemon (mainHandler); it also shows that a port without  *)
(* a schedule gets its power back only after its time without it.          *)
LEMMA RoundStep ==
  ASSUME Inv, mainHandler
  PROVE  /\ Inv'
         /\ \A p \in Ports : p \notin on /\ p \in on' /\ port[p].test # "time"
                               => offFor[p] + 2 * MaxLag >= TimeDelay
<1>1. PICK o \in [Ports -> UNION {Outcome(t) : t \in Tests}] :
        /\ \A p \in Ports : o[p] \in Answers(port[p].test, p \in dead)
        /\ LET h == Handled(o) IN
            /\ port' = [p \in Ports |-> h[p].info]
            /\ on' = poe_Control(h)
            /\ offFor' = [p \in Ports |-> IF h[p].power = "down" THEN 0 ELSE offFor[p]]
            /\ fails' = [p \in Ports |->
                 IF h[p].info.rebootState = "INIT" THEN 0
                 ELSE IF RunTests /\ port[p].state = "REGULAR" /\ ~Passed(o[p])
                   THEN Min2(fails[p] + 1, demonParam.test_num) ELSE fails[p]]
            /\ cuts' = [p \in Ports |->
                 IF "MANUAL_RESTART" \in port[p].event /\ h[p].info.event = {} THEN 0
                 ELSE IF h[p].power = "down" /\ port[p].state = "REBOOT"
                   THEN Min2(cuts[p] + 1, demonParam.max_reset + 2) ELSE cuts[p]]
  BY DEF mainHandler
<1>2. /\ due <= 0 /\ due' = due + demonParam.test_delay
      /\ UNCHANGED <<demonParam, pipe, enabled, dead, switches>>
  BY DEF mainHandler
<1>3. /\ TypeOK /\ due \in Int /\ due >= -MaxLag /\ demonParam \in DemonParams
      /\ demonParam.test_delay \in Nat /\ demonParam.test_num \in Nat /\ demonParam.max_reset \in Nat
      /\ MaxLag \in Nat
  BY AutorestartAssumption DEF Inv, TypeOK
<1>4. ASSUME NEW p \in Ports
      PROVE  /\ Sound(port'[p]) /\ PortInv(p)'
             /\ offFor'[p] \in Nat /\ fails'[p] \in Nat /\ cuts'[p] \in Nat
             /\ p \notin on /\ p \in on' /\ port[p].test # "time"
                  => offFor[p] + 2 * MaxLag >= TimeDelay
  <2> DEFINE r == port[p]
             q == Tested(o)[p]
             s == Handled(o)[p].info
             power == Handled(o)[p].power
  <2>1. /\ Sound(r) /\ Sound(q) /\ Sound(s) /\ SameRestart(r, q)
        /\ q.test = r.test /\ q.event = r.event /\ s.test = r.test
        /\ q.errorTestCount = r.errorTestCount /\ q.resetCount = r.resetCount
        /\ q.state = r.state \/ q.state = "IDLE"
        /\ Disabled(r) => Disabled(q)
        /\ Disabled(s) <=> Disabled(q)
        /\ r.test \in {"link", "ping"} /\ ~Disabled(q) /\ Failing(q.errorCode)
             => RunTests /\ ~Passed(o[p])
        /\ Moves(q, s, power)
    BY <1>1, RoundOfPort
  <2>2. /\ port'[p] = s
        /\ p \in on' <=> (power = "up" \/ (p \in on /\ power = "keep"))
        /\ offFor'[p] = IF power = "down" THEN 0 ELSE offFor[p]
        /\ fails'[p] = IF s.rebootState = "INIT" THEN 0
                       ELSE IF RunTests /\ r.state = "REGULAR" /\ ~Passed(o[p])
                         THEN Min2(fails[p] + 1, demonParam.test_num) ELSE fails[p]
        /\ cuts'[p] = IF "MANUAL_RESTART" \in r.event /\ s.event = {} THEN 0
                      ELSE IF power = "down" /\ r.state = "REBOOT"
                        THEN Min2(cuts[p] + 1, demonParam.max_reset + 2) ELSE cuts[p]
    BY <1>1 DEF poe_Control
  <2>3. /\ CodeInv(r) /\ RestartInv(r)
        /\ PowerInv(r, p \in on) /\ CutsInv(r, cuts[p]) /\ FailsInv(r, fails[p])
        /\ TimeInv(r, due, offFor[p])
        /\ offFor[p] \in Nat /\ fails[p] \in Nat /\ cuts[p] \in Nat
    BY DEF Inv, PortInv, TypeOK
  <2> HIDE DEF r, q, s, power
  <2>4. offFor'[p] \in Nat /\ fails'[p] \in Nat /\ cuts'[p] \in Nat
    BY <1>3, <2>2, <2>3 DEF Min2
  <2>5. CodeInv(s) /\ RestartInv(s)
    BY <2>1 DEF Sound
  <2>6. PowerInv(s, p \in on')
    <3>1. PICK isOn \in BOOLEAN, isOn2 \in BOOLEAN : (isOn <=> p \in on) /\ (isOn2 <=> p \in on')
      <4>1. (p \in on) \in BOOLEAN /\ (p \in on') \in BOOLEAN
        OBVIOUS
      <4>2. QED
        BY <4>1
    <3>2. PowerInv(q, isOn)
      BY <2>1, <2>3, <3>1 DEF PowerInv, SameRestart
    <3>3. PowerInv(s, isOn2)
      BY <2>1, <2>2, <3>1, <3>2, PowerStep
    <3>4. QED
      BY <3>1, <3>3 DEF PowerInv
  <2>7. CutsInv(s, cuts'[p])
    <3>1. CutsInv(q, cuts[p])
      BY <2>1, <2>3 DEF CutsInv, Pending, SameRestart
    <3>2. power = "down" /\ r.state = "REBOOT" => q.state = "REBOOT"
      <4>1. q.state = "IDLE" => power # "down"
        BY <2>1 DEF Moves, Rests, Watches, Begins, Arms, Cuts, Restores
      <4>2. QED
        BY <2>1, <4>1
    <3>3. q.state = "REBOOT" => r.state = "REBOOT"
      BY <2>1
    <3>4. cuts'[p] = IF "MANUAL_RESTART" \in q.event /\ s.event = {} THEN 0
                     ELSE IF power = "down" /\ q.state = "REBOOT"
                       THEN Min2(cuts[p] + 1, demonParam.max_reset + 2) ELSE cuts[p]
      BY <2>1, <2>2, <3>2, <3>3
    <3>5. QED
      BY <1>3, <2>1, <2>3, <2>4, <3>1, <3>4, CutsStep
  <2>8. FailsInv(s, fails'[p])
    <3>1. PICK failed \in BOOLEAN : failed <=> (RunTests /\ ~Passed(o[p]))
      <4>1. (RunTests /\ ~Passed(o[p])) \in BOOLEAN
        OBVIOUS
      <4>2. QED
        BY <4>1
    <3>2. fails'[p] = IF s.rebootState = "INIT" THEN 0
                      ELSE IF r.state = "REGULAR" /\ failed
                        THEN Min2(fails[p] + 1, demonParam.test_num) ELSE fails[p]
      BY <2>2, <3>1
    <3>3. QED
      BY <1>3, <2>1, <2>3, <2>4, <3>1, <3>2, FailsStep
  <2>9. TimeInv(q, due, offFor[p])
    BY <2>1, <2>3 DEF TimeInv, SameRestart
  <2>10. TimeInv(s, due + demonParam.test_delay, offFor'[p])
    BY <1>2, <1>3, <2>1, <2>2, <2>3, <2>4, <2>9, TimeStep
  <2>11. PortInv(p)'
    BY <1>2, <2>2, <2>5, <2>6, <2>7, <2>8, <2>10 DEF PortInv, TimeInv
  <2>12. ASSUME p \notin on, p \in on', r.test # "time"
         PROVE  offFor[p] + 2 * MaxLag >= TimeDelay
    <3>1. power = "up"
      BY <2>2, <2>12
    <3>2. Restores(q, s, power)
      BY <2>1, <2>12, <3>1 DEF Moves, Rests, Watches, Begins, Arms, Cuts
    <3>3. offFor[p] + due + 2 * MaxLag >= TimeDelay
      BY <2>9, <3>2 DEF Restores, TimeInv
    <3>4. TimeDelay \in Nat
      BY AutorestartAssumption
    <3>5. QED
      BY <1>2, <1>3, <2>3, <3>3, <3>4
  <2>13. QED
    BY <2>1, <2>2, <2>4, <2>11, <2>12 DEF r
<1>5. TypeOK'
  <2>1. port' \in [Ports -> PortInfo]
    BY <1>1, <1>4 DEF Sound
  <2>2. offFor' \in [Ports -> Nat] /\ fails' \in [Ports -> Nat] /\ cuts' \in [Ports -> Nat]
    BY <1>1, <1>4
  <2>3. \A p \in Ports : /\ port'[p].errorTestCount <= demonParam.test_num
                         /\ port'[p].resetCount <= demonParam.max_reset
    BY <1>4 DEF Sound
  <2>4. on' \subseteq Ports
    BY <1>1 DEF poe_Control
  <2>5. due' \in Int
    BY <1>2, <1>3
  <2>6. QED
    BY <1>2, <1>3, <2>1, <2>2, <2>3, <2>4, <2>5 DEF TypeOK
<1>6. due' >= -MaxLag
  BY <1>2, <1>3
<1>7. QED
  BY <1>4, <1>5, <1>6 DEF Inv

(* A second passes (Elapse): the timer, the round and the time without     *)
(* power move together.                                                    *)
LEMMA ElapseStep ==
  ASSUME Inv, Elapse
  PROVE  Inv'
<1>1. /\ due > -MaxLag /\ due' = due - 1
      /\ port' = [p \in Ports |-> [port[p] EXCEPT !.wait = IF @ > 0 THEN @ - 1 ELSE 0]]
      /\ offFor' = [p \in Ports |-> Min2(offFor[p] + 1, TimeDelay)]
      /\ UNCHANGED <<demonParam, pipe, outside, fails, cuts, switches>>
  BY DEF Elapse
<1>2. TypeOK /\ MaxLag \in Nat /\ TimeDelay \in Nat /\ due \in Int
      /\ demonParam.test_delay \in Nat
  BY AutorestartAssumption DEF Inv, TypeOK
<1>3. ASSUME NEW p \in Ports
      PROVE  PortInv(p)' /\ offFor'[p] \in Nat /\ port'[p] \in PortInfo
             /\ port'[p].errorTestCount = port[p].errorTestCount
             /\ port'[p].resetCount = port[p].resetCount
  <2> DEFINE r == port[p]
             s == port'[p]
             w == IF r.wait > 0 THEN r.wait - 1 ELSE 0
  <2>1. r \in PortInfo /\ r.wait \in Nat /\ offFor[p] \in Nat
    BY <1>2 DEF TypeOK, PortInfo
  <2>2. s = [r EXCEPT !.wait = w] /\ offFor'[p] = Min2(offFor[p] + 1, TimeDelay)
    BY <1>1
  <2>3. w \in Nat /\ w + 1 >= r.wait
    BY <2>1
  <2> HIDE DEF w, r
  <2>4. /\ s \in PortInfo /\ s.wait = w /\ s.test = r.test /\ s.event = r.event
        /\ s.rebootState = r.rebootState /\ s.rebootEvent = r.rebootEvent
        /\ s.errorCode = r.errorCode /\ s.state = r.state
        /\ s.errorTestCount = r.errorTestCount /\ s.resetCount = r.resetCount
    BY <2>1, <2>2, <2>3 DEF PortInfo
  <2> HIDE DEF s
  <2>5. /\ CodeInv(r) /\ RestartInv(r) /\ PowerInv(r, p \in on) /\ CutsInv(r, cuts[p])
        /\ FailsInv(r, fails[p]) /\ TimeInv(r, due, offFor[p])
    BY DEF Inv, PortInv, r
  <2>6. CodeInv(s) /\ RestartInv(s) /\ PowerInv(s, p \in on)
    BY <2>4, <2>5 DEF CodeInv, RestartInv, PowerInv, Disabled
  <2>7. CutsInv(s, cuts[p]) /\ FailsInv(s, fails[p])
    BY <2>4, <2>5 DEF CutsInv, FailsInv, Pending
  <2>8. offFor'[p] = TimeDelay \/ offFor'[p] = offFor[p] + 1
    BY <2>2 DEF Min2
  <2>9. TimeInv(s, due', offFor'[p])
    BY <1>1, <1>2, <2>1, <2>3, <2>4, <2>5, <2>8 DEF TimeInv, Disabled
  <2>10. PortInv(p)'
    BY <1>1, <2>6, <2>7, <2>9 DEF PortInv, TimeInv, outside, s
  <2>11. offFor'[p] \in Nat
    BY <1>2, <2>1, <2>8
  <2>12. QED
    BY <2>4, <2>10, <2>11 DEF r, s
<1>4. TypeOK'
  <2>1. port' \in [Ports -> PortInfo] /\ offFor' \in [Ports -> Nat]
    <3>1. \A p \in Ports : port'[p] \in PortInfo /\ offFor'[p] \in Nat
      BY <1>3
    <3>2. DOMAIN port' = Ports /\ DOMAIN offFor' = Ports
      BY <1>1
    <3>3. QED
      BY <1>1, <3>1, <3>2
  <2>2. \A p \in Ports : /\ port'[p].errorTestCount <= demonParam.test_num
                         /\ port'[p].resetCount <= demonParam.max_reset
    BY <1>2, <1>3 DEF TypeOK
  <2>3. due' \in Int
    BY <1>1, <1>2
  <2>4. QED
    BY <1>1, <1>2, <2>1, <2>2, <2>3 DEF TypeOK, outside
<1>5. due' >= -MaxLag
  BY <1>1, <1>2
<1>6. QED
  BY <1>3, <1>4, <1>5 DEF Inv

(* The daemon takes a request (ReadPipe). *)
LEMMA ReadStep ==
  ASSUME Inv, ReadPipe
  PROVE  Inv'
<1>1. /\ TypeOK /\ pipe # <<>> /\ pipe' = Tail(pipe)
      /\ UNCHANGED <<demonParam, due, outside, history>>
  BY DEF Inv, ReadPipe
<1>2. PICK p \in Ports : p = Head(pipe) /\ pipe' \in Seq(Ports)
  BY <1>1 DEF TypeOK
<1>3. CASE port[p].state = "REBOOT"
  <2>1. port' = port
    BY <1>2, <1>3 DEF ReadPipe
  <2>2. QED
    BY <1>1, <1>2, <2>1 DEF Inv, TypeOK, PortInv, TimeInv, outside, history
<1>4. CASE port[p].state # "REBOOT"
  <2> DEFINE r == port[p]
             s == [r EXCEPT !.state = "REBOOT", !.event = {"MANUAL_RESTART"}]
  <2>1. r \in PortInfo
    BY <1>1, <1>2 DEF TypeOK
  <2>2. port' = [port EXCEPT ![p] = s]
    BY <1>1, <1>2, <1>4, <2>1 DEF ReadPipe, TypeOK, PortInfo
  <2>3. /\ s \in PortInfo /\ s.wait = r.wait /\ s.test = r.test /\ s.event = {"MANUAL_RESTART"}
        /\ s.rebootState = r.rebootState /\ s.rebootEvent = r.rebootEvent
        /\ s.errorCode = r.errorCode /\ s.state = "REBOOT"
        /\ s.errorTestCount = r.errorTestCount /\ s.resetCount = r.resetCount
    BY <2>1 DEF PortInfo
  <2> HIDE DEF s
  <2>4. /\ CodeInv(r) /\ RestartInv(r) /\ PowerInv(r, p \in on) /\ CutsInv(r, cuts[p])
        /\ FailsInv(r, fails[p]) /\ TimeInv(r, due, offFor[p])
    BY <1>2 DEF Inv, PortInv
  <2>5. CodeInv(s) /\ RestartInv(s) /\ PowerInv(s, p \in on)
    BY <1>4, <2>3, <2>4 DEF CodeInv, RestartInv, PowerInv, Disabled
  <2>6. CutsInv(s, cuts[p]) /\ FailsInv(s, fails[p]) /\ TimeInv(s, due, offFor[p])
    BY <2>3, <2>4 DEF CutsInv, FailsInv, Pending, TimeInv, Disabled
  <2>7. port' \in [Ports -> PortInfo] /\ port'[p] = s /\ \A x \in Ports : x # p => port'[x] = port[x]
    BY <1>1, <1>2, <2>2, <2>3 DEF TypeOK
  <2>8. TypeOK'
    BY <1>1, <1>2, <2>3, <2>7 DEF TypeOK, outside, history
  <2>9. PortInv(p)'
    BY <1>1, <2>5, <2>6, <2>7 DEF PortInv, TimeInv, outside, history
  <2>10. ASSUME NEW x \in Ports, x # p
         PROVE  PortInv(x)'
    BY <1>1, <2>7, <2>10 DEF Inv, PortInv, TimeInv, outside, history
  <2>11. QED
    BY <1>1, <2>8, <2>9, <2>10 DEF Inv
<1>5. QED
  BY <1>3, <1>4

(* Steps that touch neither the ports nor their power: a client, the       *)
(* configuration, the cameras.                                             *)
LEMMA OutsideSteps ==
  ASSUME Inv,
         \/ \E p \in Ports : ServeClient(p) \/ SwitchPort(p) \/ Camera(p)
         \/ UNCHANGED vars
  PROVE  Inv'
<1>1. /\ UNCHANGED <<demonParam, port, due, on, offFor, fails, cuts>>
  BY DEF ServeClient, SwitchPort, Camera, outside, history, vars
<1>2. TypeOK'
  <2>1. TypeOK
    BY DEF Inv
  <2>2. pipe' \in Seq(Ports)
    <3>1. CASE UNCHANGED pipe
      BY <2>1, <3>1 DEF TypeOK
    <3>2. CASE \E p \in Ports : ServeClient(p)
      <4>1. PICK p \in Ports : pipe' = Append(pipe, p)
        BY <3>2 DEF ServeClient
      <4>2. pipe \in Seq(Ports)
        BY <2>1 DEF TypeOK
      <4>3. QED
        BY <4>1, <4>2
    <3>3. QED
      BY <3>1, <3>2 DEF SwitchPort, Camera, vars
  <2>3. enabled' \subseteq Ports /\ dead' \subseteq Ports
    BY <2>1 DEF TypeOK, ServeClient, SwitchPort, Camera, outside, history, vars
  <2>4. switches' \in Nat
    BY <2>1 DEF TypeOK, ServeClient, SwitchPort, Camera, outside, history, vars
  <2>5. QED
    BY <1>1, <2>1, <2>2, <2>3, <2>4 DEF TypeOK
<1>3. QED
  BY <1>1, <1>2 DEF Inv, PortInv, TimeInv

LEMMA InitInv == Init => Inv
<1> SUFFICES ASSUME Init
             PROVE  Inv
  OBVIOUS
<1>1. demonParam \in DemonParams
      /\ demonParam.test_delay \in Nat /\ demonParam.test_num \in Nat /\ demonParam.max_reset \in Nat
      /\ MaxLag \in Nat
  BY AutorestartAssumption DEF Init
<1>2. ASSUME NEW p \in Ports
      PROVE  /\ port[p] \in PortInfo /\ port[p].state = "REGULAR" /\ port[p].event = {}
             /\ port[p].rebootState = "IDLE" /\ port[p].rebootEvent = {}
             /\ port[p].errorTestCount = 0 /\ port[p].resetCount = 0
             /\ port[p].errorCode \subseteq {"OK", "TEST_DISABLE"}
  <2>1. PICK t \in Tests : port[p] \in InitialInfo(t)
    BY DEF Init
  <2>2. \A c \in InitialCodes(t) : c \subseteq {"OK", "TEST_DISABLE"}
    BY DEF InitialCodes, Unusable
  <2>3. port[p].errorCode \subseteq {"OK", "TEST_DISABLE"}
    BY <2>1, <2>2 DEF InitialInfo
  <2>4. port[p].errorCode \in SUBSET ErrorBits
    BY <2>3 DEF ErrorBits
  <2>5. QED
    BY <2>1, <2>3, <2>4 DEF InitialInfo, PortInfo
<1>3. ASSUME NEW p \in Ports
      PROVE  PortInv(p)
  <2>1. p \in on /\ cuts[p] = 0 /\ fails[p] = 0
    BY DEF Init
  <2>2. CodeInv(port[p])
    BY <1>2 DEF CodeInv, Failing
  <2>3. RestartInv(port[p]) /\ PowerInv(port[p], p \in on) /\ TimeInv(port[p], due, offFor[p])
    BY <1>2, <2>1 DEF RestartInv, PowerInv, TimeInv
  <2>4. CutsInv(port[p], cuts[p]) /\ FailsInv(port[p], fails[p])
    BY <1>2, <2>1 DEF CutsInv, FailsInv, Pending
  <2>5. QED
    BY <2>2, <2>3, <2>4 DEF PortInv
<1>4. TypeOK
  <2>1. port \in [Ports -> PortInfo]
    BY <1>2 DEF Init
  <2>2. \A p \in Ports : /\ port[p].errorTestCount <= demonParam.test_num
                         /\ port[p].resetCount <= demonParam.max_reset
    <3> TAKE p \in Ports
    <3>1. port[p].errorTestCount = 0 /\ port[p].resetCount = 0
      BY <1>2
    <3>2. QED
      BY <1>1, <3>1
  <2>3. pipe \in Seq(Ports)
    BY DEF Init
  <2>4. QED
    BY <1>1, <2>1, <2>2, <2>3 DEF Init, TypeOK
<1>5. QED
  BY <1>1, <1>3, <1>4 DEF Init, Inv

-----------------------------------------------------------------------------
(* Theorems *)

(* The daemon's records keep their types and their limits (portInfo_t), and *)
(* the restart, the power and the counters of every port fit together.      *)
THEOREM Invariant == Spec => []Inv
<1>1. ASSUME Inv, [Next]_vars
      PROVE  Inv'
  BY <1>1, RoundStep, ElapseStep, ReadStep, OutsideSteps DEF Next
<1>2. QED
  BY <1>1, InitInv, PTL DEF Spec

(* No automatic restart without test_num failed tests since the last one,   *)
(* for link and ping tests (test_ErrorHandler).                             *)
THEOREM NoHastyRestartHolds == Spec => []NoHastyRestart
<1>1. Inv => NoHastyRestart
  BY DEF Inv, PortInv, FailsInv, NoHastyRestart
<1>2. QED
  BY <1>1, Invariant, PTL

(* The power is off only within a restart that will end, restarts between  *)
(* two requests are limited, and a port that was given up shows it          *)
(* (rebootHandler, autoResetHandler).                                       *)
THEOREM RestartDisciplineHolds == Spec => []RestartDiscipline
<1>1. ASSUME Inv
      PROVE  RestartDiscipline
  <2>1. ASSUME NEW p \in Ports
        PROVE  /\ CodeInv(port[p]) /\ RestartInv(port[p]) /\ PowerInv(port[p], p \in on)
               /\ CutsInv(port[p], cuts[p])
               /\ port[p].resetCount \in Nat /\ port[p].resetCount <= demonParam.max_reset
               /\ demonParam.max_reset \in Nat /\ cuts[p] \in Nat
    BY <1>1, AutorestartAssumption DEF Inv, PortInv, TypeOK, PortInfo
  <2>2. OffOnlyInRestart
    BY <2>1 DEF PowerInv, RestartInv, OffOnlyInRestart, Marked, Disabled
  <2>3. BoundedRestarts
    <3>1. ASSUME NEW p \in Ports
          PROVE  cuts[p] <= demonParam.max_reset + 1
      <4>1. Pending(port[p]) \in {0, 1}
        BY DEF Pending
      <4>2. cuts[p] + Pending(port[p]) <= port[p].resetCount + 1
        BY <2>1 DEF CutsInv
      <4>3. QED
        BY <2>1, <4>1, <4>2
    <3>2. QED
      BY <3>1 DEF BoundedRestarts
  <2>4. GivenUpIsShown
    BY <2>1 DEF CodeInv, GivenUpIsShown, Marked, Disabled
  <2>5. QED
    BY <2>2, <2>3, <2>4 DEF RestartDiscipline
<1>2. QED
  BY <1>1, Invariant, PTL

(* A restart keeps the power off for timeDelay seconds, less twice the time *)
(* by which a round may be late (RebootPoeDown, RebootPoeUp), whatever      *)
(* test_delay is.                                                           *)
THEOREM OffLongEnoughHolds == Spec => OffLongEnough
<1> DEFINE Long == \A p \in Ports : p \notin on /\ p \in on' /\ port[p].test # "time"
                                      => offFor[p] + 2 * MaxLag >= TimeDelay
<1>1. ASSUME Inv, [Next]_vars
      PROVE  [Long]_vars
  <2>1. CASE mainHandler
    BY <1>1, <2>1, RoundStep
  <2>2. CASE UNCHANGED on
    BY <2>2
  <2>3. QED
    BY <1>1, <2>1, <2>2
       DEF Next, Elapse, ServeClient, ReadPipe, SwitchPort, Camera, vars, outside
<1>2. QED
  BY <1>1, Invariant, PTL DEF Spec, OffLongEnough
=============================================================================
