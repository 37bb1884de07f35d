---------------------------- MODULE WebPageProofs ----------------------------
(***************************************************************************)
(* Proofs about the pages of the web interface. LuciPage: every call gets  *)
(* the answer that was made to it, and "Session expired" is shown only for *)
(* a session that is gone or could not be probed, for any page, any number *)
(* of calls in a batch and any number of lost requests. WebElements: the   *)
(* window of a realtime graph is the newest part of what was stored, and   *)
(* the table of VLANs is consistent, for any number of samples, ports and  *)
(* rows.                                                                   *)
(***************************************************************************)
EXTENDS LuciPage, WebElements, FiniteSetTheorems, SequenceTheorems, TLAPS

(* The part of the page that calls change, with every result its own. *)
Worlds == [call : [Owners -> Call], queue : Seq(Request), poll : Polling, modal : BOOLEAN]

Matched(w) ==
  w \in Worlds /\ \A o \in Owners : w.call[o].result \in {o, "none", "error"}

PollEntry == [fn : Polls, r : BOOLEAN]

-----------------------------------------------------------------------------
(* The operations on calls *)

(* New values for the fields. *)
LEMMA SetCall ==
  ASSUME NEW w, Matched(w), NEW o \in Owners, NEW v \in Call, v.result \in {o, "none", "error"}
  PROVE  LET x == [w EXCEPT !.call[o] = v]
         IN  Matched(x) /\ x.modal = w.modal /\ x.poll = w.poll /\ x.queue = w.queue
<1>1. w \in Worlds /\ w.call \in [Owners -> Call]
  BY DEF Matched, Worlds
<1>2. PICK f : f = [w.call EXCEPT ![o] = v]
  OBVIOUS
<1>3. /\ f \in [Owners -> Call]
      /\ \A q \in Owners : (f[q] = v /\ q = o) \/ f[q] = w.call[q]
  BY <1>1, <1>2
<1>4. PICK x : x = [w EXCEPT !.call = f]
  OBVIOUS
<1>5. x \in Worlds /\ x.call = f /\ x.modal = w.modal /\ x.poll = w.poll /\ x.queue = w.queue
  BY <1>1, <1>3, <1>4 DEF Worlds
<1>6. \A q \in Owners : f[q].result \in {q, "none", "error"}
  BY <1>3 DEF Matched
<1>7. x = [w EXCEPT !.call[o] = v]
  BY <1>2, <1>4
<1>8. QED
  BY <1>5, <1>6, <1>7 DEF Matched

LEMMA SetQueue ==
  ASSUME NEW w, Matched(w), NEW q \in Seq(Request)
  PROVE  LET x == [w EXCEPT !.queue = q]
         IN  Matched(x) /\ x.modal = w.modal /\ x.poll = w.poll /\ x.queue = q /\ x.call = w.call
<1>1. w \in Worlds
  BY DEF Matched
<1>2. PICK x : x = [w EXCEPT !.queue = q]
  OBVIOUS
<1>3. x \in Worlds /\ x.modal = w.modal /\ x.poll = w.poll /\ x.queue = q /\ x.call = w.call
  BY <1>1, <1>2 DEF Worlds
<1>4. QED
  BY <1>2, <1>3 DEF Matched

LEMMA SetPoll ==
  ASSUME NEW w, Matched(w), NEW p \in Polling
  PROVE  LET x == [w EXCEPT !.poll = p]
         IN  Matched(x) /\ x.modal = w.modal /\ x.poll = p /\ x.call = w.call
<1>1. w \in Worlds
  BY DEF Matched
<1>2. PICK x : x = [w EXCEPT !.poll = p]
  OBVIOUS
<1>3. x \in Worlds /\ x.modal = w.modal /\ x.poll = p /\ x.call = w.call
  BY <1>1, <1>2 DEF Worlds
<1>4. QED
  BY <1>2, <1>3 DEF Matched

LEMMA Parts ==
  ASSUME NEW w, Matched(w)
  PROVE  /\ w \in Worlds /\ w.call \in [Owners -> Call] /\ w.queue \in Seq(Request)
         /\ w.poll \in Polling /\ w.modal \in BOOLEAN
         /\ w.poll.queue \in Seq(PollEntry) /\ w.poll.tick \in Int
         /\ w.poll.active \in BOOLEAN /\ w.poll.paused \in BOOLEAN
<1>1. /\ w \in Worlds /\ w.call \in [Owners -> Call] /\ w.queue \in Seq(Request)
      /\ w.poll \in Polling /\ w.modal \in BOOLEAN
  BY DEF Matched, Worlds
<1>2. TickMod \in Int
  BY PageAssumption
<1>3. \A p \in Polling : /\ p.queue \in Seq(PollEntry) /\ p.tick \in {NoTick} \cup 0 .. TickMod - 1
                         /\ p.active \in BOOLEAN /\ p.paused \in BOOLEAN
  BY DEF Polling, PollEntry
<1>4. w.poll.tick \in Int
  BY <1>1, <1>2, <1>3 DEF NoTick
<1>5. QED
  BY <1>1, <1>3, <1>4

LEMMA RequestKeeps ==
  ASSUME NEW w, Matched(w), NEW o \in Owners, NEW probe \in BOOLEAN
  PROVE  LET x == request(w, o, probe)
         IN  Matched(x) /\ x.modal = w.modal /\ x.poll = w.poll /\ x.call = w.call
<1>1. PICK r \in Request : r = [owner |-> o, probe |-> probe]
  <2>1. [owner |-> o, probe |-> probe] \in Request
    BY DEF Request
  <2>2. QED
    BY <2>1
<1>2. PICK q : q = Append(w.queue, r)
  OBVIOUS
<1>3. q \in Seq(Request)
  BY <1>2, Parts
<1>4. request(w, o, probe) = [w EXCEPT !.queue = q]
  BY <1>1, <1>2 DEF request
<1>5. QED
  BY <1>3, <1>4, SetQueue

(* A call is made. *)
LEMMA IssueKeeps ==
  ASSUME NEW w, Matched(w), NEW o \in Owners
  PROVE  LET x == Issue(w, o)
         IN  Matched(x) /\ x.modal = w.modal /\ x.poll = w.poll
<1>1. PICK v : v = [st |-> "called", result |-> "none"]
  OBVIOUS
<1>2. v \in Call /\ v.result = "none"
  BY <1>1 DEF Call
<1>3. PICK y : y = request(w, o, FALSE)
  OBVIOUS
<1>4. Matched(y) /\ y.modal = w.modal /\ y.poll = w.poll
  BY <1>3, RequestKeeps
<1>5. Issue(w, o) = [y EXCEPT !.call[o] = v]
  BY <1>1, <1>3 DEF Issue
<1>6. QED
  BY <1>2, <1>4, <1>5, SetCall

(* A call is settled, with its own result or none. *)
LEMMA SettleKeeps ==
  ASSUME NEW w, Matched(w), NEW o \in Owners, NEW res \in {o, "error"}
  PROVE  LET x == Settle(w, o, res)
         IN  Matched(x) /\ x.modal = w.modal
<1>1. PICK v : v = [st |-> "idle", result |-> res]
  OBVIOUS
<1>2. v \in Call /\ v.result = res
  BY <1>1 DEF Call
<1>3. PICK q : q = [i \in DOMAIN w.poll.queue |->
                      IF w.poll.queue[i].fn = o THEN [w.poll.queue[i] EXCEPT !.r = TRUE]
                      ELSE w.poll.queue[i]]
  OBVIOUS
<1>4. PICK old \in Seq(PollEntry) : old = w.poll.queue
  BY Parts
<1>5. q \in Seq(PollEntry)
  <2>1. \A e \in PollEntry : [e EXCEPT !.r = TRUE] \in PollEntry
    BY DEF PollEntry
  <2>2. Len(old) \in Nat /\ DOMAIN old = 1 .. Len(old) /\ \A i \in 1 .. Len(old) : old[i] \in PollEntry
    OBVIOUS
  <2>3. q \in [1 .. Len(old) -> PollEntry]
    BY <1>3, <1>4, <2>1, <2>2
  <2>4. QED
    BY <2>2, <2>3
<1>6. PICK p : p = [w.poll EXCEPT !.queue = q]
  OBVIOUS
<1>7. p \in Polling
  BY <1>5, <1>6, Parts DEF Polling, PollEntry
<1>8. PICK y : y = [w EXCEPT !.call[o] = v]
  OBVIOUS
<1>9. Matched(y) /\ y.modal = w.modal /\ y.poll = w.poll
  BY <1>2, <1>8, SetCall
<1>10. Settle(w, o, res) = [y EXCEPT !.poll = p]
  BY <1>1, <1>3, <1>6, <1>8, <1>9, Parts DEF Settle, Worlds
<1>11. QED
  BY <1>7, <1>9, <1>10, SetPoll

-----------------------------------------------------------------------------
(* Polling *)

(* Poll.step goes through the registered functions. *)
StepTakes(w, x, e) == IF Due(w, e) THEN Issue(x, e.fn) ELSE x
StepKept(w, i, x) == Matched(x) /\ x.modal = w.modal /\ x.poll = w.poll
StepFold == INSTANCE FoldInduction WITH Op <- StepTakes, Good <- StepKept

LEMMA StepKeeps ==
  ASSUME NEW w, Matched(w)
  PROVE  Matched(Step(w)) /\ Step(w).modal = w.modal
<1>1. PICK called : called = StepFold!Fold(w, w, w.poll.queue)
  OBVIOUS
<1>2. PICK old \in Seq(PollEntry) : old = w.poll.queue
  BY Parts
<1>3. PICK n \in Nat : n = Len(old) /\ DOMAIN old = 1 .. n
  OBVIOUS
<1>4. \A e \in PollEntry : e.fn \in Owners
  BY DEF PollEntry, Owners
<1>5. \A i \in 1 .. n : old[i] \in PollEntry
  BY <1>3
<1>6. StepKept(w, 0, w)
  BY DEF StepKept
<1>7. ASSUME NEW i \in 1 .. n, NEW x, StepKept(w, i - 1, x)
      PROVE  StepKept(w, i, StepTakes(w, x, old[i]))
  <2>1. old[i].fn \in Owners
    BY <1>4, <1>5
  <2>2. CASE Due(w, old[i])
    BY <1>7, <2>1, <2>2, IssueKeeps DEF StepKept, StepTakes
  <2>3. CASE ~Due(w, old[i])
    BY <1>7, <2>3 DEF StepKept, StepTakes
  <2>4. QED
    BY <2>2, <2>3
<1>8. StepKept(w, n, called)
  BY <1>1, <1>2, <1>3, <1>6, <1>7, StepFold!FoldKeeps
<1>9. Matched(called) /\ called.modal = w.modal /\ called.poll = w.poll
  BY <1>8 DEF StepKept
<1>10. PICK q : q = [i \in DOMAIN old |-> IF Due(w, old[i]) THEN [old[i] EXCEPT !.r = FALSE]
                                          ELSE old[i]]
  OBVIOUS
<1>11. q \in Seq(PollEntry)
  <2>1. \A e \in PollEntry : [e EXCEPT !.r = FALSE] \in PollEntry
    BY DEF PollEntry
  <2>2. q \in [1 .. n -> PollEntry]
    BY <1>3, <1>5, <1>10, <2>1
  <2>3. QED
    BY <2>2
<1>12. PICK tick \in 0 .. TickMod - 1 : tick = (called.poll.tick + 1) % TickMod
  <2>1. called.poll.tick \in Int /\ TickMod \in Nat \ {0}
    BY <1>9, Parts, PageAssumption
  <2>2. (called.poll.tick + 1) % TickMod \in 0 .. TickMod - 1
    BY <2>1
  <2>3. QED
    BY <2>2
<1>13. PICK p : p = [called.poll EXCEPT !.queue = q, !.tick = tick]
  OBVIOUS
<1>14. p \in Polling
  BY <1>9, <1>11, <1>13, Parts DEF Polling, PollEntry
<1>15. Step(w) = [called EXCEPT !.poll = p]
  <2>1. FoldLeft(LAMBDA x, e : IF Due(w, e) THEN Issue(x, e.fn) ELSE x, w, w.poll.queue) = called
    BY <1>1 DEF StepFold!Fold, StepFold!Latest,
                FoldLeft, MapThenFoldSet, Max, StepTakes
  <2>2. called \in Worlds /\ called.poll \in Polling
    BY <1>9, Parts
  <2>3. Step(w) = [called EXCEPT
            !.poll.queue = [i \in DOMAIN @ |-> IF Due(w, @[i]) THEN [@[i] EXCEPT !.r = FALSE]
                                               ELSE @[i]],
            !.poll.tick = (@ + 1) % TickMod]
    BY <2>1 DEF Step
  <2>4. QED
    BY <1>2, <1>9, <1>10, <1>12, <1>13, <2>2, <2>3 DEF Worlds, Polling
<1>16. QED
  BY <1>9, <1>14, <1>15, SetPoll

LEMMA PollStartKeeps ==
  ASSUME NEW w, Matched(w)
  PROVE  Matched(PollStart(w)) /\ PollStart(w).modal = w.modal
<1>1. w.poll \in Polling /\ w \in Worlds
  BY Parts
<1>2. 0 \in 0 .. TickMod - 1
  BY PageAssumption
<1>3. CASE w.poll.active
  BY <1>3 DEF PollStart
<1>4. CASE ~w.poll.active /\ w.poll.queue = <<>>
  <2>1. PICK p : p = [w.poll EXCEPT !.tick = 0]
    OBVIOUS
  <2>2. p \in Polling
    BY <1>1, <1>2, <2>1 DEF Polling
  <2>3. PollStart(w) = [w EXCEPT !.poll = p]
    BY <1>4, <2>1 DEF PollStart
  <2>4. QED
    BY <2>2, <2>3, SetPoll
<1>5. CASE ~w.poll.active /\ w.poll.queue # <<>>
  <2>1. PICK p : p = [w.poll EXCEPT !.tick = 0, !.active = TRUE]
    OBVIOUS
  <2>2. p \in Polling
    BY <1>1, <1>2, <2>1 DEF Polling
  <2>3. PICK x : x = [w EXCEPT !.poll = p]
    OBVIOUS
  <2>4. Matched(x) /\ x.modal = w.modal
    BY <2>2, <2>3, SetPoll
  <2>5. PollStart(w) = Step(x)
    BY <1>1, <1>5, <2>1, <2>3 DEF PollStart, Worlds, Polling
  <2>6. QED
    BY <2>4, <2>5, StepKeeps
<1>6. QED
  BY <1>3, <1>4, <1>5

LEMMA PollStopKeeps ==
  ASSUME NEW w, Matched(w)
  PROVE  Matched(PollStop(w)) /\ PollStop(w).modal = w.modal
<1>1. w.poll \in Polling /\ w \in Worlds
  BY Parts
<1>2. CASE ~w.poll.active
  BY <1>2 DEF PollStop
<1>3. CASE w.poll.active
  <2>1. PICK p : p = [w.poll EXCEPT !.active = FALSE, !.tick = NoTick]
    OBVIOUS
  <2>2. p \in Polling
    BY <1>1, <2>1 DEF Polling
  <2>3. PollStop(w) = [w EXCEPT !.poll = p]
    BY <1>1, <1>3, <2>1 DEF PollStop, Worlds, Polling
  <2>4. QED
    BY <2>2, <2>3, SetPoll
<1>4. QED
  BY <1>2, <1>3

LEMMA PollAddKeeps ==
  ASSUME NEW w, Matched(w), NEW fn \in Polls
  PROVE  Matched(PollAdd(w, fn)) /\ PollAdd(w, fn).modal = w.modal
<1>1. w.poll \in Polling /\ w \in Worlds /\ w.poll.queue \in Seq(PollEntry)
  BY Parts
<1>2. PICK e : e = [fn |-> fn, r |-> TRUE]
  OBVIOUS
<1>3. e \in PollEntry
  BY <1>2 DEF PollEntry
<1>4. PICK q : q = Append(w.poll.queue, e)
  OBVIOUS
<1>5. q \in Seq(PollEntry)
  BY <1>1, <1>3, <1>4
<1>6. PICK p : p = [w.poll EXCEPT !.queue = q]
  OBVIOUS
<1>7. p \in Polling
  BY <1>1, <1>5, <1>6 DEF Polling, PollEntry
<1>8. PICK a : a = [w EXCEPT !.poll = p]
  OBVIOUS
<1>9. Matched(a) /\ a.modal = w.modal
  BY <1>7, <1>8, SetPoll
<1>10. PollAdd(w, fn) = a \/ PollAdd(w, fn) = PollStart(a)
  BY <1>2, <1>4, <1>6, <1>8 DEF PollAdd
<1>11. QED
  BY <1>9, <1>10, PollStartKeeps

-----------------------------------------------------------------------------
(* Answers *)

LEMMA ExpiryKeeps ==
  ASSUME NEW w, Matched(w)
  PROVE  Matched(notifySessionExpiry(w))
<1>1. PICK x : x = PollStop(w)
  OBVIOUS
<1>2. Matched(x) /\ x \in Worlds
  BY <1>1, PollStopKeeps, Parts
<1>3. PICK y : y = [x EXCEPT !.modal = TRUE]
  OBVIOUS
<1>4. y \in Worlds /\ y.call = x.call
  BY <1>2, <1>3 DEF Worlds
<1>5. notifySessionExpiry(w) = y
  BY <1>1, <1>3 DEF notifySessionExpiry
<1>6. QED
  BY <1>2, <1>4, <1>5 DEF Matched

(* One reply: the session counts as expired for a probe that failed only. *)
LEMMA RepliedKeeps ==
  ASSUME NEW w, Matched(w), NEW q \in Request, NEW rep, rep.code = "ok" => rep.for = q.owner
  PROVE  LET x == Replied(w, q, rep)
         IN  Matched(x) /\ (x.modal => w.modal \/ (q.probe /\ rep.code # "ok"))
<1>1. q.owner \in Owners /\ q.probe \in BOOLEAN
  BY DEF Request
<1>2. CASE q.probe
  <2>1. PICK y : y = IF rep.code = "ok" THEN w ELSE notifySessionExpiry(w)
    OBVIOUS
  <2>2. Matched(y) /\ (rep.code = "ok" => y.modal = w.modal)
    BY <2>1, ExpiryKeeps
  <2>3. Replied(w, q, rep) = Settle(y, q.owner, "error")
    BY <1>2, <2>1 DEF Replied
  <2>4. Matched(Settle(y, q.owner, "error")) /\ Settle(y, q.owner, "error").modal = y.modal
    BY <1>1, <2>2, SettleKeeps
  <2>5. QED
    BY <1>2, <2>2, <2>3, <2>4
<1>3. CASE ~q.probe /\ rep.code = "ok"
  <2>1. Replied(w, q, rep) = Settle(w, q.owner, q.owner)
    BY <1>3 DEF Replied
  <2>2. QED
    BY <1>1, <2>1, SettleKeeps
<1>4. CASE ~q.probe /\ rep.code # "ok" /\ (phase = "boot" \/ rep.code = "lost")
  <2>1. Replied(w, q, rep) = Settle(w, q.owner, "error")
    BY <1>4 DEF Replied
  <2>2. QED
    BY <1>1, <2>1, SettleKeeps
<1>5. CASE ~q.probe /\ rep.code # "ok" /\ ~(phase = "boot" \/ rep.code = "lost")
  <2>1. PICK o \in Owners : o = q.owner
    BY <1>1
  <2>2. PICK y : y = request(w, o, TRUE)
    OBVIOUS
  <2>3. Matched(y) /\ y.modal = w.modal
    BY <2>2, RequestKeeps
  <2>4. PICK v : v = [y.call[o] EXCEPT !.st = "checking"]
    OBVIOUS
  <2>5. v \in Call /\ v.result \in {o, "none", "error"}
    <3>1. y.call[o] \in Call /\ y.call[o].result \in {o, "none", "error"}
      BY <2>3, Parts DEF Matched
    <3>2. QED
      BY <2>4, <3>1 DEF Call
  <2>6. Replied(w, q, rep) = [y EXCEPT !.call[o] = v]
    <3>1. Replied(w, q, rep) = [y EXCEPT !.call[o].st = "checking"]
      BY <1>5, <2>1, <2>2 DEF Replied
    <3>2. QED
      BY <2>4, <3>1
  <2>7. QED
    BY <2>3, <2>5, <2>6, SetCall
<1>6. QED
  BY <1>1, <1>2, <1>3, <1>4, <1>5

(* flushRequestQueue goes through a batch c[1] of which c[2] requests are  *)
(* answered.                                                               *)
LostProbe(b, n) == \E i \in n + 1 .. Len(b) : b[i].probe
AnswerTakes(c, w, i) == Replied(w, c[1][i], Matching([j \in 1 .. c[2] |-> Reply(c[1][j])], i))
AnswerKept(c, i, x) ==
  Matched(x) /\ (x.modal => modal \/ ~session \/ LostProbe(c[1], c[2]))
AnswerFold == INSTANCE FoldInduction WITH Op <- AnswerTakes, Good <- AnswerKept

LEMMA AnswerKeeps ==
  ASSUME NEW b \in Seq(Request), NEW n \in 0 .. Len(b), Matched(World)
  PROVE  LET replies == [i \in 1 .. n |-> Reply(b[i])]
             Take(w, i) == Replied(w, b[i], Matching(replies, i))
             x == FoldLeft(Take, World, [i \in DOMAIN b |-> i])
         IN  Matched(x) /\ (x.modal => modal \/ ~session \/ LostProbe(b, n))
<1>1. PICK c : c = <<b, n>>
  OBVIOUS
<1>2. c[1] = b /\ c[2] = n
  BY <1>1
<1>3. PICK m \in Nat : m = Len(b) /\ DOMAIN b = 1 .. m
  OBVIOUS
<1>4. PICK seq : seq = [i \in DOMAIN b |-> i]
  OBVIOUS
<1>5. DOMAIN seq = 1 .. m /\ \A i \in 1 .. m : seq[i] = i
  BY <1>3, <1>4
<1>6. AnswerKept(c, 0, World)
  BY DEF AnswerKept, World
<1>7. ASSUME NEW i \in 1 .. m, NEW x, AnswerKept(c, i - 1, x)
      PROVE  AnswerKept(c, i, AnswerTakes(c, x, seq[i]))
  <2>1. PICK q \in Request : q = b[i]
    BY <1>3
  <2>2. PICK rep : rep = Matching([j \in 1 .. n |-> Reply(b[j])], i)
    OBVIOUS
  <2>3. /\ rep.code = "ok" => rep.for = q.owner
        /\ q.probe /\ rep.code # "ok" => ~session \/ LostProbe(b, n)
    <3>1. CASE i \in 1 .. n
      <4>1. rep = Reply(q)
        BY <2>1, <2>2, <3>1 DEF Matching
      <4>2. rep.for = q.owner /\ (rep.code # "ok" => ~(session /\ (q.probe \/ q.owner \notin Forbidden)))
        BY <4>1 DEF Reply
      <4>3. QED
        BY <4>2
    <3>2. CASE i \notin 1 .. n
      <4>1. rep = [for |-> "none", code |-> "lost"]
        BY <2>2, <3>2 DEF Matching
      <4>2. i \in n + 1 .. Len(b)
        BY <1>3, <3>2
      <4>3. rep.code # "ok"
        BY <4>1
      <4>4. q.probe => LostProbe(b, n)
        BY <2>1, <4>2 DEF LostProbe
      <4>5. QED
        BY <4>3, <4>4
    <3>3. QED
      BY <3>1, <3>2
  <2>4. PICK y : y = Replied(x, q, rep)
    OBVIOUS
  <2>5. Matched(x) /\ (x.modal => modal \/ ~session \/ LostProbe(b, n))
    BY <1>2, <1>7 DEF AnswerKept
  <2>6. Matched(y) /\ (y.modal => x.modal \/ (q.probe /\ rep.code # "ok"))
    BY <2>3, <2>4, <2>5, RepliedKeeps
  <2>7. AnswerTakes(c, x, seq[i]) = y
    BY <1>2, <1>5, <2>1, <2>2, <2>4 DEF AnswerTakes
  <2>8. QED
    BY <1>2, <2>3, <2>5, <2>6, <2>7 DEF AnswerKept
<1>8. PICK x : x = AnswerFold!Fold(c, World, seq)
  OBVIOUS
<1>9. AnswerKept(c, m, x)
  BY <1>5, <1>6, <1>7, <1>8, AnswerFold!FoldKeeps
<1>10. x = FoldLeft(LAMBDA w, i : Replied(w, b[i], Matching([j \in 1 .. n |-> Reply(b[j])], i)),
                    World, [i \in DOMAIN b |-> i])
  BY <1>2, <1>4, <1>8 DEF AnswerFold!Fold, AnswerFold!Latest, FoldLeft, MapThenFoldSet, Max, AnswerTakes
<1>11. Matched(x) /\ (x.modal => modal \/ ~session \/ LostProbe(b, n))
  BY <1>2, <1>9 DEF AnswerKept
<1>12. QED
  BY <1>10, <1>11 DEF FoldLeft, MapThenFoldSet

-----------------------------------------------------------------------------
(* The invariant *)

Inv == PageTypeOK /\ RepliesMatch /\ ExpiryIsReal

LEMMA WorldMatched ==
  ASSUME Inv
  PROVE  Matched(World) /\ World.modal = modal
<1>1. World.modal = modal /\ World.call = call
  BY DEF World
<1>2. World \in Worlds
  BY DEF Inv, PageTypeOK, World, Worlds
<1>3. QED
  BY <1>1, <1>2 DEF Inv, RepliesMatch, Matched

LEMMA BecomesMatched ==
  ASSUME NEW w, Matched(w), Becomes(w)
  PROVE  /\ call' \in [Owners -> Call] /\ queue' \in Seq(Request) /\ poll' \in Polling
         /\ modal' \in BOOLEAN /\ modal' = w.modal /\ RepliesMatch'
<1>1. call' = w.call /\ queue' = w.queue /\ poll' = w.poll /\ modal' = w.modal
  BY DEF Becomes
<1>2. RepliesMatch'
  BY <1>1 DEF RepliesMatch, Matched
<1>3. QED
  BY <1>1, <1>2, Parts

(* A step that changes the page by an operation on calls. *)
LEMMA PageStep ==
  ASSUME Inv, NEW w, Matched(w), w.modal => modal \/ ~session, Becomes(w),
         UNCHANGED <<flights, session, fails>>,
         menuRequest' \in {"none", "asked", "done", "stuck"},
         phase' \in {"boot", "setup", "preload", "run", "error"},
         view' \in {"none", "loading", "shown", "error"}
  PROVE  Inv'
<1>1. /\ call' \in [Owners -> Call] /\ queue' \in Seq(Request) /\ poll' \in Polling
      /\ modal' \in BOOLEAN /\ modal' = w.modal /\ RepliesMatch'
  BY BecomesMatched
<1>2. PageTypeOK'
  BY <1>1 DEF Inv, PageTypeOK
<1>3. ExpiryIsReal'
  BY <1>1 DEF Inv, ExpiryIsReal
<1>4. QED
  BY <1>1, <1>2, <1>3 DEF Inv

(* A batch b is answered, the first n requests of it. *)
LEMMA AnswerStep ==
  ASSUME Inv, NEW b \in flights, NEW n \in 0 .. Len(b), Answer(b, n),
         n # Len(b) => fails.n < MaxFail
  PROVE  Inv'
<1> DEFINE replies == [i \in 1 .. n |-> Reply(b[i])]
           Take(w, i) == Replied(w, b[i], Matching(replies, i))
<1>1. b \in Seq(Request) /\ fails \in [n : 0 .. MaxFail, probe : BOOLEAN]
  BY DEF Inv, PageTypeOK
<1>2. PICK x : x = FoldLeft(Take, World, [i \in DOMAIN b |-> i])
  OBVIOUS
<1>3. Matched(x) /\ (x.modal => modal \/ ~session \/ LostProbe(b, n))
  BY <1>1, <1>2, WorldMatched, AnswerKeeps DEF FoldLeft, MapThenFoldSet
<1>4. /\ Becomes(x) /\ flights' = flights \ {b} /\ UNCHANGED <<classes, phase, view, menuRequest, session>>
      /\ IF n = Len(b) THEN UNCHANGED fails
         ELSE fails' = [n |-> fails.n + 1,
                        probe |-> fails.probe \/ \E i \in n + 1 .. Len(b) : b[i].probe]
  BY <1>2 DEF Answer, FoldLeft, MapThenFoldSet
<1>5. /\ fails' \in [n : 0 .. MaxFail, probe : BOOLEAN]
      /\ fails.probe => fails'.probe
      /\ LostProbe(b, n) => fails'.probe
  <2>1. CASE n = Len(b)
    <3>1. ~LostProbe(b, n)
      BY <1>1, <2>1 DEF LostProbe
    <3>2. QED
      BY <1>1, <1>4, <2>1, <3>1
  <2>2. CASE n # Len(b)
    <3>1. PICK p \in BOOLEAN : p = (fails.probe \/ LostProbe(b, n))
      BY DEF LostProbe
    <3>2. fails' = [n |-> fails.n + 1, probe |-> p]
      BY <1>4, <2>2, <3>1 DEF LostProbe
    <3>3. fails.n + 1 \in 0 .. MaxFail
      BY <1>1, <2>2, PageAssumption
    <3>4. QED
      BY <3>1, <3>2, <3>3
  <2>3. QED
    BY <2>1, <2>2
<1>6. /\ call' \in [Owners -> Call] /\ queue' \in Seq(Request) /\ poll' \in Polling
      /\ modal' \in BOOLEAN /\ modal' = x.modal /\ RepliesMatch'
  BY <1>3, <1>4, BecomesMatched
<1>7. PageTypeOK'
  BY <1>4, <1>5, <1>6 DEF Inv, PageTypeOK
<1>8. ExpiryIsReal'
  BY <1>3, <1>4, <1>5, <1>6 DEF Inv, ExpiryIsReal
<1>9. QED
  BY <1>6, <1>7, <1>8 DEF Inv

LEMMA StartUpStep ==
  ASSUME Inv, StartUp
  PROVE  Inv'
<1>1. /\ Matched(World) /\ World.modal = modal /\ {"features", "preload", "view"} \subseteq Owners
      /\ phase \in {"boot", "setup", "preload", "run", "error"}
      /\ view \in {"none", "loading", "shown", "error"}
      /\ menuRequest \in {"none", "asked", "done", "stuck"}
  BY WorldMatched DEF Owners, Inv, PageTypeOK
<1>2. \A c \in {ViewClass} \cup Preload : PollOf[c] \in Polls
  BY DEF Polls
<1>3. CASE setupDOM
  <2>1. PICK x : x = Issue(World, "features")
    OBVIOUS
  <2>2. Matched(x) /\ x.modal = modal
    BY <1>1, <2>1, IssueKeeps
  <2>3. PICK y : y = Issue(x, "preload")
    OBVIOUS
  <2>4. Matched(y) /\ y.modal = modal
    BY <1>1, <2>2, <2>3, IssueKeeps
  <2>5. Becomes(y) /\ UNCHANGED <<menuRequest, flights, session, fails>> /\ phase' = "setup" /\ view' = view
    BY <1>3, <2>1, <2>3 DEF setupDOM
  <2>6. QED
    BY <1>1, <2>4, <2>5, PageStep
<1>4. CASE initDOM
  <2>1. Becomes(PollStart(World)) /\ UNCHANGED <<menuRequest, flights, session, fails>> /\ phase' = "run" /\ view' = view
    BY <1>4 DEF initDOM
  <2>2. Matched(PollStart(World)) /\ PollStart(World).modal = modal
    BY <1>1, PollStartKeeps
  <2>3. QED
    BY <1>1, <2>1, <2>2, PageStep
<1>5. CASE ViewLoads
  <2>1. Becomes(Issue(World, "view")) /\ UNCHANGED <<menuRequest, flights, session, fails>> /\ phase' = phase /\ view' = "loading"
    BY <1>5 DEF ViewLoads
  <2>2. Matched(Issue(World, "view")) /\ Issue(World, "view").modal = modal
    BY <1>1, IssueKeeps
  <2>3. QED
    BY <1>1, <2>1, <2>2, PageStep
<1>6. CASE ViewRenders
  <2>1. PICK w : /\ w = World \/ w = PollAdd(World, PollOf[ViewClass])
                 /\ Becomes(w)
    BY <1>6 DEF ViewRenders
  <2>2. /\ UNCHANGED <<menuRequest, flights, session, fails>> /\ phase' = phase
        /\ view' \in {"none", "loading", "shown", "error"}
    BY <1>6 DEF ViewRenders
  <2>3. Matched(w) /\ w.modal = modal
    BY <1>1, <1>2, <2>1, PollAddKeeps
  <2>4. QED
    BY <1>1, <2>1, <2>2, <2>3, PageStep
<1>7. ASSUME NEW c \in Preload, PreloadRegisters(c) PROVE Inv'
  <2>1. Becomes(PollAdd(World, PollOf[c])) /\ UNCHANGED <<phase, view, menuRequest, flights, session, fails>>
    BY <1>7 DEF PreloadRegisters
  <2>2. Matched(PollAdd(World, PollOf[c])) /\ PollAdd(World, PollOf[c]).modal = modal
    BY <1>1, <1>2, PollAddKeeps
  <2>3. QED
    BY <1>1, <2>1, <2>2, PageStep
<1>8. CASE CoreFails \/ RequirePreload \/ RequireView
  <2>1. /\ UNCHANGED <<view, menuRequest, call, queue, flights, poll, session, modal, fails>>
        /\ phase' \in {"boot", "setup", "preload", "run", "error"}
    BY <1>1, <1>8 DEF CoreFails, RequirePreload, RequireView
  <2>2. QED
    BY <2>1 DEF Inv, PageTypeOK, RepliesMatch, ExpiryIsReal
<1>9. CASE MenuLoads
  BY <1>9 DEF MenuLoads, Inv, PageTypeOK, RepliesMatch, ExpiryIsReal
<1>10. QED
  BY <1>3, <1>4, <1>5, <1>6, <1>7, <1>8, <1>9 DEF StartUp

LEMMA StepLemma ==
  ASSUME Inv, [Next]_vars
  PROVE  Inv'
<1>1. /\ Matched(World) /\ World.modal = modal
      /\ phase \in {"boot", "setup", "preload", "run", "error"}
      /\ view \in {"none", "loading", "shown", "error"}
      /\ menuRequest \in {"none", "asked", "done", "stuck"}
      /\ flights \subseteq Seq(Request) /\ fails \in [n : 0 .. MaxFail, probe : BOOLEAN]
  BY WorldMatched DEF Inv, PageTypeOK
<1>2. CASE UNCHANGED vars
  BY <1>2 DEF Inv, PageTypeOK, RepliesMatch, ExpiryIsReal, vars
<1>3. CASE LoaderStep
  BY <1>3 DEF Inv, PageTypeOK, RepliesMatch, ExpiryIsReal, LoaderStep
<1>4. CASE LoaderFails
  <2>1. /\ UNCHANGED <<phase, view, menuRequest, call, queue, flights, poll, session, modal>>
        /\ fails.n < MaxFail /\ fails' = [fails EXCEPT !.n = @ + 1]
    BY <1>4 DEF LoaderFails
  <2>2. fails.n + 1 \in 0 .. MaxFail
    BY <1>1, <2>1, PageAssumption
  <2>3. fails' \in [n : 0 .. MaxFail, probe : BOOLEAN] /\ fails'.probe = fails.probe
    BY <1>1, <2>1, <2>2
  <2>4. QED
    BY <2>1, <2>3 DEF Inv, PageTypeOK, RepliesMatch, ExpiryIsReal
<1>5. CASE StartUp
  BY <1>5, StartUpStep
<1>6. CASE Frame
  <2>1. flights' \subseteq Seq(Request) /\ queue' \in Seq(Request)
    BY <1>6 DEF Frame, Inv, PageTypeOK
  <2>2. QED
    BY <1>6, <2>1 DEF Frame, Inv, PageTypeOK, RepliesMatch, ExpiryIsReal
<1>7. CASE Answers
  <2>1. PICK b \in flights : Answer(b, Len(b))
    BY <1>7 DEF Answers, AnswersTo
  <2>2. Len(b) \in 0 .. Len(b)
    BY <1>1
  <2>3. QED
    BY <2>1, <2>2, AnswerStep
<1>8. CASE Losses
  <2>1. PICK b \in flights, n \in 0 .. 1 : n < Len(b) /\ Answer(b, n)
    BY <1>8 DEF Losses
  <2>2. fails.n < MaxFail
    BY <1>8 DEF Losses
  <2>3. n \in 0 .. Len(b)
    BY <1>1, <2>1
  <2>4. QED
    BY <2>1, <2>2, <2>3, AnswerStep
<1>9. CASE Timer
  <2>1. Becomes(Step(World)) /\ UNCHANGED <<phase, view, menuRequest, flights, session, fails>>
    BY <1>9 DEF Timer
  <2>2. QED
    BY <1>1, <2>1, StepKeeps, PageStep
<1>10. CASE ToggleIndicator
  <2>1. PICK w : w = [World EXCEPT !.poll.paused = poll.active]
    OBVIOUS
  <2>2. PICK p : p = [World.poll EXCEPT !.paused = poll.active]
    OBVIOUS
  <2>3. p \in Polling
    <3>1. World.poll \in Polling /\ World.poll = poll /\ poll.active \in BOOLEAN
      BY <1>1, Parts DEF World
    <3>2. QED
      BY <2>2, <3>1 DEF Polling
  <2>4. w = [World EXCEPT !.poll = p]
    BY <2>1, <2>2
  <2>5. Matched(w) /\ w.modal = modal
    BY <1>1, <2>3, <2>4, SetPoll
  <2>6. /\ Becomes(IF poll.active THEN PollStop(w) ELSE PollStart(w))
        /\ UNCHANGED <<phase, view, menuRequest, flights, session, fails>>
    BY <1>10, <2>1 DEF ToggleIndicator
  <2>7. PICK x : /\ x = PollStop(w) \/ x = PollStart(w)
                 /\ Becomes(x)
    BY <2>6
  <2>8. Matched(x) /\ x.modal = modal
    BY <2>5, <2>7, PollStopKeeps, PollStartKeeps
  <2>9. QED
    BY <1>1, <2>6, <2>7, <2>8, PageStep
<1>11. CASE Expire
  BY <1>11 DEF Expire, Inv, PageTypeOK, RepliesMatch, ExpiryIsReal
<1>12. CASE MenuAnswers
  <2>1. PICK w : /\ w = World \/ (w = notifySessionExpiry(World) /\ ~session)
                 /\ Becomes(w)
    BY <1>12 DEF MenuAnswers
  <2>2. /\ UNCHANGED <<phase, view, flights, session, fails>>
        /\ menuRequest' \in {"none", "asked", "done", "stuck"}
    BY <1>12 DEF MenuAnswers
  <2>3. Matched(w) /\ (w.modal => modal \/ ~session)
    BY <1>1, <2>1, ExpiryKeeps
  <2>4. QED
    BY <1>1, <2>1, <2>2, <2>3, PageStep
<1>13. CASE MenuLost
  <2>1. /\ UNCHANGED <<phase, view, call, queue, flights, poll, session, modal>>
        /\ fails.n < MaxFail /\ fails' = [fails EXCEPT !.n = @ + 1]
        /\ menuRequest' = "done"
    BY <1>13 DEF MenuLost
  <2>2. fails.n + 1 \in 0 .. MaxFail
    BY <1>1, <2>1, PageAssumption
  <2>3. fails' \in [n : 0 .. MaxFail, probe : BOOLEAN] /\ fails'.probe = fails.probe
    BY <1>1, <2>1, <2>2
  <2>4. QED
    BY <2>1, <2>3 DEF Inv, PageTypeOK, RepliesMatch, ExpiryIsReal
<1>14. QED
  BY <1>2, <1>3, <1>4, <1>5, <1>6, <1>7, <1>8, <1>9, <1>10, <1>11, <1>12, <1>13 DEF Next

LEMMA StartHolds ==
  ASSUME Init
  PROVE  Inv
<1>1. /\ phase = "boot" /\ view = "none" /\ menuRequest = "none"
      /\ call = [o \in Owners |-> [st |-> "idle", result |-> "none"]]
      /\ queue = <<>> /\ flights = {}
      /\ poll = [queue |-> <<>>, tick |-> NoTick, active |-> FALSE, paused |-> FALSE]
      /\ session = TRUE /\ modal = FALSE
      /\ fails = [n |-> 0, probe |-> FALSE]
  BY DEF Init, FoldLeft, MapThenFoldSet
<1>2. \A o \in Owners : call[o] \in Call /\ call[o].result = "none"
  BY <1>1 DEF Call
<1>3. call \in [Owners -> Call]
  BY <1>1, <1>2
<1>4. poll \in Polling
  BY <1>1 DEF Polling
<1>5. queue \in Seq(Request) /\ flights \subseteq Seq(Request)
  BY <1>1
<1>6. fails \in [n : 0 .. MaxFail, probe : BOOLEAN]
  BY <1>1, PageAssumption
<1>7. PageTypeOK
  BY <1>1, <1>3, <1>4, <1>5, <1>6 DEF PageTypeOK
<1>8. RepliesMatch /\ ExpiryIsReal
  BY <1>1, <1>2 DEF RepliesMatch, ExpiryIsReal
<1>9. QED
  BY <1>7, <1>8 DEF Inv

(* The types of the page and its two safety properties hold for any set of *)
(* classes, polled functions and intervals.                                *)
THEOREM Invariant == Spec => []Inv
<1>1. Init => Inv
  BY StartHolds
<1>2. Inv /\ [Next]_vars => Inv'
  BY StepLemma
<1>3. QED
  BY <1>1, <1>2, PTL DEF Spec

(* A call that succeeds has the reply that the server made to it, in a     *)
(* batch of any length, in whatever order batches are answered and also    *)
(* when the answer is shorter than the batch (flushRequestQueue).          *)
THEOREM RepliesMatchHolds == Spec => []RepliesMatch
<1>1. Inv => RepliesMatch
  BY DEF Inv
<1>2. QED
  BY <1>1, Invariant, PTL

(* "Session expired" is shown only when the session is gone or the probe   *)
(* of it was lost, however many calls are refused for lack of permission   *)
(* (the interceptors of setupDOM).                                         *)
THEOREM ExpiryIsRealHolds == Spec => []ExpiryIsReal
<1>1. Inv => ExpiryIsReal
  BY DEF Inv
<1>2. QED
  BY <1>1, Invariant, PTL

-----------------------------------------------------------------------------
(* Realtime graphs *)

Rising(s) ==
  /\ s \in Seq(Nat \ {0})
  /\ \A j, k \in 1 .. Len(s) : j < k => s[j] < s[k]

(* The ring holds the end of what was stored. *)
RingIsEnd(ring, s) ==
  /\ ring \in Seq(Nat \ {0}) /\ Len(ring) <= Len(s) /\ (ring = <<>> => s = <<>>)
  /\ \A k \in 1 .. Len(ring) : ring[k] = s[Len(s) - Len(ring) + k]

(* The page knows the first m samples. *)
Known(time, s, m) == m \in 0 .. Len(s) /\ time = IF m = 0 THEN 0 ELSE s[m]

LineInv(line, time, fill, s, m, lost) ==
  /\ line \in [1 .. Window -> Nat]
  /\ \E n \in 0 .. Window :
       /\ \A j \in 1 .. Window - n : line[j] = 0
       /\ \A j \in Window - n + 1 .. Window : line[j] > 0 /\ line[j] <= time
       /\ \A j, k \in Window - n + 1 .. Window : j < k => line[j] < line[k]
       /\ n <= fill
       /\ ~lost => /\ fill - 1 <= n /\ n <= m
                   /\ \A k \in 1 .. n : line[Window - n + k] = s[m - n + k]

GraphShape(g) ==
  /\ {"values", "timestamp", "fill"} \subseteq DOMAIN g
  /\ g.timestamp \in Nat /\ g.fill \in 1 .. Window
  /\ g.timestamp = 0 => g.fill = 1

GraphInv(g, s, lost) ==
  /\ GraphShape(g)
  /\ \E m : Known(g.timestamp, s, m) /\ \A i \in DOMAIN g.values :
       LineInv(g.values[i], g.timestamp, g.fill, s, m, lost)

GraphPages ==
  {"bandwidth", "load", "wireless", "connections", "bandwidth_tfortis", "load_tfortis",
   "wireless_tfortis", "connections_tfortis"}

GraphOk ==
  open = "graph" =>
    /\ bwc = [now |-> bwc.now, ring |-> bwc.ring] /\ bwc.now \in Nat
    /\ {"page", "g"} \subseteq DOMAIN graph /\ graph.page \in GraphPages /\ missed \in BOOLEAN
    /\ Rising(taken) /\ RingIsEnd(bwc.ring, taken)
    /\ GraphInv(graph.g, taken, missed)

(* What a line takes of an answer whose new entries start at number a *)
PushTakes(c, values, j) ==
  IF j \in Fresh(c.g, c.data) /\ j >= c.from THEN Append(values, c.data[j]) ELSE values
PushKept(c, j, x) ==
  /\ x \in Seq(Nat) /\ Len(x) = Window + (IF j >= c.b THEN j - c.b + 1 ELSE 0)
  /\ \A k \in 1 .. Window : x[k] = c.line[k]
  /\ \A k \in c.b .. j : x[Window + k - c.b + 1] = c.data[k]
PushFold == INSTANCE FoldInduction WITH Op <- PushTakes, Good <- PushKept

(* The new entries of an answer are its last ones, from number a on. *)
LEMMA FreshIs ==
  ASSUME NEW g, g.timestamp \in Nat, NEW data, Rising(data)
  PROVE  \E a \in 1 .. Len(data) + 1 :
           /\ Fresh(g, data) = a .. Len(data)
           /\ g.timestamp = 0 /\ Len(data) > 0 => a = 2
           /\ g.timestamp > 0 /\ a > 1 => data[a - 1] <= g.timestamp
           /\ \A k \in a .. Len(data) : data[k] > g.timestamp
<1>1. PICK L \in Nat : L = Len(data)
  BY DEF Rising
<1>2. PICK time \in Nat : time = g.timestamp
  OBVIOUS
<1>3. \A j \in 1 .. L : data[j] \in Nat /\ data[j] > 0
  BY <1>1 DEF Rising
<1>4. \A j, k \in 1 .. L : j < k => data[j] < data[k]
  BY <1>1 DEF Rising
<1>5. CASE time = 0
  <2>1. Fresh(g, data) = 2 .. L
    BY <1>1, <1>2, <1>3, <1>5 DEF Fresh
  <2>2. CASE L > 0
    <3>1. 2 \in 1 .. L + 1 /\ \A k \in 2 .. L : data[k] > time
      BY <1>3, <1>5, <2>2
    <3>2. QED
      BY <1>1, <1>2, <1>5, <2>1, <3>1
  <2>3. CASE L = 0
    <3>1. 2 .. L = 1 .. L /\ 1 \in 1 .. L + 1 /\ \A k \in 1 .. L : data[k] > time
      BY <2>3
    <3>2. QED
      BY <1>1, <1>2, <1>5, <2>1, <2>3, <3>1
  <2>4. QED
    BY <2>2, <2>3
<1>6. CASE time > 0
  <2>1. PICK T : T = {j \in 1 .. L : data[j] > time}
    OBVIOUS
  <2>2. Fresh(g, data) = T
    BY <1>1, <1>2, <1>6, <2>1 DEF Fresh
  <2>3. CASE T = {}
    <3>1. L + 1 \in 1 .. L + 1 /\ L + 1 .. L = T
      BY <2>3
    <3>2. L + 1 > 1 => data[L + 1 - 1] <= time
      BY <1>3, <2>1, <2>3
    <3>3. \A k \in L + 1 .. L : data[k] > time
      OBVIOUS
    <3>4. QED
      BY <1>1, <1>2, <1>6, <2>2, <3>1, <3>2, <3>3
  <2>4. CASE T # {}
    <3>1. PICK a \in T : \A k \in T : a <= k
      BY <2>1, <2>4, PushFold!Least
    <3>2. T = a .. L
      BY <1>3, <1>4, <2>1, <3>1
    <3>3. a \in 1 .. L + 1
      BY <2>1, <3>1
    <3>4. a > 1 => data[a - 1] <= time
      <4>1. a - 1 \notin T
        BY <3>1, <3>3
      <4>2. a > 1 => a - 1 \in 1 .. L
        BY <2>1, <3>1
      <4>3. QED
        BY <1>3, <2>1, <4>1, <4>2
    <3>5. \A k \in a .. L : data[k] > time
      BY <2>1, <3>2
    <3>6. QED
      BY <1>1, <1>2, <1>6, <2>2, <3>2, <3>3, <3>4, <3>5
  <2>5. QED
    BY <2>3, <2>4
<1>7. QED
  BY <1>2, <1>5, <1>6

(* A line takes the entries of an answer from number b on, c in all. *)
Counts(L, a, from, b, c) ==
  /\ b = (IF from > a THEN from ELSE a)
  /\ c = (IF L >= b THEN L - b + 1 ELSE 0)

LEMMA CountsExist ==
  ASSUME NEW L \in Nat, NEW a \in Nat, NEW from \in Nat
  PROVE  \E b \in Nat, c \in Nat : Counts(L, a, from, b, c)
<1>1. PICK b \in Nat : b = (IF from > a THEN from ELSE a)
  OBVIOUS
<1>2. (IF L >= b THEN L - b + 1 ELSE 0) \in Nat
  OBVIOUS
<1>3. PICK c \in Nat : c = (IF L >= b THEN L - b + 1 ELSE 0)
  BY <1>2
<1>4. QED
  BY <1>1, <1>3 DEF Counts

Longer(x, line, data, b, c) ==
  /\ x \in Seq(Nat) /\ Len(x) = Window + c
  /\ \A k \in 1 .. Window : x[k] = line[k]
  /\ \A k \in 1 .. c : x[Window + k] = data[b + k - 1]

LEMMA PushedIs ==
  ASSUME NEW g, NEW data \in Seq(Nat), NEW L \in Nat, L = Len(data),
         NEW line \in [1 .. Window -> Nat],
         NEW a \in 1 .. L + 1, Fresh(g, data) = a .. L,
         NEW from \in Nat, NEW b \in Nat, NEW c \in Nat, Counts(L, a, from, b, c),
         NEW x, x = Pushed(g, data, line, from)
  PROVE  Longer(x, line, data, b, c)
<1>1. L = Len(data) /\ b = (IF from > a THEN from ELSE a) /\ c = (IF L >= b THEN L - b + 1 ELSE 0)
  BY DEF Counts
<1>2. Window \in Nat
  BY GraphAssumption
<1>3. PICK seq : seq = [j \in DOMAIN data |-> j]
  OBVIOUS
<1>4. DOMAIN seq = 1 .. L /\ \A j \in 1 .. L : seq[j] = j
  BY <1>1, <1>3
<1>5. PICK r : r = [g |-> g, data |-> data, line |-> line, from |-> from, b |-> b]
  OBVIOUS
<1>6. r.g = g /\ r.data = data /\ r.line = line /\ r.from = from /\ r.b = b
  BY <1>5
<1>7. PushKept(r, 0, line)
  <2>1. line \in Seq(Nat) /\ Len(line) = Window
    BY <1>2
  <2>2. b >= 1
    BY <1>1
  <2>3. QED
    BY <1>6, <2>1, <2>2 DEF PushKept
<1>8. ASSUME NEW j \in 1 .. L, NEW y, PushKept(r, j - 1, y)
      PROVE  PushKept(r, j, PushTakes(r, y, seq[j]))
  <2>1. /\ y \in Seq(Nat) /\ Len(y) = Window + (IF j - 1 >= b THEN j - 1 - b + 1 ELSE 0)
        /\ \A k \in 1 .. Window : y[k] = line[k]
        /\ \A k \in b .. j - 1 : y[Window + k - b + 1] = data[k]
    BY <1>6, <1>8 DEF PushKept
  <2>2. CASE j >= b
    <3>1. PICK z : z = Append(y, data[j])
      OBVIOUS
    <3>2. PushTakes(r, y, seq[j]) = z
      <4>1. j \in Fresh(g, data) /\ j >= from
        BY <1>1, <2>2
      <4>2. QED
        BY <1>4, <1>6, <3>1, <4>1 DEF PushTakes
    <3>3. z \in Seq(Nat) /\ Len(z) = Len(y) + 1 /\ z[Len(y) + 1] = data[j]
      <4>1. data[j] \in Nat
        BY <1>1
      <4>2. PICK v \in Nat : v = data[j]
        BY <4>1
      <4>3. y \in Seq(Nat) /\ z = Append(y, v)
        BY <2>1, <3>1, <4>2
      <4>4. z \in Seq(Nat) /\ Len(z) = Len(y) + 1 /\ z[Len(y) + 1] = v
        BY <4>3
      <4>5. QED
        BY <4>2, <4>4
    <3>4. \A k \in 1 .. Len(y) : z[k] = y[k]
      BY <2>1, <3>1
    <3>5. Len(y) = Window + j - b
      <4>1. Len(y) \in Nat /\ j \in Nat
        BY <2>1
      <4>2. QED
        BY <1>2, <2>1, <2>2, <4>1
    <3>6. Len(z) = Window + (IF j >= b THEN j - b + 1 ELSE 0)
      BY <1>2, <2>2, <3>3, <3>5
    <3>7. \A k \in 1 .. Window : z[k] = line[k]
      <4>1. \A k \in 1 .. Window : k \in 1 .. Len(y)
        BY <1>2, <2>2, <3>5
      <4>2. QED
        BY <2>1, <3>4, <4>1
    <3>8. ASSUME NEW k \in b .. j PROVE z[Window + k - b + 1] = data[k]
      <4>1. CASE k = j
        BY <1>2, <3>3, <3>5, <4>1
      <4>2. CASE k < j
        <5>1. k \in b .. j - 1 /\ Window + k - b + 1 \in 1 .. Len(y)
          BY <1>2, <3>5, <4>2
        <5>2. QED
          BY <2>1, <3>4, <5>1
      <4>3. QED
        BY <4>1, <4>2
    <3>9. QED
      BY <1>6, <3>2, <3>3, <3>6, <3>7, <3>8 DEF PushKept
  <2>3. CASE j < b
    <3>1. PushTakes(r, y, seq[j]) = y
      BY <1>1, <1>4, <1>6, <2>3 DEF PushTakes
    <3>2. QED
      BY <1>6, <2>1, <2>3, <3>1 DEF PushKept
  <2>4. QED
    BY <2>2, <2>3
<1>9. PICK z : z = PushFold!Fold(r, line, seq)
  OBVIOUS
<1>10. PushKept(r, L, z)
  BY <1>4, <1>7, <1>8, <1>9, PushFold!FoldKeeps
<1>11. FoldLeft(LAMBDA values, j : IF j \in Fresh(g, data) /\ j >= from THEN Append(values, data[j])
                                   ELSE values, line, seq) = z
  BY <1>6, <1>9 DEF PushFold!Fold, PushFold!Latest,
                    FoldLeft, MapThenFoldSet, Max, PushTakes
<1>12. x = z
  BY <1>3, <1>11 DEF Pushed
<1>13. /\ x \in Seq(Nat) /\ Len(x) = Window + c
       /\ \A k \in 1 .. Window : x[k] = line[k]
       /\ \A k \in b .. L : x[Window + k - b + 1] = data[k]
  BY <1>1, <1>6, <1>10, <1>12 DEF PushKept
<1>14. ASSUME NEW k \in 1 .. c PROVE x[Window + k] = data[b + k - 1]
  <2>1. b + k - 1 \in b .. L
    BY <1>1
  <2>2. Window + (b + k - 1) - b + 1 = Window + k
    BY <1>2
  <2>3. x[Window + (b + k - 1) - b + 1] = data[b + k - 1]
    BY <1>13, <2>1
  <2>4. QED
    BY <2>2, <2>3
<1>15. QED
  BY <1>13, <1>14 DEF Longer

LEMMA PartOfSeq ==
  ASSUME NEW D, NEW x \in Seq(D), NEW lo \in Int, NEW hi \in Int, 1 <= lo, lo <= hi + 1,
         hi <= Len(x)
  PROVE  /\ SubSeq(x, lo, hi) \in [1 .. hi - lo + 1 -> D]
         /\ SubSeq(x, lo, hi) \in Seq(D) /\ Len(SubSeq(x, lo, hi)) = hi - lo + 1
         /\ \A k \in 1 .. hi - lo + 1 : SubSeq(x, lo, hi)[k] = x[lo + k - 1]
<1>1. \A k \in lo .. hi : x[k] \in D
  <2>1. \A k \in lo .. hi : k \in 1 .. Len(x)
    OBVIOUS
  <2>2. QED
    BY <2>1, ElementOfSeq
<1>2. /\ SubSeq(x, lo, hi) \in Seq(D)
      /\ Len(SubSeq(x, lo, hi)) = IF lo <= hi THEN hi - lo + 1 ELSE 0
      /\ \A k \in 1 .. hi - lo + 1 : SubSeq(x, lo, hi)[k] = x[lo + k - 1]
  BY <1>1, SubSeqProperties
<1>3. PICK y \in Seq(D) : y = SubSeq(x, lo, hi)
  BY <1>2
<1>4. Len(y) = hi - lo + 1
  BY <1>2, <1>3
<1>5. y \in [1 .. hi - lo + 1 -> D]
  <2>1. y \in [1 .. Len(y) -> D]
    OBVIOUS
  <2>2. QED
    BY <1>4, <2>1
<1>6. QED
  BY <1>2, <1>3, <1>4, <1>5

(* The window keeps the end of the line. *)
LEMMA CutIs ==
  ASSUME NEW x \in Seq(Nat), NEW c \in Nat, Len(x) = Window + c,
         NEW y, y = Cut(x)
  PROVE  y \in [1 .. Window -> Nat] /\ \A k \in 1 .. Window : y[k] = x[k + c]
<1>1. PICK w \in Nat : w = Window
  BY GraphAssumption
<1>2. PICK lo \in Int : lo = c + 1
  OBVIOUS
<1>3. PICK hi \in Int : hi = w + c
  OBVIOUS
<1>4. y = SubSeq(x, lo, hi) /\ hi = Len(x) /\ hi - lo + 1 = w /\ 1 <= lo /\ lo <= hi + 1
  <2>1. Len(x) = hi /\ Len(x) - Window + 1 = lo
    BY <1>1, <1>2, <1>3
  <2>2. QED
    BY <1>1, <1>2, <1>3, <2>1 DEF Cut
<1>5. /\ SubSeq(x, lo, hi) \in [1 .. hi - lo + 1 -> Nat]
      /\ \A k \in 1 .. hi - lo + 1 : SubSeq(x, lo, hi)[k] = x[lo + k - 1]
  <2>1. hi <= Len(x)
    BY <1>4
  <2>2. \A D : x \in Seq(D) => SubSeq(x, lo, hi) \in [1 .. hi - lo + 1 -> D]
    BY <1>4, <2>1, PartOfSeq
  <2>3. \A k \in 1 .. hi - lo + 1 : SubSeq(x, lo, hi)[k] = x[lo + k - 1]
    BY <1>4, <2>1, PartOfSeq
  <2>4. QED
    BY <2>2, <2>3
<1>6. y \in [1 .. w -> Nat] /\ \A k \in 1 .. w : y[k] = x[lo + k - 1]
  BY <1>4, <1>5
<1>7. \A k \in 1 .. w : lo + k - 1 = k + c
  BY <1>2
<1>8. QED
  BY <1>1, <1>6, <1>7

(* A line after an answer with c new points, the last c samples *)
Later(s, S, c, time) == s[S] > time /\ \A k \in S - c + 1 .. S : s[k] > time
Moved(y, line, s, S, c) ==
  /\ \A k \in 1 .. Window : k + c <= Window => y[k] = line[k + c]
  /\ \A k \in 1 .. Window : k + c > Window => y[k] = s[S - Window + k]

(* Nothing was left out, and the page knew all samples before the c new ones. *)
Whole(now, lost, c, all, m, fill, S) ==
  ~now => ~lost /\ c = all /\ (m = 0 => fill = 1) /\ (m > 0 => m = S - c)

Grown(fill, all, more) == more = IF fill + all > Window THEN Window ELSE fill + all

LEMMA UpTo == \A n \in Nat : \A e \in 1 .. n : e = n \/ e < n
  OBVIOUS

(* What an answer with c new points of a line does *)
PollStep(time, fill, s, m, lost, line, S, c, all, now, y, more) ==
  /\ time \in Nat /\ fill \in 1 .. Window /\ Rising(s) /\ Known(time, s, m)
  /\ lost \in BOOLEAN /\ LineInv(line, time, fill, s, m, lost)
  /\ S \in Nat /\ S = Len(s) /\ c \in Nat /\ all \in Nat /\ c <= all /\ c <= S /\ 0 < S
  /\ Later(s, S, c, time) /\ now \in BOOLEAN /\ Whole(now, lost, c, all, m, fill, S)
  /\ y \in [1 .. Window -> Nat] /\ Moved(y, line, s, S, c)
  /\ more \in Nat /\ Grown(fill, all, more)

LEMMA LineStep ==
  ASSUME NEW time \in Nat, NEW fill \in 1 .. Window, NEW s, Rising(s), NEW m, Known(time, s, m),
         NEW lost \in BOOLEAN, NEW line, LineInv(line, time, fill, s, m, lost),
         NEW S \in Nat, S = Len(s), NEW c \in Nat, NEW all \in Nat, c <= all, c <= S, 0 < S,
         Later(s, S, c, time), NEW now \in BOOLEAN,
         Whole(now, lost, c, all, m, fill, S),
         NEW y \in [1 .. Window -> Nat], Moved(y, line, s, S, c),
         NEW more \in Nat, Grown(fill, all, more)
  PROVE  LineInv(y, s[S], more, s, S, now)
<1>1. PICK w \in Nat : w = Window
  BY GraphAssumption
<1>2. S = Len(s) /\ S > 0
  OBVIOUS
<1>3. PICK n \in 0 .. w :
       /\ \A j \in 1 .. w - n : line[j] = 0
       /\ \A j \in w - n + 1 .. w : line[j] > 0 /\ line[j] <= time
       /\ \A j, k \in w - n + 1 .. w : j < k => line[j] < line[k]
       /\ n <= fill
       /\ ~lost => /\ fill - 1 <= n /\ n <= m
                   /\ \A k \in 1 .. n : line[w - n + k] = s[m - n + k]
  BY <1>1 DEF LineInv
<1>0. ~now => ~lost /\ c = all /\ (m = 0 => fill = 1) /\ (m > 0 => m = S - c)
  BY DEF Whole
<1>4. \A j \in 1 .. w : line[j] \in Nat
  BY <1>1 DEF LineInv
<1>5. PICK p \in 0 .. w : p = IF n + c > w THEN w ELSE n + c
  OBVIOUS
<1>6. \A j \in 1 .. S : s[j] \in Nat
  BY <1>2 DEF Rising
<1>7. \A j, k \in 1 .. S : j < k => s[j] < s[k]
  BY <1>2 DEF Rising
<1>8. PICK late \in Nat : late = s[S] /\ late > time
  BY <1>2, <1>6 DEF Later
<1>9. \A k \in 1 .. w : k + c <= w => y[k] = line[k + c]
  BY <1>1 DEF Moved
<1>10. \A k \in 1 .. w : k + c > w => y[k] = s[S - w + k]
  BY <1>1, <1>2 DEF Moved
<1>11. \A k \in 1 .. w : k + c > w => S - w + k \in 1 .. S /\ y[k] > time /\ y[k] <= late
  <2> SUFFICES ASSUME NEW k \in 1 .. w, k + c > w
               PROVE  S - w + k \in 1 .. S /\ y[k] > time /\ y[k] <= late
    OBVIOUS
  <2>0. S - w + k \in Int /\ S - w + k <= S /\ S - w + k > S - c /\ S - c >= 0
    BY <1>2
  <2>1. PICK e \in 1 .. S : e = S - w + k /\ e > S - c
    BY <2>0
  <2>2. e \in S - c + 1 .. S
    BY <2>1
  <2>3. s[e] > time
    BY <1>2, <2>2 DEF Later
  <2>4. s[e] <= late
    <3>1. CASE e = S
      BY <1>8, <3>1
    <3>2. CASE e < S
      <4>1. s[e] < s[S] /\ s[e] \in Nat
        BY <1>6, <1>7, <2>1, <3>2
      <4>2. QED
        BY <1>8, <4>1
    <3>3. e = S \/ e < S
      BY <2>1, UpTo
    <3>4. QED
      BY <3>1, <3>2, <3>3
  <2>5. QED
    BY <1>10, <2>1, <2>3, <2>4
<1>12. \A k \in 1 .. w - p : y[k] = 0
  <2> SUFFICES ASSUME NEW k \in 1 .. w - p PROVE y[k] = 0
    OBVIOUS
  <2>1. k \in 1 .. w /\ k + c <= w /\ k + c \in 1 .. w - n
    BY <1>5
  <2>2. QED
    BY <1>3, <1>9, <2>1
<1>13. \A k \in w - p + 1 .. w : k \in 1 .. w /\ (k + c <= w => k + c \in w - n + 1 .. w)
  BY <1>5
<1>14. \A k \in w - p + 1 .. w : y[k] > 0 /\ y[k] <= late
  <2> SUFFICES ASSUME NEW k \in w - p + 1 .. w PROVE y[k] > 0 /\ y[k] <= late
    OBVIOUS
  <2>1. CASE k + c <= w
    <3>0. k \in 1 .. w /\ k + c \in w - n + 1 .. w
      BY <1>13, <2>1
    <3>1. y[k] = line[k + c] /\ k + c \in w - n + 1 .. w /\ k + c \in 1 .. w
      BY <1>9, <2>1, <3>0
    <3>2. line[k + c] > 0 /\ line[k + c] <= time /\ line[k + c] \in Nat
      BY <1>3, <1>4, <3>1
    <3>3. QED
      BY <1>8, <3>1, <3>2
  <2>2. CASE k + c > w
    <3>1. k \in 1 .. w
      BY <1>13
    <3>2. y[k] \in Nat /\ y[k] > time /\ y[k] <= late
      BY <1>1, <1>11, <2>2, <3>1
    <3>3. QED
      BY <3>2
  <2>3. QED
    BY <2>1, <2>2
<1>15. \A j, k \in w - p + 1 .. w : j < k => y[j] < y[k]
  <2> SUFFICES ASSUME NEW j \in w - p + 1 .. w, NEW k \in w - p + 1 .. w, j < k
               PROVE  y[j] < y[k]
    OBVIOUS
  <2>0. j \in 1 .. w /\ k \in 1 .. w
    BY <1>13
  <2>1. CASE k + c <= w
    <3>0. j + c <= w /\ j + c < k + c
      BY <2>0, <2>1
    <3>1. j + c \in w - n + 1 .. w /\ k + c \in w - n + 1 .. w /\ j + c < k + c
      BY <1>13, <2>1, <3>0
    <3>2. y[j] = line[j + c] /\ y[k] = line[k + c]
      BY <1>9, <2>0, <2>1
    <3>3. QED
      BY <1>3, <3>1, <3>2
  <2>2. CASE j + c <= w /\ k + c > w
    <3>0. j + c \in w - n + 1 .. w
      BY <1>13, <2>2
    <3>1. y[j] = line[j + c] /\ j + c \in w - n + 1 .. w /\ j + c \in 1 .. w
      BY <1>9, <2>0, <2>2, <3>0
    <3>2. line[j + c] <= time /\ line[j + c] \in Nat
      BY <1>3, <1>4, <3>1
    <3>3. y[k] \in Nat /\ y[k] > time
      BY <1>1, <1>11, <2>0, <2>2
    <3>4. QED
      BY <3>1, <3>2, <3>3
  <2>3. CASE j + c > w
    <3>1. k + c > w /\ S - w + j < S - w + k
      BY <2>3
    <3>2. S - w + j \in 1 .. S /\ S - w + k \in 1 .. S
      BY <1>11, <2>0, <2>3, <3>1
    <3>3. y[j] = s[S - w + j] /\ y[k] = s[S - w + k]
      BY <1>10, <2>0, <2>3, <3>1
    <3>4. QED
      BY <1>7, <3>1, <3>2, <3>3
  <2>4. QED
    BY <2>1, <2>2, <2>3
<1>16. p <= more
  BY <1>1, <1>3, <1>5 DEF Grown
<1>17. ASSUME ~now
       PROVE  /\ more - 1 <= p /\ p <= S
              /\ \A k \in 1 .. p : y[w - p + k] = s[S - p + k]
  <2>1. fill - 1 <= n /\ n <= m /\ m \in 0 .. S
    BY <1>0, <1>2, <1>3, <1>17 DEF Known
  <2>2. more - 1 <= p
    BY <1>0, <1>1, <1>5, <1>17, <2>1 DEF Grown
  <2>3. n + c <= S
    BY <1>0, <1>2, <1>17, <2>1
  <2>4. ASSUME NEW k \in 1 .. p PROVE y[w - p + k] = s[S - p + k]
    <3>0. w - p + k \in 1 .. w
      OBVIOUS
    <3>1. PICK q \in 1 .. w : q = w - p + k
      BY <3>0
    <3>2. S - p + k = S - w + q
      BY <1>5, <3>1
    <3>3. CASE q + c > w
      BY <1>10, <3>1, <3>2, <3>3
    <3>4. CASE q + c <= w
      <4>1. y[q] = line[q + c]
        BY <1>9, <3>4
      <4>2. PICK r \in 1 .. n : r = q + c - w + n
        BY <1>5, <3>1, <3>4
      <4>3. line[w - n + r] = s[m - n + r]
        BY <1>0, <1>3, <1>17, <4>2
      <4>4. m > 0
        BY <2>1, <4>2
      <4>5. m = S - c
        BY <1>0, <1>2, <1>17, <4>4
      <4>7. m - n + r = S - w + q /\ w - n + r = q + c
        BY <4>2, <4>5
      <4>6. QED
        BY <3>1, <3>2, <4>1, <4>3, <4>7
    <3>5. QED
      BY <3>3, <3>4
  <2>5. QED
    BY <1>5, <2>2, <2>3, <2>4
<1>18. QED
  BY <1>1, <1>2, <1>8, <1>12, <1>14, <1>15, <1>16, <1>17 DEF LineInv

LEMMA LineSteps ==
  ASSUME NEW time, NEW fill, NEW s, NEW m, NEW lost, NEW line, NEW S, NEW c, NEW all,
         NEW now, NEW y, NEW more, PollStep(time, fill, s, m, lost, line, S, c, all, now, y, more)
  PROVE  LineInv(y, s[S], more, s, S, now)
  BY LineStep DEF PollStep

Takes(y, line, data, b, c) ==
  /\ y \in [1 .. Window -> Nat]
  /\ \A k \in 1 .. Window : k + c <= Window => y[k] = line[k + c]
  /\ \A k \in 1 .. Window : k + c > Window => y[k] = data[b + (k + c - Window) - 1]

LEMMA LineTakes ==
  ASSUME NEW g, NEW data \in Seq(Nat), NEW L \in Nat, L = Len(data),
         NEW line \in [1 .. Window -> Nat],
         NEW a \in 1 .. L + 1, Fresh(g, data) = a .. L,
         NEW from \in {1, 2}, NEW x, x = Pushed(g, data, line, from),
         NEW y, y = Cut(x)
  PROVE  \E b \in Nat, c \in Nat : Counts(L, a, from, b, c) /\ Takes(y, line, data, b, c)
<1>1. from \in Nat /\ a \in Nat
  OBVIOUS
<1>2. PICK b \in Nat, c \in Nat : Counts(L, a, from, b, c)
  BY <1>1, CountsExist
<1>4. /\ x \in Seq(Nat) /\ Len(x) = Window + c
      /\ \A k \in 1 .. Window : x[k] = line[k]
      /\ \A k \in 1 .. c : x[Window + k] = data[b + k - 1]
  <2>1. Longer(x, line, data, b, c)
    BY <1>1, <1>2, PushedIs
  <2>2. QED
    BY <2>1 DEF Longer
<1>5. y \in [1 .. Window -> Nat] /\ \A k \in 1 .. Window : y[k] = x[k + c]
  BY <1>4, CutIs
<1>6. PICK w \in Nat : w = Window
  BY GraphAssumption
<1>7. ASSUME NEW k \in 1 .. w, k + c <= w PROVE y[k] = line[k + c]
  <2>1. k + c \in 1 .. w
    BY <1>7
  <2>2. QED
    BY <1>4, <1>5, <1>6, <2>1
<1>8. ASSUME NEW k \in 1 .. w, k + c > w PROVE y[k] = data[b + (k + c - w) - 1]
  <2>1. PICK e \in 1 .. c : e = k + c - w
    <3>1. k + c - w \in 1 .. c
      BY <1>8
    <3>2. QED
      BY <3>1
  <2>2. w + e = k + c
    BY <2>1
  <2>3. x[w + e] = data[b + e - 1]
    BY <1>4, <1>6, <2>1
  <2>4. QED
    BY <1>5, <1>6, <2>1, <2>2, <2>3
<1>9. Takes(y, line, data, b, c)
  BY <1>5, <1>6, <1>7, <1>8 DEF Takes
<1>10. QED
  BY <1>2, <1>9

LEMMA SameWindow ==
  ASSUME NEW p \in [1 .. Window -> Nat], NEW q \in [1 .. Window -> Nat],
         \A k \in 1 .. Window : p[k] = q[k]
  PROVE  p = q
<1>1. PICK w \in Nat : w = Window
  BY GraphAssumption
<1>2. p \in [1 .. w -> Nat] /\ q \in [1 .. w -> Nat] /\ \A k \in 1 .. w : p[k] = q[k]
  BY <1>1
<1>3. p = [k \in 1 .. w |-> p[k]] /\ q = [k \in 1 .. w |-> q[k]]
  BY <1>2
<1>4. [k \in 1 .. w |-> p[k]] = [k \in 1 .. w |-> q[k]]
  BY <1>2
<1>5. QED
  BY <1>3, <1>4

LEMMA FreshCount ==
  ASSUME NEW a \in Nat, NEW b \in Nat, a <= b + 1
  PROVE  /\ Cardinality(a .. b) = b - a + 1
         /\ a <= b => Max(a .. b) = b
<1>1. Cardinality(a .. b) = IF a > b THEN 0 ELSE b - a + 1
  BY FS_Interval
<1>2. ASSUME a <= b PROVE Max(a .. b) = b
  <2>1. b \in a .. b /\ \A k \in a .. b : b >= k
    BY <1>2
  <2>2. \A x \in a .. b : (\A k \in a .. b : x >= k) => x = b
    BY <1>2
  <2>3. QED
    BY <2>1, <2>2 DEF Max
<1>3. QED
  BY <1>1, <1>2

LEMMA PollKeeps ==
  ASSUME NEW s, Rising(s), NEW ring, RingIsEnd(ring, s), NEW lost \in BOOLEAN,
         NEW g, GraphInv(g, s, lost), NEW data \in {ring, <<>>}, NEW first \in {1, 2},
         NEW h, h = Advanced(g, data, first),
         NEW now \in BOOLEAN, now = (lost \/ (g.timestamp > 0 /\ 1 \in Fresh(g, data)))
  PROVE  GraphInv(h, s, now)
<1>1. GraphShape(g)
  BY DEF GraphInv
<1>2. PICK time \in Nat : time = g.timestamp
  BY <1>1 DEF GraphShape
<1>3. PICK fill \in 1 .. Window : fill = g.fill
  BY <1>1 DEF GraphShape
<1>4. PICK m : Known(time, s, m) /\ \A i \in DOMAIN g.values : LineInv(g.values[i], time, fill, s, m, lost)
  BY <1>2, <1>3 DEF GraphInv
<1>5. PICK S \in Nat : S = Len(s)
  BY DEF Rising
<1>s. \A j \in 1 .. S : s[j] \in Nat /\ s[j] > 0
  BY <1>5 DEF Rising
<1>t. \A j, k \in 1 .. S : j < k => s[j] < s[k]
  BY <1>5 DEF Rising
<1>6. data \in Seq(Nat \ {0}) /\ Rising(data)
  <2>1. CASE data = <<>>
    BY <2>1 DEF Rising
  <2>2. CASE data = ring
    <3>1. PICK R \in Nat : R = Len(ring)
      BY DEF RingIsEnd
    <3>2. R <= S /\ \A k \in 1 .. R : ring[k] = s[S - R + k]
      BY <1>5, <3>1 DEF RingIsEnd
    <3>3. ASSUME NEW j \in 1 .. R, NEW k \in 1 .. R, j < k PROVE ring[j] < ring[k]
      <4>1. S - R + j \in 1 .. S /\ S - R + k \in 1 .. S /\ S - R + j < S - R + k
        BY <3>2, <3>3
      <4>2. QED
        BY <1>t, <3>2, <4>1
    <3>4. QED
      BY <2>2, <3>1, <3>3 DEF Rising, RingIsEnd
  <2>3. QED
    BY <2>1, <2>2
<1>7. PICK L \in Nat : L = Len(data)
  BY <1>6
<1>8. PICK a \in 1 .. L + 1 :
         /\ Fresh(g, data) = a .. L
         /\ time = 0 /\ L > 0 => a = 2
         /\ time > 0 /\ a > 1 => data[a - 1] <= time
         /\ \A k \in a .. L : data[k] > time
  BY <1>2, <1>6, <1>7, FreshIs
<1>9. data \in Seq(Nat)
  BY <1>6
<1>10. PICK all \in Nat : all = L - a + 1 /\ Cardinality(Fresh(g, data)) = all
  <2>1. a \in Nat /\ a <= L + 1 /\ L - a + 1 \in Nat
    OBVIOUS
  <2>2. Cardinality(a .. L) = L - a + 1
    BY <2>1, FreshCount
  <2>3. QED
    BY <1>8, <2>1, <2>2
<1>11. PICK more \in Nat : more = IF fill + all > Window THEN Window ELSE fill + all
  BY GraphAssumption
<1>12. PICK at : at = IF Fresh(g, data) = {} THEN time ELSE data[Max(Fresh(g, data))]
  OBVIOUS
<1>13. PICK from : from = [i \in DOMAIN g.values |-> IF Drawn(g.lines)[i] = "counter" THEN first ELSE 1]
  OBVIOUS
<1>14. PICK vals : vals = [i \in DOMAIN g.values |->
          Cut(Pushed(g, data, g.values[i], from[i]))]
  OBVIOUS
<1>15. h = [g EXCEPT !.values = vals, !.timestamp = at, !.fill = more]
  BY <1>2, <1>3, <1>10, <1>11, <1>12, <1>13, <1>14 DEF Advanced
<1>16. /\ {"values", "timestamp", "fill"} \subseteq DOMAIN h
       /\ h.values = vals /\ h.timestamp = at /\ h.fill = more
  BY <1>1, <1>15 DEF GraphShape
<1>17. ASSUME NEW i \in DOMAIN g.values
       PROVE  \E f \in {1, 2}, b \in Nat, c \in Nat :
                Counts(L, a, f, b, c) /\ Takes(vals[i], g.values[i], data, b, c)
  <2>1. PICK line \in [1 .. Window -> Nat] : line = g.values[i]
    BY <1>4 DEF LineInv
  <2>2. PICK f \in {1, 2} : f = from[i]
    BY <1>13
  <2>3. PICK x : x = Pushed(g, data, line, f)
    OBVIOUS
  <2>4. vals[i] = Cut(x)
    BY <1>14, <2>1, <2>2, <2>3
  <2>5. QED
    BY <1>7, <1>8, <1>9, <2>1, <2>2, <2>3, <2>4, LineTakes
<1>18. CASE a = L + 1
  <2>1. Fresh(g, data) = {} /\ at = time /\ now = lost
    BY <1>8, <1>12, <1>18
  <2>2. all = 0 /\ more = fill
    BY <1>3, <1>10, <1>11, <1>18, GraphAssumption
  <2>3. ASSUME NEW i \in DOMAIN vals PROVE LineInv(vals[i], at, more, s, m, now)
    <3>1. i \in DOMAIN g.values
      BY <1>14
    <3>0. PICK f0 \in {1, 2}, b \in Nat, c \in Nat :
            Counts(L, a, f0, b, c) /\ Takes(vals[i], g.values[i], data, b, c)
      BY <1>17, <3>1
    <3>2. /\ b = (IF f0 > a THEN f0 ELSE a)
          /\ c = (IF L >= b THEN L - b + 1 ELSE 0)
          /\ vals[i] \in [1 .. Window -> Nat]
          /\ \A k \in 1 .. Window : k + c <= Window => vals[i][k] = g.values[i][k + c]
      BY <3>0 DEF Takes, Counts
    <3>3. c = 0
      BY <1>18, <3>2
    <3>4. \A k \in 1 .. Window : vals[i][k] = g.values[i][k]
      BY <3>2, <3>3, GraphAssumption
    <3>5. g.values[i] \in [1 .. Window -> Nat]
      BY <1>4, <3>1 DEF LineInv
    <3>6. vals[i] = g.values[i]
      <4>1. PICK p \in [1 .. Window -> Nat], q \in [1 .. Window -> Nat] : p = vals[i] /\ q = g.values[i]
        BY <3>2, <3>5
      <4>2. \A k \in 1 .. Window : p[k] = q[k]
        BY <3>4, <4>1
      <4>3. p = q
        BY <4>2, SameWindow
      <4>4. QED
        BY <4>1, <4>3
    <3>7. QED
      BY <1>4, <2>1, <2>2, <3>1, <3>6
  <2>4. GraphShape(h)
    BY <1>1, <1>2, <1>3, <1>16, <2>1, <2>2 DEF GraphShape
  <2>5. QED
    BY <1>4, <1>16, <2>1, <2>2, <2>3, <2>4 DEF GraphInv
<1>19. CASE a <= L
  <2>1. data = ring /\ L > 0
    BY <1>7, <1>19
  <2>2. L <= S /\ \A k \in 1 .. L : data[k] = s[S - L + k]
    BY <1>5, <1>7, <2>1 DEF RingIsEnd
  <2>3. at = s[S]
    <3>1. L \in Fresh(g, data) /\ Max(Fresh(g, data)) = L
      BY <1>8, <1>19, FreshCount
    <3>2. data[L] = s[S - L + L] /\ S - L + L = S
      BY <2>1, <2>2
    <3>3. QED
      BY <1>12, <3>1, <3>2
  <2>4. S > 0 /\ s[S] > time
    <3>1. data[L] > time /\ data[L] = s[S - L + L] /\ S - L + L = S
      BY <1>8, <1>19, <2>1, <2>2
    <3>2. QED
      BY <2>1, <2>2, <3>1
  <2>5. now = (lost \/ (time > 0 /\ a = 1))
    BY <1>2, <1>8, <1>19
  <2>6. ASSUME NEW i \in DOMAIN vals PROVE LineInv(vals[i], s[S], more, s, S, now)
    <3>1. i \in DOMAIN g.values
      BY <1>14
    <3>0. PICK f0 \in {1, 2}, b \in Nat, c \in Nat :
            Counts(L, a, f0, b, c) /\ Takes(vals[i], g.values[i], data, b, c)
      BY <1>17, <3>1
    <3>2. /\ b = (IF f0 > a THEN f0 ELSE a)
          /\ c = (IF L >= b THEN L - b + 1 ELSE 0)
          /\ vals[i] \in [1 .. Window -> Nat]
          /\ \A k \in 1 .. Window : k + c <= Window => vals[i][k] = g.values[i][k + c]
          /\ \A k \in 1 .. Window : k + c > Window => vals[i][k] = data[b + (k + c - Window) - 1]
      BY <3>0 DEF Takes, Counts
    <3>3. a <= b /\ b <= L + 1 /\ c = L - b + 1 /\ c <= all /\ c <= S
      <4>1. f0 <= 2 /\ a \in Nat /\ a <= L
        BY <1>19
      <4>2. a <= b /\ b <= L + 1
        BY <2>1, <3>2, <4>1
      <4>3. c = L - b + 1
        BY <3>2, <4>2
      <4>4. QED
        BY <1>10, <2>2, <4>1, <4>2, <4>3
    <3>4. \A k \in S - c + 1 .. S : s[k] > time
      <4> SUFFICES ASSUME NEW k \in S - c + 1 .. S PROVE s[k] > time
        OBVIOUS
      <4>1. PICK e \in a .. L : e = k - S + L
        <5>1. k - S + L \in a .. L
          BY <3>3
        <5>2. QED
          BY <5>1
      <4>2. e \in 1 .. L /\ S - L + e = k
        BY <4>1
      <4>3. QED
        BY <1>8, <2>2, <4>1, <4>2
    <3>5. ASSUME ~now
          PROVE  ~lost /\ c = all /\ (m = 0 => fill = 1) /\ (m > 0 => m = S - c)
      <4>1. ~lost /\ (time = 0 \/ a > 1)
        <5>1. ~lost /\ ~(time > 0 /\ a = 1)
          BY <2>5, <3>5
        <5>2. QED
          BY <5>1
      <4>2. a >= 2
        BY <1>8, <2>1, <4>1
      <4>3. b = a /\ c = all
        BY <1>10, <3>2, <3>3, <4>2
      <4>4. m \in 0 .. S /\ time = IF m = 0 THEN 0 ELSE s[m]
        BY <1>4, <1>5 DEF Known
      <4>5. m = 0 => fill = 1
        BY <1>1, <1>2, <1>3, <4>4 DEF GraphShape
      <4>6. ASSUME m > 0 PROVE m = S - c
        <5>1. m \in 1 .. S /\ time = s[m] /\ time > 0
          BY <1>s, <4>4, <4>6
        <5>2. a - 1 \in 1 .. L /\ data[a - 1] <= time
          BY <1>8, <4>2, <5>1
        <5>3. PICK e \in 1 .. S : e = S - L + (a - 1)
          <6>1. S - L + (a - 1) \in 1 .. S
            BY <2>2, <5>2
          <6>2. QED
            BY <6>1
        <5>4. s[e] <= s[m]
          BY <2>2, <5>1, <5>2, <5>3
        <5>5. ~(m < e)
          <6>1. s[e] \in Nat /\ s[m] \in Nat
            BY <1>s, <5>1
          <6>2. QED
            BY <1>t, <5>1, <5>4, <6>1
        <5>6. PICK f \in 1 .. S : f = S - L + a
          <6>1. S - L + a \in 1 .. S
            BY <1>19, <2>2
          <6>2. QED
            BY <6>1
        <5>7. s[f] > s[m]
          <6>1. a \in 1 .. L /\ a \in a .. L
            BY <1>19
          <6>2. QED
            BY <1>8, <2>2, <5>1, <5>6, <6>1
        <5>8. ~(f <= m)
          <6>1. s[f] \in Nat /\ s[m] \in Nat
            BY <1>s, <5>1
          <6>2. f # m /\ ~(f < m)
            BY <1>t, <5>1, <5>7, <6>1
          <6>3. QED
            BY <5>1, <6>2
        <5>9. QED
          BY <3>3, <4>3, <5>1, <5>3, <5>5, <5>6, <5>8
      <4>7. QED
        BY <4>1, <4>3, <4>5, <4>6
    <3>6. \A k \in 1 .. Window : k + c > Window => vals[i][k] = s[S - Window + k]
      <4>1. PICK w \in Nat : w = Window
        BY GraphAssumption
      <4> SUFFICES ASSUME NEW k \in 1 .. w, k + c > w PROVE vals[i][k] = s[S - w + k]
        BY <4>1
      <4>2. PICK e \in 1 .. L : e = b + (k + c - w) - 1
        <5>1. b + (k + c - w) - 1 \in 1 .. L
          BY <3>3
        <5>2. QED
          BY <5>1
      <4>3. S - L + e = S - w + k
        BY <3>3, <4>2
      <4>4. vals[i][k] = data[e]
        BY <3>2, <4>1, <4>2
      <4>5. QED
        BY <2>2, <4>3, <4>4
    <3>7. LineInv(g.values[i], time, fill, s, m, lost)
      BY <1>4, <3>1
    <3>8. c <= all /\ c <= S /\ 0 < S
      BY <2>4, <3>3
    <3>9. Whole(now, lost, c, all, m, fill, S)
      BY <3>5 DEF Whole
    <3>10. Known(time, s, m) /\ S = Len(s) /\ Later(s, S, c, time) /\ Grown(fill, all, more)
      BY <1>4, <1>5, <1>11, <2>4, <3>4 DEF Later, Grown
    <3>11. PICK y \in [1 .. Window -> Nat] : y = vals[i]
      BY <3>2
    <3>12. PICK line : line = g.values[i]
      OBVIOUS
    <3>13. Moved(y, line, s, S, c) /\ LineInv(line, time, fill, s, m, lost)
      BY <3>2, <3>6, <3>7, <3>11, <3>12 DEF Moved
    <3>16. PollStep(time, fill, s, m, lost, line, S, c, all, now, y, more)
      BY <3>8, <3>9, <3>10, <3>13 DEF PollStep
    <3>14. LineInv(y, s[S], more, s, S, now)
      BY <3>16, LineSteps
    <3>15. QED
      BY <3>11, <3>14
  <2>7. Known(s[S], s, S)
    BY <1>5, <2>4 DEF Known
  <2>8. GraphShape(h)
    <3>1. at \in Nat /\ at > 0
      BY <1>s, <2>3, <2>4
    <3>2. more \in 1 .. Window
      BY <1>3, <1>11, GraphAssumption
    <3>3. QED
      BY <1>16, <3>1, <3>2 DEF GraphShape
  <2>9. QED
    BY <1>16, <2>3, <2>6, <2>7, <2>8 DEF GraphInv
<1>20. QED
  BY <1>18, <1>19

LEMMA UpToNext == \A n \in Nat : \A e \in 1 .. n + 1 : e = n + 1 \/ e \in 1 .. n
  OBVIOUS

LEMMA EndIs ==
  ASSUME NEW r \in Seq(Nat \ {0}), NEW z \in Seq(Nat \ {0}), NEW n \in Nat, NEW Z \in Nat,
         n = Len(r), Z = Len(z), 0 < n, n <= Z, \A k \in 1 .. n : r[k] = z[Z - n + k]
  PROVE  RingIsEnd(r, z)
<1>1. r # <<>>
  OBVIOUS
<1>2. QED
  BY <1>1 DEF RingIsEnd

(* The collector stores a sample in the ring and in the history, or in neither. *)
Stored(s, ring, t, r, z) ==
  /\ Rising(s) /\ RingIsEnd(ring, s) /\ t \in Nat \ {0} /\ r = update_file(ring, t)
  /\ z = IF r = ring THEN s ELSE Append(s, t)

LEMMA RingKept ==
  ASSUME NEW s, NEW ring, NEW t, NEW r, NEW z, Stored(s, ring, t, r, z)
  PROVE  Rising(z) /\ RingIsEnd(r, z) /\ (z = s \/ z = Append(s, t))
<1>0. /\ Rising(s) /\ RingIsEnd(ring, s) /\ t \in Nat \ {0} /\ r = update_file(ring, t)
      /\ z = IF r = ring THEN s ELSE Append(s, t)
  BY DEF Stored
<1> USE <1>0
<1>1. PICK S \in Nat : S = Len(s)
  BY DEF Rising
<1>2. PICK R \in Nat : R = Len(ring)
  BY DEF RingIsEnd
<1>3. CASE r = ring
  BY <1>3
<1>4. CASE r # ring
  <2>1. z = Append(s, t)
    BY <1>4
  <2>2. PICK x : x = Append(ring, t)
    OBVIOUS
  <2>3. ~(ring # <<>> /\ t <= Last(ring))
    BY <1>4 DEF update_file
  <2>4. PICK lo \in {1, 2} : lo = IF Len(x) > Ring THEN 2 ELSE 1
    OBVIOUS
  <2>5. r = SubSeq(x, lo, Len(x))
    BY <2>2, <2>3, <2>4 DEF update_file
  <2>6. x \in Seq(Nat \ {0}) /\ Len(x) = R + 1 /\ x[R + 1] = t /\ \A k \in 1 .. R : x[k] = ring[k]
    BY <1>2, <2>2 DEF RingIsEnd
  <2>7. lo <= R + 1
    BY <2>4, <2>6, GraphAssumption
  <2>8. PICK n \in Nat : n = R + 1 - lo + 1
    BY <2>7
  <2>9. r \in [1 .. n -> Nat \ {0}] /\ \A k \in 1 .. n : r[k] = x[lo + k - 1]
    <3>1. \A D : x \in Seq(D) => SubSeq(x, lo, R + 1) \in [1 .. R + 1 - lo + 1 -> D]
      BY <2>6, <2>7, PartOfSeq
    <3>2. \A k \in 1 .. R + 1 - lo + 1 : SubSeq(x, lo, R + 1)[k] = x[lo + k - 1]
      BY <2>6, <2>7, PartOfSeq
    <3>3. QED
      BY <2>5, <2>6, <2>8, <3>1, <3>2
  <2>10. z \in Seq(Nat \ {0}) /\ Len(z) = S + 1 /\ z[S + 1] = t /\ \A k \in 1 .. S : z[k] = s[k]
    BY <1>1, <2>1 DEF Rising
  <2>11. \A k \in 1 .. S : s[k] \in Nat /\ s[k] < t
    <3> SUFFICES ASSUME NEW k \in 1 .. S PROVE s[k] \in Nat /\ s[k] < t
      OBVIOUS
    <3>1. s[k] \in Nat /\ s[S] \in Nat
      BY <1>1 DEF Rising
    <3>2. R > 0 /\ ring[R] = s[S]
      <4>0. s # <<>>
        <5>1. S > 0 /\ Len(<<>>) = 0
          OBVIOUS
        <5>2. QED
          BY <1>1, <5>1
      <4>1. ring # <<>>
        BY <4>0 DEF RingIsEnd
      <4>2. R > 0
        BY <1>2, <4>1 DEF RingIsEnd
      <4>3. R \in 1 .. R /\ S - R + R = S
        BY <4>2
      <4>4. QED
        BY <1>1, <1>2, <4>2, <4>3 DEF RingIsEnd
    <3>3. s[S] < t
      <4>1. ring # <<>> /\ Last(ring) = ring[R]
        BY <1>2, <3>2 DEF Last
      <4>2. QED
        BY <2>3, <3>1, <3>2, <4>1
    <3>4. k = S \/ k < S
      BY UpTo
    <3>5. k < S => s[k] < s[S]
      BY <1>1 DEF Rising
    <3>6. QED
      BY <3>1, <3>3, <3>4, <3>5
  <2>12. Rising(z)
    <3>1. ASSUME NEW j \in 1 .. S + 1, NEW k \in 1 .. S + 1, j < k PROVE z[j] < z[k]
      <4>1. j \in 1 .. S
        BY <3>1
      <4>2. CASE k = S + 1
        <5>1. z[j] = s[j] /\ s[j] < t /\ z[k] = t
          BY <2>10, <2>11, <4>1, <4>2
        <5>2. QED
          BY <5>1
      <4>3. CASE k \in 1 .. S
        <5>1. s[j] < s[k]
          BY <1>1, <3>1, <4>1, <4>3 DEF Rising
        <5>2. QED
          BY <2>10, <4>1, <4>3, <5>1
      <4>4. QED
        BY <4>2, <4>3, UpToNext
    <3>2. \A j, k \in 1 .. Len(z) : j < k => z[j] < z[k]
      BY <2>10, <3>1
    <3>3. QED
      BY <2>10, <3>2 DEF Rising
  <2>13. r \in Seq(Nat \ {0}) /\ Len(r) = n /\ n > 0
    <3>1. r \in Seq(Nat \ {0}) /\ Len(r) = n
      BY <2>9
    <3>2. n > 0
      BY <2>7, <2>8
    <3>3. QED
      BY <3>1, <3>2
  <2>14. R <= S /\ \A k \in 1 .. R : ring[k] = s[S - R + k]
    BY <1>1, <1>2 DEF RingIsEnd
  <2>15. \A k \in 1 .. n : r[k] = z[S + 1 - n + k]
    <3> SUFFICES ASSUME NEW k \in 1 .. n PROVE r[k] = z[S + 1 - n + k]
      OBVIOUS
    <3>0. lo + k - 1 \in 1 .. R + 1
      BY <2>8
    <3>1. PICK e \in 1 .. R + 1 : e = lo + k - 1
      BY <3>0
    <3>2. S + 1 - n + k = S - R + e
      BY <2>8, <3>1
    <3>3. CASE e = R + 1
      <4>1. S - R + e = S + 1
        BY <3>3
      <4>2. QED
        BY <2>6, <2>9, <2>10, <3>1, <3>2, <3>3, <4>1
    <3>4. CASE e \in 1 .. R
      <4>1. S - R + e \in 1 .. S
        BY <2>14, <3>4
      <4>2. x[e] = s[S - R + e]
        BY <2>6, <2>14, <3>4
      <4>3. QED
        BY <2>9, <2>10, <3>1, <3>2, <4>1, <4>2
    <3>5. QED
      BY <3>3, <3>4, UpToNext
  <2>16. n <= S + 1
    BY <2>8, <2>14
  <2>17. RingIsEnd(r, z)
    <3>1. PICK Z \in Nat : Z = S + 1
      OBVIOUS
    <3>2. r \in Seq(Nat \ {0}) /\ z \in Seq(Nat \ {0}) /\ n = Len(r) /\ Z = Len(z)
      BY <2>10, <2>13, <3>1
    <3>3. ASSUME NEW k \in 1 .. n PROVE r[k] = z[Z - n + k]
      <4>1. S + 1 - n + k = Z - n + k
        BY <3>1
      <4>2. QED
        BY <2>15, <4>1
    <3>4. 0 < n /\ n <= Z
      BY <2>13, <2>16, <3>1
    <3>5. QED
      BY <3>2, <3>3, <3>4, EndIs
  <2>18. QED
    BY <2>1, <2>12, <2>17
<1>5. QED
  BY <1>3, <1>4

(* A new sample at the end leaves what a line shows. *)
LEMMA LineStays ==
  ASSUME NEW line, NEW time, NEW fill \in Nat, NEW s \in Seq(Nat \ {0}), NEW t \in Nat \ {0},
         NEW m, Known(time, s, m), NEW lost \in BOOLEAN, LineInv(line, time, fill, s, m, lost)
  PROVE  LineInv(line, time, fill, Append(s, t), m, lost)
<1>1. PICK w \in Nat : w = Window
  BY GraphAssumption
<1>2. PICK n \in 0 .. w :
       /\ \A j \in 1 .. w - n : line[j] = 0
       /\ \A j \in w - n + 1 .. w : line[j] > 0 /\ line[j] <= time
       /\ \A j, k \in w - n + 1 .. w : j < k => line[j] < line[k]
       /\ n <= fill
       /\ ~lost => /\ fill - 1 <= n /\ n <= m
                   /\ \A k \in 1 .. n : line[w - n + k] = s[m - n + k]
  BY <1>1 DEF LineInv
<1>3. m \in 0 .. Len(s)
  BY DEF Known
<1>4. ASSUME ~lost PROVE \A k \in 1 .. n : line[w - n + k] = Append(s, t)[m - n + k]
  <2> SUFFICES ASSUME NEW k \in 1 .. n PROVE line[w - n + k] = Append(s, t)[m - n + k]
    OBVIOUS
  <2>1. m - n + k \in 1 .. Len(s)
    BY <1>2, <1>3, <1>4
  <2>2. Append(s, t)[m - n + k] = s[m - n + k]
    BY <2>1
  <2>3. QED
    BY <1>2, <1>4, <2>2
<1>5. line \in [1 .. Window -> Nat]
  BY DEF LineInv
<1>6. QED
  BY <1>1, <1>2, <1>4, <1>5 DEF LineInv

LEMMA GraphStays ==
  ASSUME NEW g, NEW s, Rising(s), NEW t \in Nat \ {0}, NEW lost \in BOOLEAN, GraphInv(g, s, lost)
  PROVE  GraphInv(g, Append(s, t), lost)
<1>1. s \in Seq(Nat \ {0})
  BY DEF Rising
<1>2. PICK m : Known(g.timestamp, s, m) /\ \A i \in DOMAIN g.values :
        LineInv(g.values[i], g.timestamp, g.fill, s, m, lost)
  BY DEF GraphInv
<1>3. Known(g.timestamp, Append(s, t), m)
  <2>1. m \in 0 .. Len(s) /\ Len(Append(s, t)) = Len(s) + 1
    BY <1>1, <1>2 DEF Known
  <2>2. m # 0 => Append(s, t)[m] = s[m]
    BY <1>1, <2>1
  <2>3. QED
    BY <1>1, <1>2, <2>1, <2>2 DEF Known
<1>4. g.fill \in Nat
  BY GraphAssumption DEF GraphInv, GraphShape
<1>5. \A i \in DOMAIN g.values : LineInv(g.values[i], g.timestamp, g.fill, Append(s, t), m, lost)
  BY <1>1, <1>2, <1>4, LineStays
<1>6. QED
  BY <1>3, <1>5 DEF GraphInv

LEMMA StartIs ==
  ASSUME NEW lines PROVE GraphInv(bandwidth_updateGraph(lines), <<>>, FALSE)
<1>1. PICK w \in Nat \ {0} : w = Window
  BY GraphAssumption
<1>2. PICK line : line = [j \in 1 .. w |-> 0]
  OBVIOUS
<1>3. PICK g : g = bandwidth_updateGraph(lines)
  OBVIOUS
<1>4. /\ {"values", "timestamp", "fill"} \subseteq DOMAIN g
      /\ g.timestamp = 0 /\ g.fill = 1 /\ \A i \in DOMAIN g.values : g.values[i] = line
  BY <1>1, <1>2, <1>3 DEF bandwidth_updateGraph
<1>5. LineInv(line, 0, 1, <<>>, 0, FALSE)
  <2>1. line \in [1 .. w -> Nat] /\ 0 \in 0 .. w
    BY <1>2
  <2>2. \A j \in 1 .. w - 0 : line[j] = 0
    BY <1>2
  <2>3. w - 0 + 1 .. w = {} /\ 1 .. 0 = {} /\ 0 <= 1 /\ 1 - 1 <= 0 /\ 0 <= 0
    OBVIOUS
  <2>4. QED
    BY <1>1, <2>1, <2>2, <2>3 DEF LineInv
<1>6. Known(0, <<>>, 0)
  BY DEF Known
<1>7. GraphShape(g)
  BY <1>1, <1>4 DEF GraphShape
<1>8. \E m : Known(g.timestamp, <<>>, m) /\ \A i \in DOMAIN g.values :
        LineInv(g.values[i], g.timestamp, g.fill, <<>>, m, FALSE)
  BY <1>4, <1>5, <1>6
<1>9. QED
  BY <1>3, <1>7, <1>8 DEF GraphInv

LEMMA GraphStarts == ElementsInit => GraphOk
<1> SUFFICES ASSUME ElementsInit, open = "graph" PROVE GraphOk
  BY DEF GraphOk
<1>1. GraphInit
  BY DEF ElementsInit
<1>2. PICK p, lines : p \in GraphPages /\ graph = [page |-> p, g |-> bandwidth_updateGraph(lines)]
  <2>1. PICK s \in Starts : graph = [page |-> s[1], g |-> s[2]]
    BY <1>1 DEF GraphInit
  <2>2. \E p, lines : p \in GraphPages /\ s = <<p, bandwidth_updateGraph(lines)>>
    BY DEF Starts, GraphPages, load_updateGraph, wireless_updateGraph, connections_updateGraph,
      bandwidth_tfortis_updateGraph, load_tfortis_updateGraph, wireless_tfortis_updateGraph,
      connections_tfortis_updateGraph
  <2>3. QED
    BY <2>1, <2>2
<1>3. GraphInv(bandwidth_updateGraph(lines), <<>>, FALSE)
  BY StartIs
<1>4. bwc = [now |-> 0, ring |-> <<>>] /\ taken = <<>> /\ missed = FALSE
  BY <1>1 DEF GraphInit
<1>5. Rising(taken) /\ RingIsEnd(bwc.ring, taken)
  BY <1>4 DEF Rising, RingIsEnd
<1>6. QED
  BY <1>2, <1>3, <1>4, <1>5 DEF GraphOk

LEMMA TickKeeps == GraphOk /\ open = "graph" /\ open' = open /\ Tick => GraphOk'
<1> SUFFICES ASSUME GraphOk, open = "graph", open' = open, Tick PROVE GraphOk'
  OBVIOUS
<1>1. PICK t \in Nat \ {0} : t = bwc.now + 1
  BY DEF GraphOk
<1>2. PICK r : r = update_file(bwc.ring, t)
  OBVIOUS
<1>3. bwc' = [now |-> t, ring |-> r] /\ taken' = (IF r = bwc.ring THEN taken ELSE Append(taken, t))
  BY <1>1, <1>2 DEF Tick
<1>4. graph' = graph /\ missed' = missed
  BY DEF Tick
<1>5. Rising(taken) /\ RingIsEnd(bwc.ring, taken) /\ GraphInv(graph.g, taken, missed)
  BY DEF GraphOk
<1>6. Rising(taken') /\ RingIsEnd(r, taken') /\ (taken' = taken \/ taken' = Append(taken, t))
  <2>1. PICK z : z = IF r = bwc.ring THEN taken ELSE Append(taken, t)
    OBVIOUS
  <2>2. Stored(taken, bwc.ring, t, r, z)
    BY <1>2, <1>5, <2>1 DEF Stored
  <2>4. Rising(z) /\ RingIsEnd(r, z) /\ (z = taken \/ z = Append(taken, t))
    BY <2>2, RingKept
  <2>3. QED
    BY <1>3, <2>1, <2>4
<1>7. missed \in BOOLEAN
  BY DEF GraphOk
<1>8. GraphInv(graph.g, taken', missed)
  <2>1. GraphInv(graph.g, Append(taken, t), missed)
    BY <1>5, <1>7, GraphStays
  <2>2. QED
    BY <1>5, <1>6, <2>1
<1>9. QED
  BY <1>3, <1>4, <1>6, <1>8 DEF GraphOk

LEMMA ClockKeeps == GraphOk /\ open = "graph" /\ open' = open /\ ClockSet => GraphOk'
<1> SUFFICES ASSUME GraphOk, open = "graph", open' = open, ClockSet PROVE GraphOk'
  OBVIOUS
<1>1. PICK t \in Nat : bwc' = [bwc EXCEPT !.now = t]
  BY GraphAssumption DEF ClockSet
<1>2. bwc' = [now |-> t, ring |-> bwc.ring] /\ graph' = graph /\ taken' = taken /\ missed' = missed
  BY <1>1 DEF ClockSet, GraphOk
<1>3. QED
  BY <1>2 DEF GraphOk

LEMMA PollIs ==
  ASSUME NEW p \in GraphPages, NEW g, NEW data
  PROVE  \E first \in {1, 2} : pollData(p, g, data) = Advanced(g, data, first)
<1>1. p \in {"bandwidth", "bandwidth_tfortis"} => pollData(p, g, data) = Advanced(g, data, 2)
  BY DEF pollData, bandwidth_pollData, bandwidth_tfortis_pollData
<1>2. p \in {"load", "wireless", "connections"} => pollData(p, g, data) = Advanced(g, data, 1)
  BY DEF pollData, load_pollData, wireless_pollData, connections_pollData
<1>3. p \in {"load_tfortis", "wireless_tfortis", "connections_tfortis"} =>
        pollData(p, g, data) = Advanced(g, data, 1)
  BY DEF pollData, load_pollData, wireless_pollData, connections_pollData,
    load_tfortis_pollData, wireless_tfortis_pollData, connections_tfortis_pollData
<1>4. QED
  BY <1>1, <1>2, <1>3 DEF GraphPages

LEMMA GraphPollKeeps == GraphOk /\ open = "graph" /\ open' = open /\ GraphPoll => GraphOk'
<1> SUFFICES ASSUME GraphOk, open = "graph", open' = open, GraphPoll PROVE GraphOk'
  OBVIOUS
<1>1. PICK g : g = graph.g
  OBVIOUS
<1>2. PICK data \in {bwc.ring, <<>>} :
        /\ graph' = [graph EXCEPT !.g = pollData(graph.page, g, data)]
        /\ missed' = (missed \/ (g.timestamp > 0 /\ 1 \in Fresh(g, data)))
  BY <1>1 DEF GraphPoll
<1>3. graph.page \in GraphPages /\ missed \in BOOLEAN /\ {"page", "g"} \subseteq DOMAIN graph
  BY DEF GraphOk
<1>4. PICK first \in {1, 2} : pollData(graph.page, g, data) = Advanced(g, data, first)
  BY <1>3, PollIs
<1>5. PICK now \in BOOLEAN : now = (missed \/ (g.timestamp > 0 /\ 1 \in Fresh(g, data)))
  OBVIOUS
<1>6. Rising(taken) /\ RingIsEnd(bwc.ring, taken) /\ GraphInv(g, taken, missed)
  BY <1>1 DEF GraphOk
<1>7. PICK h : h = Advanced(g, data, first)
  OBVIOUS
<1>8. GraphInv(h, taken, now)
  BY <1>3, <1>5, <1>6, <1>7, PollKeeps
<1>9. graph' = [graph EXCEPT !.g = h]
  BY <1>2, <1>4, <1>7
<1>10. {"page", "g"} \subseteq DOMAIN graph' /\ graph'.page = graph.page /\ graph'.g = h
  BY <1>3, <1>9
<1>11. missed' = now /\ bwc' = bwc /\ taken' = taken
  BY <1>2, <1>5 DEF GraphPoll
<1>12. QED
  BY <1>3, <1>6, <1>8, <1>10, <1>11 DEF GraphOk

LEMMA GraphKept == GraphOk /\ [ElementsNext]_elementVars => GraphOk'
<1> SUFFICES ASSUME GraphOk, [ElementsNext]_elementVars, open' = "graph" PROVE GraphOk'
  BY DEF GraphOk
<1>1. CASE UNCHANGED elementVars
  BY <1>1 DEF GraphOk, elementVars
<1>2. CASE ElementsNext
  <2>1. open' = open /\ open = "graph" /\ GraphNext
    BY <1>2 DEF ElementsNext
  <2>2. QED
    BY <2>1, TickKeeps, ClockKeeps, GraphPollKeeps DEF GraphNext
<1>3. QED
  BY <1>1, <1>2

(* What the invariant says of a line is what the window must show. *)
LEMMA LineShows ==
  ASSUME NEW g, GraphShape(g), NEW s, Rising(s), NEW lost \in BOOLEAN, NEW m,
         Known(g.timestamp, s, m), NEW line, LineInv(line, g.timestamp, g.fill, s, m, lost)
  PROVE  LineConsistent(line, g, s, lost)
<1>1. PICK w \in Nat : w = Window
  BY GraphAssumption
<1>2. PICK time \in Nat : time = g.timestamp
  BY DEF GraphShape
<1>3. PICK fill \in 1 .. w : fill = g.fill
  BY <1>1 DEF GraphShape
<1>4. PICK n \in 0 .. w :
       /\ \A j \in 1 .. w - n : line[j] = 0
       /\ \A j \in w - n + 1 .. w : line[j] > 0 /\ line[j] <= time
       /\ \A j, k \in w - n + 1 .. w : j < k => line[j] < line[k]
       /\ n <= fill
       /\ ~lost => /\ fill - 1 <= n /\ n <= m
                   /\ \A k \in 1 .. n : line[w - n + k] = s[m - n + k]
  BY <1>1, <1>2, <1>3 DEF LineInv
<1>5. PICK S \in Nat : S = Len(s)
  BY DEF Rising
<1>6. line \in [1 .. w -> Nat]
  BY <1>1 DEF LineInv
<1>7. Len(line) = w
  BY <1>6
<1>8. \A j \in 1 .. w : (line[j] > 0) = (j > w - n)
  <2> SUFFICES ASSUME NEW j \in 1 .. w PROVE (line[j] > 0) = (j > w - n)
    OBVIOUS
  <2>1. j \in 1 .. w - n \/ j \in w - n + 1 .. w
    BY <1>4
  <2>2. CASE j \in 1 .. w - n
    BY <1>4, <2>2
  <2>3. CASE j \in w - n + 1 .. w
    BY <1>4, <2>3
  <2>4. QED
    BY <2>1, <2>2, <2>3
<1>9. \A j \in 1 .. w : \A k \in j + 1 .. w : j > w - n => line[j] < line[k]
  <2> SUFFICES ASSUME NEW j \in 1 .. w, NEW k \in j + 1 .. w, j > w - n PROVE line[j] < line[k]
    OBVIOUS
  <2>1. j \in w - n + 1 .. w /\ k \in w - n + 1 .. w /\ j < k
    OBVIOUS
  <2>2. QED
    BY <1>4, <2>1
<1>10. m \in 0 .. S /\ time = IF m = 0 THEN 0 ELSE s[m]
  BY <1>2, <1>5 DEF Known
<1>11. \A k \in 1 .. S : (s[k] <= time) = (k <= m)
  <2> SUFFICES ASSUME NEW k \in 1 .. S PROVE (s[k] <= time) = (k <= m)
    OBVIOUS
  <2>1. s[k] \in Nat /\ s[k] > 0 /\ \A i, j \in 1 .. S : i < j => s[i] < s[j]
    BY <1>5 DEF Rising
  <2>2. CASE m = 0
    BY <1>10, <2>1, <2>2
  <2>3. CASE m \in 1 .. S
    <3>1. k < m => s[k] < s[m]
      BY <2>1, <2>3
    <3>2. m < k => s[m] < s[k]
      BY <2>1, <2>3
    <3>3. time = s[m]
      BY <1>10, <2>3
    <3>4. k < m \/ k = m \/ m < k
      BY <2>3
    <3>5. QED
      BY <2>1, <2>3, <3>1, <3>2, <3>3, <3>4
  <2>4. QED
    BY <1>10, <2>2, <2>3
<1>12. ~lost => /\ fill - 1 <= n /\ n <= m
               /\ \A k \in 1 .. n : line[w - n + k] = s[m - n + k]
  BY <1>4
<1>13. n <= fill /\ fill <= w /\ n \in 0 .. w /\ m \in 0 .. S
  BY <1>4, <1>10
<1>14. Len(line) = Window /\ g.fill <= Window /\ n \in 0 .. Window /\ m \in 0 .. Len(s)
  BY <1>1, <1>3, <1>5, <1>7, <1>13
<1>15. \A j \in 1 .. Window : (line[j] > 0) = (j > Window - n)
  BY <1>1, <1>8
<1>16. \A j \in 1 .. Window : \A k \in j + 1 .. Window : j > Window - n => line[j] < line[k]
  BY <1>1, <1>9
<1>17. \A k \in 1 .. Len(s) : (s[k] <= g.timestamp) = (k <= m)
  BY <1>2, <1>5, <1>11
<1>18. n <= g.fill /\ (~lost => g.fill - 1 <= n /\ n <= m)
  BY <1>3, <1>12, <1>13
<1>19. ~lost => \A k \in 1 .. n : line[Window - n + k] = s[m - n + k]
  BY <1>1, <1>12
<1>20. QED
  BY <1>14, <1>15, <1>16, <1>17, <1>18, <1>19 DEF LineConsistent

LEMMA GraphShows == GraphOk => WindowIsLatest
<1> SUFFICES ASSUME GraphOk, open = "graph" PROVE WindowConsistent(graph.g, taken, missed)
  BY DEF WindowIsLatest
<1>1. Rising(taken) /\ GraphInv(graph.g, taken, missed) /\ missed \in BOOLEAN
  BY DEF GraphOk
<1>2. GraphShape(graph.g)
  BY <1>1 DEF GraphInv
<1>3. PICK m : Known(graph.g.timestamp, taken, m) /\ \A i \in DOMAIN graph.g.values :
        LineInv(graph.g.values[i], graph.g.timestamp, graph.g.fill, taken, m, missed)
  BY <1>1 DEF GraphInv
<1>4. QED
  BY <1>1, <1>2, <1>3, LineShows DEF WindowConsistent

(* The window of a realtime graph (pollData of the status pages) shows, for  *)
(* every size of the ring and the window, the latest samples the collector   *)
(* stored up to the one the page knows, in order and each once, whatever     *)
(* polls fail, come late or return old samples again.                        *)
THEOREM WindowIsAlwaysLatest == ElementsSpec => []WindowIsLatest
<1>1. ElementsInit => GraphOk
  BY GraphStarts
<1>2. GraphOk /\ [ElementsNext]_elementVars => GraphOk'
  BY GraphKept
<1>3. GraphOk => WindowIsLatest
  BY GraphShows
<1>4. QED
  BY <1>1, <1>2, <1>3, PTL DEF ElementsSpec

-----------------------------------------------------------------------------
(* The table of VLANs. A cell of the table is one of five: f says which of   *)
(* the items not member, untagged, tagged and primary are selected, u        *)
(* whether primary may be selected.                                          *)
Picks == [1 .. 4 -> BOOLEAN]

After1(f) == IF f[1] THEN <<"-">> ELSE <<>>
After2(f) == IF f[2] THEN Append(After1(f), "u") ELSE After1(f)
After3(f) == IF f[3] THEN Append(After2(f), "t") ELSE After2(f)
Text(f) == IF f[4] THEN Append(After3(f), "*") ELSE After3(f)

CellItem(i, sel, un) == [v |-> States[i], sel |-> sel, un |-> un, made |-> "choice"]
CellItems(f, u) == [i \in 1 .. 4 |-> CellItem(i, f[i], i = 4 /\ u)]
BoxOf(m, o, c, e, items, hidden) ==
  [multiple |-> m, optional |-> o, create |-> c, open |-> e, items |-> items, hidden |-> hidden]
CellOf(f, u) == BoxOf(TRUE, FALSE, FALSE, FALSE, CellItems(f, u), Text(f))

(* One of the first three, and primary only for a member *)
Proper(f) ==
  /\ f[1] \/ f[2] \/ f[3]
  /\ ~(f[1] /\ f[2]) /\ ~(f[1] /\ f[3]) /\ ~(f[2] /\ f[3]) /\ ~(f[1] /\ f[4])
PropCells == {CellOf(f, f[1]) : f \in {g \in Picks : Proper(g)}}
CellValues == {<<"-">>, <<"u">>, <<"t">>, <<"u", "*">>, <<"t", "*">>}
Entries == {Absent, Bare, <<"t">>, <<"u", "*">>, <<"t", "*">>, <<>>}

Primary(value) == Contains(value, "*")
CellsUnique(rows) ==
  \A r, o \in DOMAIN rows : \A p \in AllPorts :
    Primary(getValue(rows[r].cells[p])) /\ Primary(getValue(rows[o].cells[p])) => r = o
SavedUnique(rows) ==
  \A r, o \in DOMAIN rows : \A p \in AllPorts :
    Primary(cfgvalue(rows[r].saved[p])) /\ Primary(cfgvalue(rows[o].saved[p])) => r = o
Untagged(rows) ==
  \A r, o \in DOMAIN rows : \A p \in AllPorts :
    rows[r].saved[p] = rows[o].saved[p] /\ r # o =>
      rows[r].saved[p] = Absent \/ Contains(rows[r].saved[p], "t")

Row == [saved : [AllPorts -> Entries], cells : [AllPorts -> PropCells]]
Table == [checked : BOOLEAN, ports : SUBSET AllPorts, rows : Seq(Row), refused : BOOLEAN, slipped : BOOLEAN]

SavedOk(v) ==
  \A r \in DOMAIN v.rows : \A p \in AllPorts :
    /\ p \notin v.ports => v.rows[r].saved[p] = Absent
    /\ v.rows[r].saved[p] = <<>> => v.slipped /\ ~v.checked

TableOk(v) ==
  /\ v \in Table /\ SavedOk(v)
  /\ ~v.refused => CellsUnique(v.rows) /\ SavedUnique(v.rows)
  /\ v.checked => Untagged(v.rows)

VlanOk == open = "vlan" => TableOk(vlan)

(* What is read of a list of items, and a list without one value, element by *)
(* element                                                                   *)
Whatever(c, i, x) == TRUE
ValueTakes(c, values, it) ==
  IF it.sel /\ it.v # NoValue THEN Append(values, it.v) ELSE values
ValueFold == INSTANCE FoldInduction WITH Op <- ValueTakes, Good <- Whatever
WithoutTakes(c, others, w) == IF w \in c THEN others ELSE Append(others, w)
WithoutFold == INSTANCE FoldInduction WITH Op <- WithoutTakes, Good <- Whatever
OffTakes(c, b, k) == IF b.items[k].v \in c THEN toggleItem(b, k, "off") ELSE b
OffFold == INSTANCE FoldInduction WITH Op <- OffTakes, Good <- Whatever
SetTakes(c, b, k) == toggleItem(b, k, IF b.items[k].v \in Range(c) THEN "on" ELSE "off")
SetFold == INSTANCE FoldInduction WITH Op <- SetTakes, Good <- Whatever

LEMMA BoxItems ==
  ASSUME NEW m, NEW o, NEW c, NEW e, NEW items, NEW hidden, NEW it
  PROVE  [BoxOf(m, o, c, e, items, hidden) EXCEPT !.items = it] = BoxOf(m, o, c, e, it, hidden)
  BY DEF BoxOf

LEMMA ItemSet ==
  ASSUME NEW b, NEW k, NEW on
  PROVE  [b EXCEPT !.items[k].sel = on] = [b EXCEPT !.items = [b.items EXCEPT ![k].sel = on]]
  OBVIOUS

LEMMA BoxHidden ==
  ASSUME NEW m, NEW o, NEW c, NEW e, NEW items, NEW hidden, NEW h
  PROVE  [BoxOf(m, o, c, e, items, hidden) EXCEPT !.hidden = h] = BoxOf(m, o, c, e, items, h)
  BY DEF BoxOf

LEMMA BoxFields ==
  ASSUME NEW m, NEW o, NEW c, NEW e, NEW items, NEW hidden, NEW b, b = BoxOf(m, o, c, e, items, hidden)
  PROVE  b.multiple = m /\ b.optional = o /\ b.create = c /\ b.open = e /\ b.items = items /\ b.hidden = hidden
  BY DEF BoxOf

LEMMA BoxSaved ==
  ASSUME NEW m, NEW o, NEW c, NEW e, NEW items, NEW hidden, NEW it
  PROVE  saveValues([BoxOf(m, o, c, e, items, hidden) EXCEPT !.items = it]) = BoxOf(m, o, c, e, it, Values(it))
<1>1. PICK b : b = BoxOf(m, o, c, e, it, hidden)
  OBVIOUS
<1>2. b.items = it
  BY <1>1, BoxFields
<1>3. saveValues(b) = BoxOf(m, o, c, e, it, Values(it))
  BY <1>1, <1>2, BoxHidden DEF saveValues
<1>4. QED
  BY <1>1, <1>3, BoxItems

LEMMA StatesAre ==
  /\ States[1] = "-" /\ States[2] = "u" /\ States[3] = "t" /\ States[4] = "*"
  /\ DOMAIN States = 1 .. 4 /\ Len(States) = 4
  /\ \A i \in 1 .. 4 : States[i] # NoValue
<1>1. /\ States[1] = "-" /\ States[2] = "u" /\ States[3] = "t" /\ States[4] = "*"
      /\ DOMAIN States = 1 .. 4 /\ Len(States) = 4
  BY DEF States
<1>2. \A i \in 1 .. 4 : i = 1 \/ i = 2 \/ i = 3 \/ i = 4
  OBVIOUS
<1>3. QED
  BY <1>1, <1>2 DEF NoValue

LEMMA ItemIs ==
  ASSUME NEW f \in Picks, NEW u \in BOOLEAN
  PROVE  /\ DOMAIN CellItems(f, u) = 1 .. 4
         /\ \A i \in 1 .. 4 : /\ CellItems(f, u)[i] = CellItem(i, f[i], i = 4 /\ u)
                              /\ CellItems(f, u)[i].v = States[i]
                              /\ CellItems(f, u)[i].sel = f[i]
                              /\ CellItems(f, u)[i].un = (i = 4 /\ u)
  BY DEF CellItems, CellItem

LEMMA TextIs ==
  ASSUME NEW f \in Picks, NEW u \in BOOLEAN
  PROVE  Values(CellItems(f, u)) = Text(f)
<1>1. PICK x : x = [i \in 0 .. 4 |-> IF i = 0 THEN <<>> ELSE IF i = 1 THEN After1(f)
                     ELSE IF i = 2 THEN After2(f) ELSE IF i = 3 THEN After3(f) ELSE Text(f)]
  OBVIOUS
<1>2. x[0] = <<>> /\ x[1] = After1(f) /\ x[2] = After2(f) /\ x[3] = After3(f) /\ x[4] = Text(f)
  BY <1>1
<1>3. PICK items : items = CellItems(f, u)
  OBVIOUS
<1>4. DOMAIN items = 1 .. 4
  BY <1>3, ItemIs
<1>5. /\ items[1].v = "-" /\ items[1].sel = f[1]
      /\ items[2].v = "u" /\ items[2].sel = f[2]
      /\ items[3].v = "t" /\ items[3].sel = f[3]
      /\ items[4].v = "*" /\ items[4].sel = f[4]
  BY <1>3, ItemIs, StatesAre
<1>6. x[1] = ValueTakes(<<>>, x[0], items[1])
  BY <1>2, <1>5 DEF ValueTakes, After1, NoValue
<1>7. x[2] = ValueTakes(<<>>, x[1], items[2])
  BY <1>2, <1>5 DEF ValueTakes, After2, NoValue
<1>8. x[3] = ValueTakes(<<>>, x[2], items[3])
  BY <1>2, <1>5 DEF ValueTakes, After3, NoValue
<1>9. x[4] = ValueTakes(<<>>, x[3], items[4])
  BY <1>2, <1>5 DEF ValueTakes, Text, NoValue
<1>10. ASSUME NEW i \in 1 .. 4 PROVE x[i] = ValueTakes(<<>>, x[i - 1], items[i])
  <2>1. i = 1 \/ i = 2 \/ i = 3 \/ i = 4
    OBVIOUS
  <2>2. 1 - 1 = 0 /\ 2 - 1 = 1 /\ 3 - 1 = 2 /\ 4 - 1 = 3
    OBVIOUS
  <2>3. QED
    BY <1>6, <1>7, <1>8, <1>9, <2>1, <2>2
<1>11. ValueFold!Trace(<<>>, <<>>, items, 4, x)
  BY <1>2, <1>10 DEF ValueFold!Trace
<1>12. ValueFold!Fold(<<>>, <<>>, items) = x[4]
  BY <1>4, <1>11, ValueFold!FoldOf
<1>13. ValueFold!Fold(<<>>, <<>>, items) = Values(items)
  BY DEF ValueFold!Fold, ValueFold!Latest,
    Values, FoldLeft, MapThenFoldSet, Max, ValueTakes
<1>14. QED
  BY <1>2, <1>3, <1>12, <1>13

(* At most one item is selected. *)
Few(f) == \A i, j \in 1 .. 4 : f[i] /\ f[j] => i = j

LEMMA FewIs ==
  ASSUME NEW f \in Picks, NEW s, s = {i \in 1 .. 4 : f[i]}
  PROVE  /\ Few(f) => Cardinality(s) <= 1
         /\ Cardinality(s) <= 1 => Few(f)
<1>2. IsFiniteSet(s)
  <2>1. 1 \in Int /\ 4 \in Int
    OBVIOUS
  <2>2. IsFiniteSet(1 .. 4)
    BY <2>1, FS_Interval
  <2>3. s \subseteq 1 .. 4
    OBVIOUS
  <2>4. QED
    BY <2>2, <2>3, FS_Subset
<1>3. ASSUME Few(f) PROVE Cardinality(s) <= 1
  <2>1. CASE s = {}
    <3>1. Cardinality(s) = 0
      BY <2>1, FS_EmptySet
    <3>2. QED
      BY <3>1
  <2>2. CASE s # {}
    <3>0. PICK i \in s : TRUE
      BY <2>2
    <3>4. \A j \in s : j = i
      BY <1>3, <3>0 DEF Few
    <3>1. s = {i}
      BY <3>0, <3>4
    <3>2. Cardinality(s) = 1
      BY <3>1, FS_Singleton
    <3>3. QED
      BY <3>2
  <2>3. QED
    BY <2>1, <2>2
<1>4. ASSUME ~Few(f) PROVE ~(Cardinality(s) <= 1)
  <2>1. PICK i \in s, j \in s : i # j
    BY <1>4 DEF Few
  <2>2. Cardinality(s \ {i}) = Cardinality(s) - 1 /\ IsFiniteSet(s \ {i})
    BY <1>2, <2>1, FS_RemoveElement
  <2>3. Cardinality((s \ {i}) \ {j}) = Cardinality(s \ {i}) - 1 /\ IsFiniteSet((s \ {i}) \ {j})
    BY <2>1, <2>2, FS_RemoveElement
  <2>4. Cardinality(s) \in Nat /\ Cardinality((s \ {i}) \ {j}) \in Nat
    BY <1>2, <2>3, FS_CardinalityType
  <2>5. QED
    BY <2>2, <2>3, <2>4
<1>5. QED
  BY <1>3, <1>4

(* An item is switched. *)
Flipped(f, k, force) == IF f[k] THEN force = "on" \/ Few(f) ELSE force # "off"
Toggled(f, u, k, force) == IF k = 4 /\ u THEN f ELSE [f EXCEPT ![k] = Flipped(f, k, force)]

LEMMA ToggleIs ==
  ASSUME NEW f \in Picks, NEW u \in BOOLEAN, NEW k \in 1 .. 4, NEW force
  PROVE  /\ toggleItem(CellOf(f, u), k, force) = CellOf(Toggled(f, u, k, force), u)
         /\ Toggled(f, u, k, force) \in Picks
<1>1. PICK b : b = CellOf(f, u)
  OBVIOUS
<1>2. PICK g \in Picks : g = Toggled(f, u, k, force)
  BY DEF Toggled, Flipped, Picks, Few
<1>3. b.items = CellItems(f, u) /\ b.hidden = Text(f) /\ b.multiple /\ ~b.optional
  BY <1>1 DEF CellOf, BoxOf
<1>4. b.items[k].un = (k = 4 /\ u) /\ b.items[k].sel = f[k]
  BY <1>3, ItemIs
<1>5. CASE k = 4 /\ u
  <2>1. toggleItem(b, k, force) = b /\ g = f
    BY <1>2, <1>4, <1>5 DEF toggleItem, Toggled
  <2>2. QED
    BY <1>1, <1>2, <2>1
<1>6. CASE ~(k = 4 /\ u)
  <2>1. PICK s : s = {i \in 1 .. 4 : f[i]}
    OBVIOUS
  <2>2. SelectedItems(b) = s
    BY <1>3, <2>1, ItemIs DEF SelectedItems
  <2>3. PICK on \in BOOLEAN : on = (IF f[k] THEN force = "on" \/ Few(f) ELSE force # "off")
    BY DEF Few
  <2>4. (~b.optional /\ Cardinality(SelectedItems(b)) <= 1) <=> Few(f)
    BY <1>3, <2>1, <2>2, FewIs
  <2>5. (IF b.items[k].sel THEN force = "on" \/ (~b.optional /\ Cardinality(SelectedItems(b)) <= 1)
         ELSE force # "off") = on
    BY <1>4, <2>3, <2>4
  <2>6. toggleItem(b, k, force) = saveValues([b EXCEPT !.items[k].sel = on])
    BY <1>3, <1>4, <1>6, <2>5 DEF toggleItem
  <2>7. g = [f EXCEPT ![k] = on]
    BY <1>2, <1>6, <2>3 DEF Toggled, Flipped
  <2>8. PICK items : items = [CellItems(f, u) EXCEPT ![k].sel = on]
    OBVIOUS
  <2>9. items = CellItems(g, u)
    <3>1. items = [i \in 1 .. 4 |-> IF i = k THEN [CellItem(i, f[i], i = 4 /\ u) EXCEPT !.sel = on]
                                    ELSE CellItem(i, f[i], i = 4 /\ u)]
      BY <2>8 DEF CellItems
    <3>2. ASSUME NEW i \in 1 .. 4
          PROVE  (IF i = k THEN [CellItem(i, f[i], i = 4 /\ u) EXCEPT !.sel = on]
                  ELSE CellItem(i, f[i], i = 4 /\ u)) = CellItem(i, g[i], i = 4 /\ u)
      <4>1. CASE i = k
        BY <2>7, <4>1 DEF CellItem, Picks
      <4>2. CASE i # k
        BY <2>7, <4>2 DEF Picks
      <4>3. QED
        BY <4>1, <4>2
    <3>3. QED
      BY <3>1, <3>2 DEF CellItems
  <2>10. [b EXCEPT !.items[k].sel = on] = [b EXCEPT !.items = items]
    <3>1. items = [b.items EXCEPT ![k].sel = on]
      BY <1>3, <2>8
    <3>2. [b EXCEPT !.items[k].sel = on] = [b EXCEPT !.items = [b.items EXCEPT ![k].sel = on]]
      BY ItemSet, Zenon
    <3>3. QED
      BY <3>1, <3>2, Zenon
  <2>11. saveValues([b EXCEPT !.items = items]) = BoxOf(TRUE, FALSE, FALSE, FALSE, items, Values(items))
    <3>1. PICK yes, no : yes = TRUE /\ no = FALSE
      OBVIOUS
    <3>2. b = BoxOf(yes, no, no, no, CellItems(f, u), Text(f))
      BY <1>1, <3>1 DEF CellOf
    <3>3. saveValues([b EXCEPT !.items = items]) = BoxOf(yes, no, no, no, items, Values(items))
      BY <3>2, BoxSaved
    <3>4. QED
      BY <3>1, <3>3
  <2>12. Values(items) = Text(g)
    BY <2>9, TextIs
  <2>13. BoxOf(TRUE, FALSE, FALSE, FALSE, items, Text(g)) = CellOf(g, u)
    BY <2>9 DEF CellOf
  <2>14. QED
    BY <1>1, <1>2, <2>6, <2>10, <2>11, <2>12, <2>13
<1>7. QED
  BY <1>5, <1>6

(* Some items are switched off. *)
OffOne(f, u, vs, k) == IF States[k] \in vs THEN Toggled(f, u, k, "off") ELSE f

LEMMA OffStep ==
  ASSUME NEW f \in Picks, NEW u \in BOOLEAN, NEW k \in 1 .. 4, NEW vs
  PROVE  /\ OffTakes(vs, CellOf(f, u), k) = CellOf(OffOne(f, u, vs, k), u)
         /\ OffOne(f, u, vs, k) \in Picks
<1>1. CellOf(f, u).items[k].v = States[k]
  <2>1. CellOf(f, u).items = CellItems(f, u)
    BY DEF CellOf, BoxOf
  <2>2. QED
    BY <2>1, ItemIs
<1>2. CASE States[k] \in vs
  BY <1>1, <1>2, ToggleIs DEF OffTakes, OffOne
<1>3. CASE States[k] \notin vs
  BY <1>1, <1>3 DEF OffTakes, OffOne
<1>4. QED
  BY <1>2, <1>3

OffSteps(f0, u, vs, f1, f2, f3, f4) ==
  /\ f0 \in Picks /\ u \in BOOLEAN
  /\ f1 = OffOne(f0, u, vs, 1) /\ f2 = OffOne(f1, u, vs, 2)
  /\ f3 = OffOne(f2, u, vs, 3) /\ f4 = OffOne(f3, u, vs, 4)

LEMMA OffIs ==
  ASSUME NEW f0, NEW u, NEW vs, NEW f1, NEW f2, NEW f3, NEW f4, OffSteps(f0, u, vs, f1, f2, f3, f4)
  PROVE  Off(CellOf(f0, u), vs) = CellOf(f4, u) /\ f4 \in Picks
<1>0. /\ f0 \in Picks /\ u \in BOOLEAN
      /\ f1 = OffOne(f0, u, vs, 1) /\ f2 = OffOne(f1, u, vs, 2)
      /\ f3 = OffOne(f2, u, vs, 3) /\ f4 = OffOne(f3, u, vs, 4)
  BY DEF OffSteps
<1>1. 1 \in 1 .. 4 /\ 2 \in 1 .. 4 /\ 3 \in 1 .. 4 /\ 4 \in 1 .. 4
  OBVIOUS
<1>2. CellOf(f1, u) = OffTakes(vs, CellOf(f0, u), 1) /\ f1 \in Picks
  BY <1>0, <1>1, OffStep
<1>3. CellOf(f2, u) = OffTakes(vs, CellOf(f1, u), 2) /\ f2 \in Picks
  BY <1>0, <1>1, <1>2, OffStep
<1>4. CellOf(f3, u) = OffTakes(vs, CellOf(f2, u), 3) /\ f3 \in Picks
  BY <1>0, <1>1, <1>3, OffStep
<1>5. CellOf(f4, u) = OffTakes(vs, CellOf(f3, u), 4) /\ f4 \in Picks
  BY <1>0, <1>1, <1>4, OffStep
<1>6. PICK x : x = [i \in 0 .. 4 |-> IF i = 0 THEN CellOf(f0, u) ELSE IF i = 1 THEN CellOf(f1, u)
                 ELSE IF i = 2 THEN CellOf(f2, u) ELSE IF i = 3 THEN CellOf(f3, u) ELSE CellOf(f4, u)]
  OBVIOUS
<1>7. /\ x[0] = CellOf(f0, u) /\ x[1] = CellOf(f1, u) /\ x[2] = CellOf(f2, u)
      /\ x[3] = CellOf(f3, u) /\ x[4] = CellOf(f4, u)
  BY <1>6
<1>8. PICK seq : seq = <<1, 2, 3, 4>>
  OBVIOUS
<1>9. DOMAIN seq = 1 .. 4 /\ seq[1] = 1 /\ seq[2] = 2 /\ seq[3] = 3 /\ seq[4] = 4
  BY <1>8
<1>10. ASSUME NEW i \in 1 .. 4 PROVE x[i] = OffTakes(vs, x[i - 1], seq[i])
  <2>1. i = 1 \/ i = 2 \/ i = 3 \/ i = 4
    OBVIOUS
  <2>2. 1 - 1 = 0 /\ 2 - 1 = 1 /\ 3 - 1 = 2 /\ 4 - 1 = 3
    OBVIOUS
  <2>3. QED
    BY <1>2, <1>3, <1>4, <1>5, <1>7, <1>9, <2>1, <2>2
<1>11. OffFold!Trace(vs, CellOf(f0, u), seq, 4, x)
  BY <1>7, <1>10 DEF OffFold!Trace
<1>12. OffFold!Fold(vs, CellOf(f0, u), seq) = x[4]
  <2>1. PICK base : base = CellOf(f0, u)
    OBVIOUS
  <2>2. OffFold!Trace(vs, base, seq, 4, x) /\ 4 \in Nat /\ DOMAIN seq = 1 .. 4
    BY <1>9, <1>11, <2>1
  <2>3. OffFold!Fold(vs, base, seq) = x[4]
    BY <2>2, OffFold!FoldOf
  <2>4. QED
    BY <2>1, <2>3
<1>13. OffFold!Fold(vs, CellOf(f0, u), <<1, 2, 3, 4>>) = Off(CellOf(f0, u), vs)
  BY DEF OffFold!Fold, OffFold!Latest,
    Off, FoldLeft, MapThenFoldSet, Max, OffTakes
<1>14. QED
  BY <1>5, <1>7, <1>8, <1>12, <1>13

LEMMA MarkIs ==
  ASSUME NEW f \in Picks, NEW u \in BOOLEAN, NEW w \in BOOLEAN
  PROVE  Mark(CellOf(f, u), "*", w) = CellOf(f, w)
<1>1. PICK yes, no : yes = TRUE /\ no = FALSE
  OBVIOUS
<1>2. PICK b : b = CellOf(f, u)
  OBVIOUS
<1>3. b = BoxOf(yes, no, no, no, CellItems(f, u), Text(f))
  BY <1>1, <1>2 DEF CellOf
<1>4. b.items = CellItems(f, u)
  BY <1>3, BoxFields
<1>5. [i \in DOMAIN b.items |-> IF b.items[i].v = "*" THEN [b.items[i] EXCEPT !.un = w] ELSE b.items[i]]
        = CellItems(f, w)
  <2>1. ASSUME NEW i \in 1 .. 4
        PROVE  (IF b.items[i].v = "*" THEN [b.items[i] EXCEPT !.un = w] ELSE b.items[i])
                 = CellItem(i, f[i], i = 4 /\ w)
    <3>1. b.items[i] = CellItem(i, f[i], i = 4 /\ u) /\ b.items[i].v = States[i]
      BY <1>4, ItemIs
    <3>2. CASE i = 4
      BY <3>1, <3>2, StatesAre DEF CellItem
    <3>3. CASE i # 4
      <4>1. i = 1 \/ i = 2 \/ i = 3
        BY <3>3
      <4>2. States[i] # "*"
        BY <4>1, StatesAre
      <4>3. QED
        BY <3>1, <3>3, <4>2
    <3>4. QED
      BY <3>2, <3>3
  <2>2. DOMAIN b.items = 1 .. 4
    BY <1>4, ItemIs
  <2>3. QED
    BY <2>1, <2>2 DEF CellItems
<1>6. Mark(b, "*", w) = [b EXCEPT !.items = CellItems(f, w)]
  BY <1>5 DEF Mark
<1>7. Mark(b, "*", w) = BoxOf(yes, no, no, no, CellItems(f, w), Text(f))
  BY <1>3, <1>6, BoxItems
<1>8. QED
  BY <1>1, <1>2, <1>7 DEF CellOf

Cleared(f, k) == [i \in 1 .. 4 |-> f[i] /\ i # k]
Picked(f, k) == [i \in 1 .. 4 |-> f[i] \/ i = k]

LEMMA PickedIs ==
  ASSUME NEW f \in Picks, NEW k \in 1 .. 4
  PROVE  /\ Cleared(f, k) \in Picks /\ Picked(f, k) \in Picks
         /\ ~Cleared(f, k)[k] /\ Picked(f, k)[k]
         /\ \A i \in 1 .. 4 : i # k => Cleared(f, k)[i] = f[i] /\ Picked(f, k)[i] = f[i]
  BY DEF Cleared, Picked, Picks

LEMMA ToggledIs ==
  ASSUME NEW f \in Picks, NEW u \in BOOLEAN, NEW k \in 1 .. 4, NEW force
  PROVE  /\ k = 4 /\ u => Toggled(f, u, k, force) = f
         /\ ~(k = 4 /\ u) /\ Flipped(f, k, force) => Toggled(f, u, k, force) = Picked(f, k)
         /\ ~(k = 4 /\ u) /\ ~Flipped(f, k, force) => Toggled(f, u, k, force) = Cleared(f, k)
<1>1. k = 4 /\ u => Toggled(f, u, k, force) = f
  BY DEF Toggled
<1>2. PICK on \in BOOLEAN : on = Flipped(f, k, force)
  BY DEF Flipped, Few, Picks
<1>3. ASSUME ~(k = 4 /\ u) PROVE Toggled(f, u, k, force) = [i \in 1 .. 4 |-> IF i = k THEN on ELSE f[i]]
  BY <1>2, <1>3 DEF Toggled, Picks
<1>4. ASSUME on PROVE [i \in 1 .. 4 |-> IF i = k THEN on ELSE f[i]] = Picked(f, k)
  <2>1. \A i \in 1 .. 4 : (IF i = k THEN on ELSE f[i]) = (f[i] \/ i = k)
    BY <1>4 DEF Picks
  <2>2. QED
    BY <2>1 DEF Picked
<1>5. ASSUME ~on PROVE [i \in 1 .. 4 |-> IF i = k THEN on ELSE f[i]] = Cleared(f, k)
  <2>1. \A i \in 1 .. 4 : (IF i = k THEN on ELSE f[i]) = (f[i] /\ i # k)
    BY <1>5 DEF Picks
  <2>2. QED
    BY <2>1 DEF Cleared
<1>6. QED
  BY <1>1, <1>2, <1>3, <1>4, <1>5

LEMMA OffGone ==
  ASSUME NEW f \in Picks, NEW u \in BOOLEAN, NEW vs, NEW k \in 1 .. 4, NEW j \in 1 .. 4, j # k, f[j],
         States[k] \in vs, ~(k = 4 /\ u)
  PROVE  OffOne(f, u, vs, k) = Cleared(f, k)
<1>1. ~f[k] \/ ~Few(f)
  BY DEF Few
<1>2. ~Flipped(f, k, "off")
  BY <1>1 DEF Flipped
<1>3. QED
  BY <1>2, ToggledIs DEF OffOne

LEMMA OffSame ==
  ASSUME NEW f \in Picks, NEW u \in BOOLEAN, NEW vs, NEW k \in 1 .. 4,
         States[k] \notin vs \/ (k = 4 /\ u)
  PROVE  OffOne(f, u, vs, k) = f
  BY DEF OffOne, Toggled

(* A click on one item of a cell *)
LEMMA ClickIs ==
  ASSUME NEW f \in Picks, Proper(f), NEW k \in 1 .. 4
  PROVE  \E h \in Picks : /\ Proper(h) /\ (k # 4 /\ h[4] => f[4])
                          /\ toggleState(CellOf(f, f[1]), k) = CellOf(h, h[1])
<1>1. PICK u \in BOOLEAN : u = f[1]
  BY DEF Picks
<1>2. PICK g \in Picks : g = Toggled(f, u, k, "flip")
  BY ToggleIs
<1>3. PICK b : b = CellOf(g, u) /\ b = toggleItem(CellOf(f, u), k, "flip")
  BY <1>2, ToggleIs
<1>4. b.items[k].sel = g[k] /\ b.items[k].v = States[k]
  <2>1. b.items = CellItems(g, u)
    BY <1>3 DEF CellOf, BoxOf
  <2>2. QED
    BY <2>1, ItemIs
<1>5. PICK c : c = toggleState(CellOf(f, u), k)
  OBVIOUS
<1>6. \A i \in 1 .. 4 : f[i] \in BOOLEAN /\ g[i] \in BOOLEAN
  BY DEF Picks
<1>7. CASE k = 1
  <2>1. g[1] /\ g[2] = f[2] /\ g[3] = f[3] /\ g[4] = f[4]
    <3>1. f[1] => Few(f)
      <4>1. f[1] => ~f[2] /\ ~f[3] /\ ~f[4]
        BY DEF Proper
      <4>2. \A i \in 1 .. 4 : i = 1 \/ i = 2 \/ i = 3 \/ i = 4
        OBVIOUS
      <4>3. QED
        BY <4>1, <4>2 DEF Few
    <3>2. g = Picked(f, 1)
      <4>1. Flipped(f, 1, "flip")
        BY <3>1 DEF Flipped
      <4>2. QED
        BY <1>2, <1>7, <4>1, ToggledIs
    <3>3. QED
      BY <3>2, PickedIs
  <2>2. c = Mark(Off(b, {"u", "t", "*"}), "*", TRUE)
    BY <1>3, <1>4, <1>5, <1>7, <2>1, StatesAre DEF toggleState
  <2>3. PICK f2 \in Picks : f2 = Cleared(g, 2)
    BY PickedIs
  <2>4. PICK f3 \in Picks : f3 = Cleared(f2, 3)
    BY PickedIs
  <2>5. PICK f4 \in Picks : f4 = IF u THEN f3 ELSE Cleared(f3, 4)
    BY PickedIs
  <2>6. f2[1] /\ f3[1] /\ f4[1] /\ ~f4[2] /\ ~f4[3] /\ ~f4[4]
    <3>1. f2[1] /\ ~f2[2] /\ f2[4] = f[4]
      BY <2>1, <2>3, PickedIs
    <3>2. f3[1] /\ ~f3[2] /\ ~f3[3] /\ f3[4] = f[4]
      BY <2>4, <3>1, PickedIs
    <3>3. u => ~f[4]
      BY <1>1 DEF Proper
    <3>5. ~u => f4 = Cleared(f3, 4)
      BY <2>5
    <3>6. u => f4 = f3
      BY <2>5
    <3>4. QED
      BY <3>1, <3>2, <3>3, <3>5, <3>6, PickedIs
  <2>7. PICK vs : vs = {"u", "t", "*"}
    OBVIOUS
  <2>8. g = OffOne(g, u, vs, 1)
    BY <2>7, OffSame, StatesAre
  <2>9. f2 = OffOne(g, u, vs, 2)
    <3>1. 1 \in 1 .. 4 /\ 2 \in 1 .. 4 /\ 1 # 2 /\ States[2] \in vs /\ g[1] /\ ~(2 = 4 /\ u)
      BY <2>1, <2>7, StatesAre
    <3>2. OffOne(g, u, vs, 2) = Cleared(g, 2)
      BY <3>1, OffGone
    <3>3. QED
      BY <2>3, <3>2
  <2>10. f3 = OffOne(f2, u, vs, 3)
    <3>1. 1 \in 1 .. 4 /\ 3 \in 1 .. 4 /\ 1 # 3 /\ States[3] \in vs /\ f2[1] /\ ~(3 = 4 /\ u)
      BY <2>6, <2>7, StatesAre
    <3>2. OffOne(f2, u, vs, 3) = Cleared(f2, 3)
      BY <3>1, OffGone
    <3>3. QED
      BY <2>4, <3>2
  <2>11. f4 = OffOne(f3, u, vs, 4)
    <3>1. CASE u
      <4>1. 4 \in 1 .. 4 /\ (States[4] \notin vs \/ (4 = 4 /\ u))
        BY <3>1
      <4>2. OffOne(f3, u, vs, 4) = f3
        BY <4>1, OffSame
      <4>3. QED
        BY <2>5, <3>1, <4>2
    <3>2. CASE ~u
      <4>1. 1 \in 1 .. 4 /\ 4 \in 1 .. 4 /\ 1 # 4 /\ States[4] \in vs /\ f3[1] /\ ~(4 = 4 /\ u)
        BY <2>6, <2>7, <3>2, StatesAre
      <4>2. OffOne(f3, u, vs, 4) = Cleared(f3, 4)
        BY <4>1, OffGone
      <4>3. QED
        BY <2>5, <3>2, <4>2
    <3>3. QED
      BY <3>1, <3>2
  <2>12. Off(b, vs) = CellOf(f4, u)
    <3>1. OffSteps(g, u, vs, g, f2, f3, f4)
      BY <2>8, <2>9, <2>10, <2>11 DEF OffSteps
    <3>2. Off(CellOf(g, u), vs) = CellOf(f4, u)
      BY <3>1, OffIs
    <3>3. QED
      BY <1>3, <3>2
  <2>13. c = CellOf(f4, TRUE)
    BY <2>2, <2>7, <2>12, MarkIs
  <2>14. Proper(f4)
    BY <2>6 DEF Proper
  <2>15. c = CellOf(f4, f4[1])
    BY <2>6, <2>13 DEF Picks
  <2>16. QED
    BY <1>1, <1>5, <1>7, <2>6, <2>14, <2>15
<1>8. CASE k = 4
  <2>1. c = b
    BY <1>3, <1>4, <1>5, <1>6, <1>8, StatesAre DEF toggleState
  <2>2. g[1] = f[1] /\ g[2] = f[2] /\ g[3] = f[3]
    BY <1>2, <1>8 DEF Toggled, Picks
  <2>3. g[4] => ~f[1]
    BY <1>1, <1>2, <1>8 DEF Toggled, Picks, Proper
  <2>4. Proper(g)
    BY <2>2, <2>3 DEF Proper
  <2>5. QED
    BY <1>1, <1>3, <1>5, <1>8, <2>1, <2>2, <2>4
<1>9. CASE k \in {2, 3}
  <2>1. PICK o \in {2, 3} : o # k
    BY <1>9
  <2>2. States[k] \in {"u", "t"} /\ States[o] \in {"u", "t"} /\ States[o] # States[k]
    BY <1>9, <2>1, StatesAre
  <2>3. g[1] = f[1] /\ g[o] = f[o] /\ g[4] = f[4] /\ o \in 1 .. 4
    BY <1>2, <1>9, <2>1 DEF Toggled, Picks
  <2>4. CASE ~g[k]
    <3>1. f[k] /\ ~f[1] /\ ~f[o]
      <4>1. f[k]
        <5>1. CASE ~f[k]
          <6>1. Flipped(f, k, "flip")
            BY <5>1 DEF Flipped
          <6>2. g[k]
            BY <1>2, <1>9, <6>1, ToggledIs, PickedIs
          <6>3. QED
            BY <2>4, <6>2
        <5>2. QED
          BY <5>1
      <4>2. QED
        BY <1>9, <2>1, <4>1 DEF Proper
    <3>2. c = toggleItem(b, k, "on")
      BY <1>3, <1>4, <1>5, <2>2, <2>4 DEF toggleState
    <3>3. PICK h \in Picks : h = Toggled(g, u, k, "on")
      BY ToggleIs
    <3>4. c = CellOf(h, u)
      <4>1. toggleItem(CellOf(g, u), k, "on") = CellOf(h, u)
        BY <3>3, ToggleIs
      <4>2. QED
        BY <1>3, <3>2, <4>1
    <3>5. h[k] /\ h[1] = f[1] /\ h[o] = f[o] /\ h[4] = f[4]
      <4>1. Flipped(g, k, "on")
        BY <2>4 DEF Flipped
      <4>2. h = Picked(g, k)
        BY <1>9, <3>3, <4>1, ToggledIs
      <4>3. QED
        BY <1>9, <2>1, <2>3, <4>2, PickedIs
    <3>6. Proper(h)
      BY <1>9, <2>1, <3>1, <3>5 DEF Proper
    <3>7. QED
      BY <1>1, <1>5, <3>4, <3>5, <3>6
  <2>5. CASE g[k]
    <3>1. PICK vs : vs = {"-", "u", "t"} \ {States[k]}
      OBVIOUS
    <3>2. c = Mark(Off(b, vs), "*", FALSE)
      BY <1>3, <1>4, <1>5, <2>2, <2>5, <3>1 DEF toggleState
    <3>3. PICK f1 \in Picks : f1 = Cleared(g, 1)
      BY PickedIs
    <3>4. PICK f2 \in Picks : f2 = IF k = 2 THEN f1 ELSE Cleared(f1, 2)
      BY PickedIs
    <3>5. PICK f3 \in Picks : f3 = IF k = 3 THEN f2 ELSE Cleared(f2, 3)
      BY PickedIs
    <3>6. f1[k] /\ f2[k] /\ f3[k] /\ ~f3[1] /\ ~f3[o] /\ f3[4] = f[4]
      <4>1. f1[k] /\ ~f1[1] /\ f1[4] = f[4]
        BY <1>9, <2>3, <2>5, <3>3, PickedIs
      <4>2. CASE k = 2 /\ o = 3
        <5>1. f2 = f1 /\ f3 = Cleared(f1, 3)
          BY <3>4, <3>5, <4>2
        <5>2. QED
          BY <4>1, <4>2, <5>1, PickedIs
      <4>3. CASE k = 3 /\ o = 2
        <5>1. f2 = Cleared(f1, 2) /\ f3 = f2
          BY <3>4, <3>5, <4>3
        <5>2. QED
          BY <4>1, <4>3, <5>1, PickedIs
      <4>4. QED
        BY <1>9, <2>1, <4>2, <4>3
    <3>7. f1 = OffOne(g, u, vs, 1)
      <4>1. 1 \in 1 .. 4 /\ k \in 1 .. 4 /\ k # 1 /\ States[1] \in vs /\ g[k] /\ ~(1 = 4 /\ u)
        BY <1>9, <2>2, <2>5, <3>1, StatesAre
      <4>2. OffOne(g, u, vs, 1) = Cleared(g, 1)
        BY <4>1, OffGone
      <4>3. QED
        BY <3>3, <4>2
    <3>8. f2 = OffOne(f1, u, vs, 2)
      <4>1. CASE k = 2
        BY <3>1, <3>4, <4>1, OffSame
      <4>2. CASE k = 3
        <5>1. 2 \in 1 .. 4 /\ 3 \in 1 .. 4 /\ 3 # 2 /\ States[2] \in vs /\ f1[3] /\ ~(2 = 4 /\ u)
          BY <3>1, <3>6, <4>2, StatesAre
        <5>2. OffOne(f1, u, vs, 2) = Cleared(f1, 2)
          BY <5>1, OffGone
        <5>3. QED
          BY <3>4, <4>2, <5>2
      <4>3. QED
        BY <1>9, <4>1, <4>2
    <3>9. f3 = OffOne(f2, u, vs, 3)
      <4>1. CASE k = 3
        BY <3>1, <3>5, <4>1, OffSame
      <4>2. CASE k = 2
        <5>1. 2 \in 1 .. 4 /\ 3 \in 1 .. 4 /\ 2 # 3 /\ States[3] \in vs /\ f2[2] /\ ~(3 = 4 /\ u)
          BY <3>1, <3>6, <4>2, StatesAre
        <5>2. OffOne(f2, u, vs, 3) = Cleared(f2, 3)
          BY <5>1, OffGone
        <5>3. QED
          BY <3>5, <4>2, <5>2
      <4>3. QED
        BY <1>9, <4>1, <4>2
    <3>10. f3 = OffOne(f3, u, vs, 4)
      BY <3>1, OffSame, StatesAre
    <3>11. Off(b, vs) = CellOf(f3, u)
      <4>1. OffSteps(g, u, vs, f1, f2, f3, f3)
        BY <3>7, <3>8, <3>9, <3>10 DEF OffSteps
      <4>2. Off(CellOf(g, u), vs) = CellOf(f3, u)
        BY <4>1, OffIs
      <4>3. QED
        BY <1>3, <4>2
    <3>12. c = CellOf(f3, FALSE)
      BY <3>2, <3>11, MarkIs
    <3>13. Proper(f3)
      BY <1>9, <2>1, <3>6 DEF Proper
    <3>14. f3[1] = FALSE
      BY <3>6 DEF Picks
    <3>15. QED
      BY <1>1, <1>5, <3>6, <3>12, <3>13, <3>14
  <2>6. QED
    BY <2>4, <2>5
<1>10. QED
  BY <1>7, <1>8, <1>9

(* What is read of a cell *)
LEMMA AppendOne ==
  ASSUME NEW a PROVE Append(<<>>, a) = <<a>>
  OBVIOUS

LEMMA AppendIs ==
  ASSUME NEW D, NEW s \in Seq(D), NEW b \in D, NEW a, Len(s) = 1, s[1] = a,
         NEW y \in Seq(D), Len(y) = 2, y[1] = a, y[2] = b
  PROVE  Append(s, b) = y
<1>1. PICK x \in Seq(D) : x = Append(s, b)
  BY AppendProperties
<1>2. Len(x) = 2 /\ x[1] = a /\ x[2] = b
  BY <1>1
<1>3. \A i \in 1 .. 2 : x[i] = y[i]
  <2>1. \A i \in 1 .. 2 : i = 1 \/ i = 2
    OBVIOUS
  <2>2. QED
    BY <1>2, <2>1
<1>4. x = y
  BY <1>2, <1>3, SeqEqual
<1>5. QED
  BY <1>1, <1>4

LEMMA AppendTwo ==
  ASSUME NEW a, NEW b PROVE Append(<<a>>, b) = <<a, b>>
<1>1. PICK D : D = {a, b}
  OBVIOUS
<1>2. <<a>> \in Seq(D) /\ b \in D /\ Len(<<a>>) = 1 /\ <<a>>[1] = a
  BY <1>1
<1>3. <<a, b>> \in Seq(D) /\ Len(<<a, b>>) = 2 /\ <<a, b>>[1] = a /\ <<a, b>>[2] = b
  BY <1>1
<1>4. QED
  BY <1>2, <1>3, AppendIs

LEMMA TextOf ==
  ASSUME NEW f \in Picks, Proper(f)
  PROVE  /\ Text(f) \in CellValues
         /\ f[1] => Text(f) = <<"-">>
         /\ f[2] /\ ~f[4] => Text(f) = <<"u">>
         /\ f[2] /\ f[4] => Text(f) = <<"u", "*">>
         /\ f[3] /\ ~f[4] => Text(f) = <<"t">>
         /\ f[3] /\ f[4] => Text(f) = <<"t", "*">>
<1>0. /\ Append(<<>>, "u") = <<"u">> /\ Append(<<>>, "t") = <<"t">>
      /\ Append(<<"u">>, "*") = <<"u", "*">> /\ Append(<<"t">>, "*") = <<"t", "*">>
  BY AppendOne, AppendTwo
<1>1. f[1] => Text(f) = <<"-">>
  BY DEF Proper, Text, After3, After2, After1
<1>2. f[2] => After3(f) = <<"u">>
  BY <1>0 DEF Proper, After3, After2, After1
<1>3. f[3] => After3(f) = <<"t">>
  BY <1>0 DEF Proper, After3, After2, After1
<1>4. Text(f) = IF f[4] THEN Append(After3(f), "*") ELSE After3(f)
  BY DEF Text
<1>5. /\ f[2] /\ ~f[4] => Text(f) = <<"u">>
      /\ f[3] /\ ~f[4] => Text(f) = <<"t">>
  BY <1>2, <1>3, <1>4
<1>6. /\ f[2] /\ f[4] => Text(f) = <<"u", "*">>
      /\ f[3] /\ f[4] => Text(f) = <<"t", "*">>
  BY <1>0, <1>2, <1>3, <1>4
<1>7. QED
  BY <1>1, <1>5, <1>6 DEF Proper, CellValues

LEMMA PrimaryIs ==
  /\ ~Primary(<<"-">>) /\ ~Primary(<<"u">>) /\ ~Primary(<<"t">>) /\ ~Primary(<<>>)
  /\ Primary(<<"u", "*">>) /\ Primary(<<"t", "*">>)
<1>1. ~Primary(<<"-">>) /\ ~Primary(<<"u">>) /\ ~Primary(<<"t">>) /\ ~Primary(<<>>)
  BY DEF Primary, Contains
<1>2. Primary(<<"u", "*">>)
  <2>1. Len(<<"u", "*">>) = 2 /\ <<"u", "*">>[2] = "*" /\ 2 \in 1 .. 2
    OBVIOUS
  <2>2. QED
    BY <2>1 DEF Primary, Contains
<1>3. Primary(<<"t", "*">>)
  <2>1. Len(<<"t", "*">>) = 2 /\ <<"t", "*">>[2] = "*" /\ 2 \in 1 .. 2
    OBVIOUS
  <2>2. QED
    BY <2>1 DEF Primary, Contains
<1>4. QED
  BY <1>1, <1>2, <1>3

LEMMA TextPrimary ==
  ASSUME NEW f \in Picks, Proper(f) PROVE Primary(Text(f)) <=> f[4]
  BY TextOf, PrimaryIs DEF Proper

LEMMA CellReads ==
  ASSUME NEW f \in Picks, NEW u \in BOOLEAN
  PROVE  /\ getValue(CellOf(f, u)) = Text(f) /\ CellOf(f, u).items = CellItems(f, u)
         /\ CellOf(f, u).multiple = TRUE /\ CellOf(f, u).create = FALSE
  BY DEF CellOf, BoxOf, getValue

LEMMA WithoutIs ==
  /\ Without(<<"u", "*">>, {"*"}) = <<"u">>
  /\ Without(<<"t", "*">>, {"*"}) = <<"t">>
<1>1. ASSUME NEW w, w # "*" PROVE Without(<<w, "*">>, {"*"}) = <<w>>
  <2>a. PICK star : star = {"*"}
    OBVIOUS
  <2>b. "*" \in star /\ w \notin star
    BY <1>1, <2>a
  <2>1. PICK seq : seq = <<w, "*">>
    OBVIOUS
  <2>2. DOMAIN seq = 1 .. 2 /\ seq[1] = w /\ seq[2] = "*"
    BY <2>1
  <2>3. PICK x : x = [i \in 0 .. 2 |-> IF i = 0 THEN <<>> ELSE <<w>>]
    OBVIOUS
  <2>4. x[0] = <<>> /\ x[1] = <<w>> /\ x[2] = <<w>>
    BY <2>3
  <2>5. ASSUME NEW i \in 1 .. 2 PROVE x[i] = WithoutTakes(star, x[i - 1], seq[i])
    <3>1. CASE i = 1
      <4>1. Append(<<>>, w) = <<w>> /\ i - 1 = 0
        BY <3>1
      <4>2. QED
        BY <2>b, <2>2, <2>4, <3>1, <4>1 DEF WithoutTakes
    <3>2. CASE i = 2
      BY <2>b, <2>2, <2>4, <3>2 DEF WithoutTakes
    <3>3. QED
      BY <3>1, <3>2
  <2>6. WithoutFold!Trace(star, <<>>, seq, 2, x)
    BY <2>4, <2>5 DEF WithoutFold!Trace
  <2>7. WithoutFold!Fold(star, <<>>, seq) = x[2]
    <3>1. 2 \in Nat /\ DOMAIN seq = 1 .. 2
      BY <2>2
    <3>2. QED
      BY <2>6, <3>1, WithoutFold!FoldOf
  <2>8. WithoutFold!Fold(star, <<>>, seq) = Without(seq, star)
    BY DEF WithoutFold!Fold, WithoutFold!Latest,
      Without, FoldLeft, MapThenFoldSet, Max, WithoutTakes
  <2>9. QED
    BY <2>a, <2>1, <2>4, <2>7, <2>8
<1>2. QED
  BY <1>1

(* Exactly one value is set. *)
SetOne(f, u, vs, k) == Toggled(f, u, k, IF States[k] \in Range(vs) THEN "on" ELSE "off")
SetSteps(f0, u, vs, f1, f2, f3, f4) ==
  /\ f0 \in Picks /\ u \in BOOLEAN
  /\ f1 = SetOne(f0, u, vs, 1) /\ f2 = SetOne(f1, u, vs, 2)
  /\ f3 = SetOne(f2, u, vs, 3) /\ f4 = SetOne(f3, u, vs, 4)

LEMMA SetStep ==
  ASSUME NEW f \in Picks, NEW u \in BOOLEAN, NEW k \in 1 .. 4, NEW vs
  PROVE  /\ SetTakes(vs, CellOf(f, u), k) = CellOf(SetOne(f, u, vs, k), u)
         /\ SetOne(f, u, vs, k) \in Picks
<1>1. CellOf(f, u).items[k].v = States[k]
  <2>1. CellOf(f, u).items = CellItems(f, u)
    BY CellReads
  <2>2. QED
    BY <2>1, ItemIs
<1>2. PICK force : force = IF States[k] \in Range(vs) THEN "on" ELSE "off"
  OBVIOUS
<1>3. toggleItem(CellOf(f, u), k, force) = CellOf(Toggled(f, u, k, force), u)
  BY ToggleIs
<1>4. SetTakes(vs, CellOf(f, u), k) = toggleItem(CellOf(f, u), k, force)
  BY <1>1, <1>2 DEF SetTakes
<1>5. SetOne(f, u, vs, k) = Toggled(f, u, k, force) /\ Toggled(f, u, k, force) \in Picks
  BY <1>2, ToggleIs DEF SetOne
<1>6. QED
  BY <1>3, <1>4, <1>5

LEMMA SetIs ==
  ASSUME NEW f0, NEW u, NEW vs, NEW f1, NEW f2, NEW f3, NEW f4, SetSteps(f0, u, vs, f1, f2, f3, f4)
  PROVE  setValue(CellOf(f0, u), vs) = CellOf(f4, u) /\ f4 \in Picks
<1>0. /\ f0 \in Picks /\ u \in BOOLEAN
      /\ f1 = SetOne(f0, u, vs, 1) /\ f2 = SetOne(f1, u, vs, 2)
      /\ f3 = SetOne(f2, u, vs, 3) /\ f4 = SetOne(f3, u, vs, 4)
  BY DEF SetSteps
<1>1. 1 \in 1 .. 4 /\ 2 \in 1 .. 4 /\ 3 \in 1 .. 4 /\ 4 \in 1 .. 4
  OBVIOUS
<1>2. CellOf(f1, u) = SetTakes(vs, CellOf(f0, u), 1) /\ f1 \in Picks
  BY <1>0, <1>1, SetStep
<1>3. CellOf(f2, u) = SetTakes(vs, CellOf(f1, u), 2) /\ f2 \in Picks
  BY <1>0, <1>1, <1>2, SetStep
<1>4. CellOf(f3, u) = SetTakes(vs, CellOf(f2, u), 3) /\ f3 \in Picks
  BY <1>0, <1>1, <1>3, SetStep
<1>5. CellOf(f4, u) = SetTakes(vs, CellOf(f3, u), 4) /\ f4 \in Picks
  BY <1>0, <1>1, <1>4, SetStep
<1>6. PICK x : x = [i \in 0 .. 4 |-> IF i = 0 THEN CellOf(f0, u) ELSE IF i = 1 THEN CellOf(f1, u)
                 ELSE IF i = 2 THEN CellOf(f2, u) ELSE IF i = 3 THEN CellOf(f3, u) ELSE CellOf(f4, u)]
  OBVIOUS
<1>7. /\ x[0] = CellOf(f0, u) /\ x[1] = CellOf(f1, u) /\ x[2] = CellOf(f2, u)
      /\ x[3] = CellOf(f3, u) /\ x[4] = CellOf(f4, u)
  BY <1>6
<1>b. PICK base : base = CellOf(f0, u)
  OBVIOUS
<1>8. PICK seq : seq = [i \in DOMAIN base.items |-> i]
  OBVIOUS
<1>9. DOMAIN seq = 1 .. 4 /\ seq[1] = 1 /\ seq[2] = 2 /\ seq[3] = 3 /\ seq[4] = 4
  <2>1. DOMAIN base.items = 1 .. 4
    <3>1. base.items = CellItems(f0, u)
      BY <1>0, <1>b, CellReads
    <3>2. QED
      BY <1>0, <3>1, ItemIs
  <2>2. QED
    BY <1>1, <1>8, <2>1
<1>10. ASSUME NEW i \in 1 .. 4 PROVE x[i] = SetTakes(vs, x[i - 1], seq[i])
  <2>1. i = 1 \/ i = 2 \/ i = 3 \/ i = 4
    OBVIOUS
  <2>2. 1 - 1 = 0 /\ 2 - 1 = 1 /\ 3 - 1 = 2 /\ 4 - 1 = 3
    OBVIOUS
  <2>3. QED
    BY <1>2, <1>3, <1>4, <1>5, <1>7, <1>9, <2>1, <2>2
<1>11. SetFold!Trace(vs, base, seq, 4, x)
  BY <1>7, <1>10, <1>b DEF SetFold!Trace
<1>12. SetFold!Fold(vs, base, seq) = x[4]
  <2>1. 4 \in Nat /\ DOMAIN seq = 1 .. 4
    BY <1>9
  <2>2. QED
    BY <1>11, <2>1, SetFold!FoldOf
<1>13. base.multiple = TRUE /\ base.create = FALSE
  BY <1>0, <1>b, CellReads
<1>14. setValue(base, vs) = SetEach(base, vs)
  BY <1>13 DEF setValue, setValues, Asked
<1>15. SetFold!Fold(vs, base, [i \in DOMAIN base.items |-> i]) = SetEach(base, vs)
  BY DEF SetFold!Fold, SetFold!Latest,
    SetEach, FoldLeft, MapThenFoldSet, Max, SetTakes, Range
<1>16. QED
  BY <1>5, <1>7, <1>8, <1>12, <1>14, <1>15, <1>b

LEMMA ClearIs ==
  ASSUME NEW f \in Picks, Proper(f), f[4]
  PROVE  \E h \in Picks : /\ Proper(h) /\ ~h[4]
                          /\ setValue(CellOf(f, f[1]), Without(Text(f), {"*"})) = CellOf(h, h[1])
<1>1. PICK u \in BOOLEAN : u = f[1] /\ ~u
  BY DEF Picks, Proper
<1>2. PICK k \in {2, 3} : f[k]
  BY DEF Proper
<1>3. PICK o \in {2, 3} : o # k
  OBVIOUS
<1>4. ~f[1] /\ ~f[o] /\ f[4]
  BY <1>2, <1>3 DEF Proper
<1>5. PICK vs : vs = <<States[k]>>
  OBVIOUS
<1>6. Without(Text(f), {"*"}) = vs
  BY <1>2, <1>5, TextOf, WithoutIs, StatesAre
<1>7. Range(vs) = {States[k]}
  <2>1. DOMAIN vs = {1} /\ vs[1] = States[k]
    BY <1>5
  <2>2. QED
    BY <2>1 DEF Range
<1>8. States[1] \notin Range(vs) /\ States[o] \notin Range(vs) /\ States[4] \notin Range(vs)
  BY <1>3, <1>7, StatesAre
<1>9. PICK h \in Picks : h = Cleared(f, 4)
  BY PickedIs
<1>10. SetOne(f, u, vs, 1) = f
  <2>1. ~Flipped(f, 1, "off")
    BY <1>4 DEF Flipped
  <2>2. Toggled(f, u, 1, "off") = Cleared(f, 1)
    BY <2>1, ToggledIs
  <2>3. Cleared(f, 1) = f
    BY <1>4 DEF Cleared, Picks
  <2>4. QED
    BY <1>8, <2>2, <2>3 DEF SetOne
<1>11. SetOne(f, u, vs, o) = f
  <2>1. ~Flipped(f, o, "off") /\ o \in 1 .. 4 /\ o # 4
    BY <1>4 DEF Flipped
  <2>2. Toggled(f, u, o, "off") = Cleared(f, o)
    BY <2>1, ToggledIs
  <2>3. Cleared(f, o) = f
    BY <1>4, <2>1 DEF Cleared, Picks
  <2>4. QED
    BY <1>8, <2>2, <2>3 DEF SetOne
<1>12. SetOne(f, u, vs, k) = f
  <2>1. Flipped(f, k, "on") /\ k \in 1 .. 4 /\ k # 4
    BY <1>2 DEF Flipped
  <2>2. Toggled(f, u, k, "on") = Picked(f, k)
    BY <2>1, ToggledIs
  <2>3. Picked(f, k) = f
    BY <1>2, <2>1 DEF Picked, Picks
  <2>4. QED
    BY <1>7, <2>2, <2>3 DEF SetOne
<1>13. SetOne(f, u, vs, 4) = h
  <2>1. ~Few(f)
    BY <1>2, <1>4 DEF Few
  <2>2. ~Flipped(f, 4, "off")
    BY <2>1 DEF Flipped
  <2>3. Toggled(f, u, 4, "off") = Cleared(f, 4)
    BY <1>1, <2>2, ToggledIs
  <2>4. QED
    BY <1>8, <1>9, <2>3 DEF SetOne
<1>14. SetOne(f, u, vs, 2) = f /\ SetOne(f, u, vs, 3) = f
  BY <1>3, <1>11, <1>12
<1>15. SetSteps(f, u, vs, f, f, f, h)
  BY <1>10, <1>13, <1>14 DEF SetSteps
<1>16. setValue(CellOf(f, u), vs) = CellOf(h, u)
  BY <1>15, SetIs
<1>17. ~h[4] /\ h[1] = f[1] /\ h[2] = f[2] /\ h[3] = f[3]
  BY <1>9, PickedIs
<1>18. Proper(h)
  BY <1>17 DEF Proper
<1>19. QED
  BY <1>1, <1>6, <1>16, <1>17, <1>18

(* What is saved, read and shown *)
LEMMA ContainsIs ==
  /\ ~Contains(<<>>, "t") /\ ~Contains(<<>>, "*")
  /\ \A a, x : Contains(<<a>>, x) <=> a = x
  /\ \A a, b, x : Contains(<<a, b>>, x) <=> a = x \/ b = x
<1>1. ~Contains(<<>>, "t") /\ ~Contains(<<>>, "*")
  BY DEF Contains
<1>2. ASSUME NEW a, NEW x PROVE Contains(<<a>>, x) <=> a = x
  <2>1. Len(<<a>>) = 1 /\ <<a>>[1] = a /\ 1 .. 1 = {1}
    OBVIOUS
  <2>2. QED
    BY <2>1 DEF Contains
<1>3. ASSUME NEW a, NEW b, NEW x PROVE Contains(<<a, b>>, x) <=> a = x \/ b = x
  <2>1. Len(<<a, b>>) = 2 /\ <<a, b>>[1] = a /\ <<a, b>>[2] = b /\ 1 .. 2 = {1, 2}
    OBVIOUS
  <2>2. QED
    BY <2>1 DEF Contains
<1>4. QED
  BY <1>1, <1>2, <1>3

LEMMA JoinIs ==
  ASSUME NEW a, NEW b
  PROVE  <<a>> \o <<b>> = <<a, b>> /\ <<a>> \o <<>> = <<a>>
<1>1. PICK D : D = {a, b}
  OBVIOUS
<1>2. <<a>> \in Seq(D) /\ b \in D
  BY <1>1
<1>3. Append(<<a>>, b) = <<a>> \o <<b>>
  BY <1>2, AppendIsConcat
<1>4. <<a>> \o <<>> = <<a>>
  BY <1>2, ConcatEmptySeq
<1>5. QED
  BY <1>3, <1>4, AppendTwo

LEMMA CfgIs ==
  /\ cfgvalue(Absent) = <<"-">> /\ cfgvalue(Bare) = <<"u">> /\ cfgvalue(<<>>) = <<"u">>
  /\ cfgvalue(<<"t">>) = <<"t">> /\ cfgvalue(<<"u", "*">>) = <<"u", "*">>
  /\ cfgvalue(<<"t", "*">>) = <<"t", "*">>
<1>1. Absent # Bare /\ Absent # <<>> /\ Absent # <<"t">> /\ Absent # <<"u", "*">> /\ Absent # <<"t", "*">>
  BY DEF Absent, Bare
<1>2. cfgvalue(Absent) = <<"-">>
  BY DEF cfgvalue
<1>3. cfgvalue(Bare) = <<"u">>
  <2>1. ~Contains(Bare, "t") /\ ~Contains(Bare, "*")
    BY ContainsIs DEF Bare
  <2>2. QED
    BY <1>1, <2>1, JoinIs DEF cfgvalue
<1>4. cfgvalue(<<>>) = <<"u">>
  BY <1>1, ContainsIs, JoinIs DEF cfgvalue
<1>5. cfgvalue(<<"t">>) = <<"t">>
  <2>1. Contains(<<"t">>, "t") /\ ~Contains(<<"t">>, "*")
    BY ContainsIs
  <2>2. QED
    BY <1>1, <2>1, JoinIs DEF cfgvalue
<1>6. cfgvalue(<<"u", "*">>) = <<"u", "*">>
  <2>1. ~Contains(<<"u", "*">>, "t") /\ Contains(<<"u", "*">>, "*")
    BY ContainsIs
  <2>2. QED
    BY <1>1, <2>1, JoinIs DEF cfgvalue
<1>7. cfgvalue(<<"t", "*">>) = <<"t", "*">>
  <2>1. Contains(<<"t", "*">>, "t") /\ Contains(<<"t", "*">>, "*")
    BY ContainsIs
  <2>2. QED
    BY <1>1, <2>1, JoinIs DEF cfgvalue
<1>8. QED
  BY <1>2, <1>3, <1>4, <1>5, <1>6, <1>7

LEMMA EncodeIs ==
  ASSUME NEW x \in CellValues
  PROVE  Encode(x) \in Entries /\ Encode(x) # <<>> /\ cfgvalue(Encode(x)) = x
<1>1. <<"-">> # <<"u">> /\ <<"-">> # <<"t">> /\ <<"-">> # <<"u", "*">> /\ <<"-">> # <<"t", "*">>
  OBVIOUS
<1>2. <<"u">> # <<"t">> /\ <<"u">> # <<"u", "*">> /\ <<"u">> # <<"t", "*">>
  OBVIOUS
<1>3. Absent # <<>> /\ Bare # <<>> /\ <<"t">> # <<>> /\ <<"u", "*">> # <<>> /\ <<"t", "*">> # <<>>
  BY DEF Absent, Bare
<1>4. x = <<"-">> => Encode(x) = Absent
  BY DEF Encode
<1>5. x = <<"u">> => Encode(x) = Bare
  BY <1>1 DEF Encode
<1>6. x \in {<<"t">>, <<"u", "*">>, <<"t", "*">>} => Encode(x) = x
  BY <1>1, <1>2 DEF Encode
<1>7. QED
  BY <1>3, <1>4, <1>5, <1>6, CfgIs DEF CellValues, Entries

(* A cell is drawn from a value. *)
Drawing(values) == [i \in 1 .. 4 |-> States[i] \in Range(values)]

DrawnAs(f, values) ==
  /\ f = Drawing(values) /\ Proper(f) /\ Text(f) = values
  /\ f[1] <=> values = <<"-">>

LEMMA DrawingIs ==
  ASSUME NEW values \in CellValues
  PROVE  \E f \in Picks : DrawnAs(f, values)
<1>0. PICK f : f = Drawing(values)
  OBVIOUS
<1>i. ASSUME NEW i \in 1 .. 4 PROVE f[i] \in BOOLEAN /\ (f[i] <=> States[i] \in Range(values))
  <2>1. f[i] = (States[i] \in Range(values))
    BY <1>0, Zenon DEF Drawing
  <2>2. PICK x, y, R : x = f[i] /\ y = States[i] /\ R = Range(values)
    OBVIOUS
  <2>3. x = (y \in R)
    BY <2>1, <2>2, Zenon
  <2>4. x \in BOOLEAN
    BY <2>3
  <2>5. x <=> y \in R
    BY <2>3
  <2>6. QED
    BY <2>2, <2>4, <2>5
<1>1. f \in Picks /\ f = Drawing(values)
  <2>1. f = [i \in 1 .. 4 |-> f[i]]
    BY <1>0 DEF Drawing
  <2>2. QED
    BY <1>0, <1>i, <2>1 DEF Picks
<1>2. /\ f[1] <=> "-" \in Range(values)
      /\ f[2] <=> "u" \in Range(values)
      /\ f[3] <=> "t" \in Range(values)
      /\ f[4] <=> "*" \in Range(values)
  BY <1>i, StatesAre
<1>3. \A a : Range(<<a>>) = {a}
  BY DEF Range
<1>4. \A a, b : Range(<<a, b>>) = {a, b}
  <2> SUFFICES ASSUME NEW a, NEW b PROVE Range(<<a, b>>) = {a, b}
    OBVIOUS
  <2>1. DOMAIN <<a, b>> = {1, 2} /\ <<a, b>>[1] = a /\ <<a, b>>[2] = b
    OBVIOUS
  <2>2. QED
    BY <2>1 DEF Range
<1>5. ASSUME values = <<"-">> PROVE DrawnAs(f, values)
  <2>1. f[1] /\ ~f[2] /\ ~f[3] /\ ~f[4]
    BY <1>2, <1>3, <1>5
  <2>2. Proper(f)
    BY <2>1 DEF Proper
  <2>3. Text(f) = values
    BY <1>5, <2>1, <2>2, <1>1, TextOf
  <2>4. f[1] <=> values = <<"-">>
    BY <1>5, <2>1
  <2>5. QED
    BY <1>1, <2>2, <2>3, <2>4 DEF DrawnAs
<1>6. ASSUME values = <<"u">> PROVE DrawnAs(f, values)
  <2>1. ~f[1] /\ f[2] /\ ~f[3] /\ ~f[4]
    BY <1>2, <1>3, <1>6
  <2>2. Proper(f)
    BY <2>1 DEF Proper
  <2>3. Text(f) = values
    BY <1>6, <2>1, <2>2, <1>1, TextOf
  <2>4. f[1] <=> values = <<"-">>
    BY <1>6, <2>1
  <2>5. QED
    BY <1>1, <2>2, <2>3, <2>4 DEF DrawnAs
<1>7. ASSUME values = <<"t">> PROVE DrawnAs(f, values)
  <2>1. ~f[1] /\ ~f[2] /\ f[3] /\ ~f[4]
    BY <1>2, <1>3, <1>7
  <2>2. Proper(f)
    BY <2>1 DEF Proper
  <2>3. Text(f) = values
    BY <1>7, <2>1, <2>2, <1>1, TextOf
  <2>4. f[1] <=> values = <<"-">>
    BY <1>7, <2>1
  <2>5. QED
    BY <1>1, <2>2, <2>3, <2>4 DEF DrawnAs
<1>8. ASSUME values = <<"u", "*">> PROVE DrawnAs(f, values)
  <2>1. ~f[1] /\ f[2] /\ ~f[3] /\ f[4]
    BY <1>2, <1>4, <1>8
  <2>2. Proper(f)
    BY <2>1 DEF Proper
  <2>3. Text(f) = values
    BY <1>8, <2>1, <2>2, <1>1, TextOf
  <2>4. f[1] <=> values = <<"-">>
    BY <1>8, <2>1
  <2>5. QED
    BY <1>1, <2>2, <2>3, <2>4 DEF DrawnAs
<1>9. ASSUME values = <<"t", "*">> PROVE DrawnAs(f, values)
  <2>1. ~f[1] /\ ~f[2] /\ f[3] /\ f[4]
    BY <1>2, <1>4, <1>9
  <2>2. Proper(f)
    BY <2>1 DEF Proper
  <2>3. Text(f) = values
    BY <1>9, <2>1, <2>2, <1>1, TextOf
  <2>4. f[1] <=> values = <<"-">>
    BY <1>9, <2>1
  <2>5. QED
    BY <1>1, <2>2, <2>3, <2>4 DEF DrawnAs
<1>10. DrawnAs(f, values)
  BY <1>5, <1>6, <1>7, <1>8, <1>9 DEF CellValues
<1>11. QED
  BY <1>1, <1>10

LEMMA RenderIs ==
  ASSUME NEW values \in CellValues
  PROVE  render(CellKind, values, States) = CellOf(Drawing(values), FALSE)
<1>1. PICK lis : lis = [i \in 1 .. 4 |-> Item(States[i], States[i] \in Range(values))]
  OBVIOUS
<1>2. States \o <<>> = States
  <2>1. States \in Seq({"-", "u", "t", "*"})
    BY DEF States
  <2>2. QED
    BY <2>1, ConcatEmptySeq
<1>3. <<>> \o lis = lis /\ lis \o <<>> = lis
  <2>1. PICK D : D = {lis[i] : i \in 1 .. 4}
    OBVIOUS
  <2>2. lis \in Seq(D)
    BY <1>1, <2>1
  <2>3. QED
    BY <2>2, ConcatEmptySeq
<1>4. lis = CellItems(Drawing(values), FALSE)
  <2>1. ASSUME NEW i \in 1 .. 4
        PROVE  Item(States[i], States[i] \in Range(values))
                 = CellItem(i, Drawing(values)[i], i = 4 /\ FALSE)
    <3>1. Drawing(values)[i] = (States[i] \in Range(values))
      BY DEF Drawing
    <3>2. QED
      BY <3>1 DEF Item, CellItem
  <2>2. QED
    BY <1>1, <2>1 DEF CellItems
<1>5. CellKind.multiple = TRUE /\ CellKind.optional = FALSE /\ CellKind.create = FALSE
  BY DEF CellKind
<1>6. [i \in DOMAIN States |-> Item(States[i], States[i] \in Range(values))] = lis
  BY <1>1, StatesAre
<1>7. render(CellKind, values, States)
        = [multiple |-> CellKind.multiple, optional |-> CellKind.optional, create |-> CellKind.create,
           open |-> FALSE, items |-> lis, hidden |-> Values(lis)]
  BY <1>2, <1>3, <1>5, <1>6 DEF render, Given
<1>8. Values(lis) = Text(Drawing(values))
  <2>1. Drawing(values) \in Picks
    BY DrawingIs DEF DrawnAs
  <2>2. QED
    BY <1>4, <2>1, TextIs
<1>9. PICK yes, no : yes = TRUE /\ no = FALSE
  OBVIOUS
<1>10. PICK text : text = Text(Drawing(values))
  OBVIOUS
<1>11. render(CellKind, values, States) = BoxOf(yes, no, no, no, lis, text)
  BY <1>5, <1>7, <1>8, <1>9, <1>10 DEF BoxOf
<1>12. CellOf(Drawing(values), FALSE) = BoxOf(yes, no, no, no, lis, text)
  BY <1>4, <1>9, <1>10 DEF CellOf
<1>13. QED
  BY <1>11, <1>12

LEMMA EntryIs ==
  ASSUME NEW e \in Entries
  PROVE  cfgvalue(e) \in CellValues
  BY CfgIs DEF Entries, CellValues

LEMMA WidgetIs ==
  ASSUME NEW e \in Entries
  PROVE  renderWidget(e) \in PropCells /\ getValue(renderWidget(e)) = cfgvalue(e)
<1>1. PICK values \in CellValues : values = cfgvalue(e)
  BY EntryIs
<1>0. PICK f \in Picks : DrawnAs(f, values)
  BY DrawingIs
<1>2. /\ f = Drawing(values) /\ Proper(f) /\ Text(f) = values
      /\ f[1] <=> values = <<"-">>
  BY <1>0 DEF DrawnAs
<1>3. renderWidget(e) = Mark(CellOf(f, FALSE), "*", values = <<"-">>)
  BY <1>1, <1>2, RenderIs DEF renderWidget
<1>4. PICK w \in BOOLEAN : w = (values = <<"-">>)
  OBVIOUS
<1>5. Mark(CellOf(f, FALSE), "*", w) = CellOf(f, w)
  BY MarkIs
<1>x. w = f[1]
  BY <1>2, <1>4 DEF Picks
<1>6. renderWidget(e) = CellOf(f, f[1])
  BY <1>3, <1>4, <1>5, <1>x
<1>7. getValue(CellOf(f, w)) = Text(f)
  BY CellReads
<1>8. QED
  BY <1>1, <1>2, <1>6, <1>7, <1>x DEF PropCells

(* What the table needs to know of its cells *)
LEMMA CellShows ==
  ASSUME NEW c \in PropCells
  PROVE  /\ getValue(c) \in CellValues /\ BoxConsistent(c)
         /\ c.items[4].un <=> getValue(c) = <<"-">>
<1>1. PICK f \in Picks : Proper(f) /\ c = CellOf(f, f[1])
  BY DEF PropCells
<1>2. PICK u \in BOOLEAN : u = f[1]
  BY DEF Picks
<1>3. c = CellOf(f, u)
  BY <1>1, <1>2
<1>4. getValue(c) = Text(f) /\ c.items = CellItems(f, u) /\ c.multiple = TRUE
  BY <1>3, CellReads
<1>5. Text(f) \in CellValues /\ (f[1] <=> Text(f) = <<"-">>)
  BY <1>1, TextOf DEF Proper
<1>6. c.items[4].un = u
  <2>1. c.items[4].un = (4 = 4 /\ u)
    BY <1>4, ItemIs
  <2>2. QED
    BY <2>1
<1>7. BoxConsistent(c)
  <2>1. getValue(c) = Values(c.items)
    BY <1>4, TextIs
  <2>2. \A i, j \in DOMAIN c.items : c.items[i].v = c.items[j].v => i = j
    <3> SUFFICES ASSUME NEW i \in 1 .. 4, NEW j \in 1 .. 4, c.items[i].v = c.items[j].v PROVE i = j
      BY <1>4, ItemIs
    <3>1. States[i] = States[j]
      BY <1>4, ItemIs
    <3>2. (i = 1 \/ i = 2 \/ i = 3 \/ i = 4) /\ (j = 1 \/ j = 2 \/ j = 3 \/ j = 4)
      OBVIOUS
    <3>3. QED
      BY <3>1, <3>2, StatesAre
  <2>3. QED
    BY <1>4, <2>1, <2>2 DEF BoxConsistent
<1>8. QED
  BY <1>2, <1>4, <1>5, <1>6, <1>7

LEMMA CellClicked ==
  ASSUME NEW c \in PropCells, NEW k \in 1 .. 4, NEW d, d = toggleState(c, k)
  PROVE  /\ d \in PropCells
         /\ d.items[4].sel <=> Primary(getValue(d))
         /\ k # 4 /\ Primary(getValue(d)) => Primary(getValue(c))
<1>1. PICK f \in Picks : Proper(f) /\ c = CellOf(f, f[1])
  BY DEF PropCells
<1>2. PICK h \in Picks : Proper(h) /\ (k # 4 /\ h[4] => f[4]) /\ d = CellOf(h, h[1])
  BY <1>1, ClickIs
<1>3. PICK u \in BOOLEAN, w \in BOOLEAN : u = f[1] /\ w = h[1]
  BY DEF Picks
<1>4. getValue(c) = Text(f) /\ getValue(d) = Text(h) /\ d.items = CellItems(h, w)
  BY <1>1, <1>2, <1>3, CellReads
<1>5. d.items[4].sel = h[4]
  BY <1>4, ItemIs
<1>6. d \in PropCells
  BY <1>2 DEF PropCells
<1>7. (Primary(getValue(d)) <=> h[4]) /\ (Primary(getValue(c)) <=> f[4])
  BY <1>1, <1>2, <1>4, TextPrimary
<1>8. QED
  BY <1>2, <1>5, <1>6, <1>7

LEMMA CellCleared ==
  ASSUME NEW c \in PropCells, Primary(getValue(c)), NEW d, d = setValue(c, Without(getValue(c), {"*"}))
  PROVE  d \in PropCells /\ ~Primary(getValue(d))
<1>1. PICK f \in Picks : Proper(f) /\ c = CellOf(f, f[1])
  BY DEF PropCells
<1>2. PICK u \in BOOLEAN : u = f[1]
  BY DEF Picks
<1>3. getValue(c) = Text(f)
  BY <1>1, <1>2, CellReads
<1>4. f[4]
  BY <1>1, <1>3, TextPrimary
<1>5. PICK h \in Picks : Proper(h) /\ ~h[4] /\ d = CellOf(h, h[1])
  BY <1>1, <1>3, <1>4, ClearIs
<1>6. PICK w \in BOOLEAN : w = h[1]
  BY DEF Picks
<1>7. getValue(d) = Text(h)
  BY <1>5, <1>6, CellReads
<1>8. QED
  BY <1>5, <1>7, TextPrimary DEF PropCells

-----------------------------------------------------------------------------
(* Rows *)
Base(v) == v \in Table /\ SavedOk(v) /\ (v.checked => Untagged(v.rows))
CellsOk(v) == ~v.refused => CellsUnique(v.rows)
SavesOk(v) == ~v.refused => SavedUnique(v.rows)

LEMMA RowIs ==
  ASSUME NEW rows \in Seq(Row), NEW r \in DOMAIN rows
  PROVE  /\ rows[r] \in Row /\ rows[r].saved \in [AllPorts -> Entries]
         /\ rows[r].cells \in [AllPorts -> PropCells]
         /\ \A p \in AllPorts : rows[r].saved[p] \in Entries /\ rows[r].cells[p] \in PropCells
<1>1. rows[r] \in Row
  OBVIOUS
<1>2. QED
  BY <1>1 DEF Row

LEMMA RowsAre ==
  ASSUME NEW n \in Nat, NEW new, DOMAIN new = 1 .. n, new = [i \in 1 .. n |-> new[i]],
         \A i \in 1 .. n : new[i] \in Row
  PROVE  new \in Seq(Row) /\ Len(new) = n
  OBVIOUS

LEMMA TableIs ==
  ASSUME NEW v \in Table
  PROVE  /\ v.checked \in BOOLEAN /\ v.ports \in SUBSET AllPorts /\ v.rows \in Seq(Row)
         /\ v.refused \in BOOLEAN /\ v.slipped \in BOOLEAN
  BY DEF Table

LEMMA TableRows ==
  ASSUME NEW v \in Table, NEW rows \in Seq(Row), NEW w, w = [v EXCEPT !.rows = rows]
  PROVE  /\ w \in Table /\ w.rows = rows /\ w.checked = v.checked /\ w.ports = v.ports
         /\ w.refused = v.refused /\ w.slipped = v.slipped
  BY DEF Table

LEMMA RedrawIs ==
  ASSUME NEW rows \in Seq(Row), NEW new, new = Redraw(rows)
  PROVE  /\ new \in Seq(Row) /\ DOMAIN new = DOMAIN rows
         /\ \A r \in DOMAIN rows : /\ new[r].saved = rows[r].saved
                                   /\ \A p \in AllPorts : getValue(new[r].cells[p]) = cfgvalue(rows[r].saved[p])
<1>1. DOMAIN new = DOMAIN rows /\ new = [r \in DOMAIN rows |-> new[r]]
  BY DEF Redraw
<1>2. ASSUME NEW r \in DOMAIN rows
      PROVE  /\ new[r] \in Row /\ new[r].saved = rows[r].saved
             /\ \A p \in AllPorts : getValue(new[r].cells[p]) = cfgvalue(rows[r].saved[p])
  <2>1. PICK row : row = rows[r]
    OBVIOUS
  <2>2. PICK cells : cells = [p \in AllPorts |-> renderWidget(row.saved[p])]
    OBVIOUS
  <2>3. new[r] = [row EXCEPT !.cells = cells]
    BY <2>1, <2>2 DEF Redraw
  <2>4. row \in Row /\ \A p \in AllPorts : row.saved[p] \in Entries
    BY <2>1, RowIs
  <2>5. cells \in [AllPorts -> PropCells] /\ \A p \in AllPorts : getValue(cells[p]) = cfgvalue(row.saved[p])
    BY <2>2, <2>4, WidgetIs
  <2>6. new[r] \in Row /\ new[r].saved = row.saved /\ new[r].cells = cells
    BY <2>3, <2>4, <2>5 DEF Row
  <2>7. QED
    BY <2>1, <2>5, <2>6
<1>3. Len(rows) \in Nat /\ DOMAIN rows = 1 .. Len(rows)
  OBVIOUS
<1>4. new \in Seq(Row)
  BY <1>1, <1>2, <1>3, RowsAre
<1>5. QED
  BY <1>1, <1>2, <1>4

(* Drawing the table again needs only what is saved. *)
LEMMA ShownIs ==
  ASSUME NEW v, Base(v), SavesOk(v)
  PROVE  TableOk(Redrawn(v))
<1>1. v \in Table /\ v.rows \in Seq(Row)
  BY TableIs DEF Base
<1>2. PICK new : new = Redraw(v.rows)
  OBVIOUS
<1>3. /\ new \in Seq(Row) /\ DOMAIN new = DOMAIN v.rows
      /\ \A r \in DOMAIN v.rows :
           /\ new[r].saved = v.rows[r].saved
           /\ \A p \in AllPorts : getValue(new[r].cells[p]) = cfgvalue(v.rows[r].saved[p])
  BY <1>1, <1>2, RedrawIs
<1>4. PICK w : w = Redrawn(v) /\ w = [v EXCEPT !.rows = new]
  BY <1>2 DEF Redrawn
<1>5. /\ w \in Table /\ w.rows = new /\ w.checked = v.checked /\ w.ports = v.ports
      /\ w.refused = v.refused /\ w.slipped = v.slipped
  BY <1>1, <1>3, <1>4, TableRows
<1>6. SavedOk(w)
  BY <1>3, <1>5 DEF SavedOk, Base
<1>7. w.checked => Untagged(w.rows)
  BY <1>3, <1>5 DEF Base, Untagged
<1>8. ~w.refused => SavedUnique(w.rows)
  BY <1>3, <1>5 DEF SavesOk, SavedUnique
<1>9. ~w.refused => CellsUnique(w.rows)
  BY <1>3, <1>5 DEF SavesOk, SavedUnique, CellsUnique
<1>10. QED
  BY <1>4, <1>5, <1>6, <1>7, <1>8, <1>9 DEF TableOk

LEMMA TableParts ==
  ASSUME NEW v PROVE TableOk(v) <=> Base(v) /\ CellsOk(v) /\ SavesOk(v)
  BY DEF TableOk, Base, CellsOk, SavesOk

(* Parsing: the rows are written one after the other; those already gone     *)
(* through save what their cells show, unless one was refused.               *)
ParseTakes(c, w, r) == IF Changed(w.rows[r], w.ports) = {} THEN w ELSE write(w, r, Cells(w, r))
Matches(w, r) == \A p \in w.ports : cfgvalue(w.rows[r].saved[p]) = getValue(w.rows[r].cells[p])
SameCells(c, w) ==
  /\ w.ports = c.ports /\ w.checked = c.checked /\ w.slipped = c.slipped
  /\ DOMAIN w.rows = DOMAIN c.rows
  /\ \A r \in DOMAIN c.rows : w.rows[r].cells = c.rows[r].cells
ParseKept(c, i, w) ==
  /\ Base(w) /\ SameCells(c, w)
  /\ ~w.refused => ~c.refused /\ \A r \in DOMAIN w.rows : r <= i => Matches(w, r)
ParseFold == INSTANCE FoldInduction WITH Op <- ParseTakes, Good <- ParseKept

LEMMA CellsAre ==
  ASSUME NEW v \in Table, NEW r \in DOMAIN v.rows, NEW new, new = Cells(v, r)
  PROVE  /\ new \in [AllPorts -> Entries]
         /\ \A p \in v.ports : cfgvalue(new[p]) = getValue(v.rows[r].cells[p]) /\ new[p] # <<>>
         /\ \A p \in AllPorts \ v.ports : new[p] = Absent
<1>1. v.rows \in Seq(Row) /\ v.ports \in SUBSET AllPorts
  BY TableIs
<1>2. PICK cells : cells = v.rows[r].cells
  OBVIOUS
<1>3. \A p \in AllPorts : cells[p] \in PropCells
  BY <1>1, <1>2, RowIs
<1>4. \A p \in AllPorts : getValue(cells[p]) \in CellValues
  BY <1>3, CellShows
<1>5. new = [p \in AllPorts |-> IF p \in v.ports THEN Encode(getValue(cells[p])) ELSE Absent]
  BY <1>2 DEF Cells
<1>6. \A p \in AllPorts : /\ Encode(getValue(cells[p])) \in Entries /\ Encode(getValue(cells[p])) # <<>>
                          /\ cfgvalue(Encode(getValue(cells[p]))) = getValue(cells[p])
  BY <1>4, EncodeIs
<1>7. Absent \in Entries
  BY DEF Entries
<1>8. QED
  BY <1>1, <1>2, <1>5, <1>6, <1>7

SavedRow(row, new) == [row EXCEPT !.saved = new]
PutRow(v, r, row) == [v EXCEPT !.rows = [v.rows EXCEPT ![r] = row]]

LEMMA NestedSaved ==
  ASSUME NEW v, NEW r, NEW new
  PROVE  [v EXCEPT !.rows[r].saved = new]
           = PutRow(v, r, SavedRow(v.rows[r], new))
  BY DEF PutRow, SavedRow

LEMMA RowSavedIs ==
  ASSUME NEW row \in Row, NEW new \in [AllPorts -> Entries], NEW w, w = SavedRow(row, new)
  PROVE  w \in Row /\ w.saved = new /\ w.cells = row.cells
  BY DEF Row, SavedRow

LEMMA RowPut ==
  ASSUME NEW v \in Table, NEW r \in DOMAIN v.rows, NEW row \in Row,
         NEW w, w = PutRow(v, r, row)
  PROVE  /\ w \in Table /\ DOMAIN w.rows = DOMAIN v.rows /\ w.checked = v.checked /\ w.ports = v.ports
         /\ w.refused = v.refused /\ w.slipped = v.slipped
         /\ w.rows[r] = row
         /\ \A o \in DOMAIN v.rows : o # r => w.rows[o] = v.rows[o]
<1>1. PICK rows \in Seq(Row) : rows = v.rows
  BY TableIs
<1>2. PICK others : others = [rows EXCEPT ![r] = row]
  OBVIOUS
<1>3. others \in Seq(Row) /\ DOMAIN others = DOMAIN rows /\ others[r] = row
  BY <1>1, <1>2
<1>4. \A o \in DOMAIN rows : o # r => others[o] = rows[o]
  BY <1>2
<1>5. /\ w \in Table /\ w.rows = others /\ w.checked = v.checked /\ w.ports = v.ports
      /\ w.refused = v.refused /\ w.slipped = v.slipped
  <2>1. w = [v EXCEPT !.rows = others]
    BY <1>1, <1>2 DEF PutRow
  <2>2. QED
    BY <1>3, <2>1, TableRows
<1>6. QED
  BY <1>1, <1>3, <1>4, <1>5

LEMMA RowSaved ==
  ASSUME NEW v \in Table, NEW r \in DOMAIN v.rows, NEW new \in [AllPorts -> Entries],
         NEW w, w = PutRow(v, r, SavedRow(v.rows[r], new))
  PROVE  /\ w \in Table /\ DOMAIN w.rows = DOMAIN v.rows /\ w.checked = v.checked /\ w.ports = v.ports
         /\ w.refused = v.refused /\ w.slipped = v.slipped
         /\ w.rows[r].saved = new
         /\ \A o \in DOMAIN v.rows : w.rows[o].cells = v.rows[o].cells /\ (o # r => w.rows[o] = v.rows[o])
<1>1. PICK row : row = SavedRow(v.rows[r], new)
  OBVIOUS
<1>2. v.rows[r] \in Row
  BY TableIs, RowIs
<1>3. row \in Row /\ row.saved = new /\ row.cells = v.rows[r].cells
  BY <1>1, <1>2, RowSavedIs
<1>4. w = PutRow(v, r, row)
  BY <1>1
<1>5. /\ w \in Table /\ DOMAIN w.rows = DOMAIN v.rows /\ w.checked = v.checked /\ w.ports = v.ports
      /\ w.refused = v.refused /\ w.slipped = v.slipped
      /\ w.rows[r] = row
      /\ \A o \in DOMAIN v.rows : o # r => w.rows[o] = v.rows[o]
  BY <1>3, <1>4, RowPut
<1>6. QED
  BY <1>3, <1>5

LEMMA Refuses ==
  ASSUME NEW v \in Table, NEW yes \in BOOLEAN, NEW w, w = [v EXCEPT !.refused = yes]
  PROVE  /\ w \in Table /\ w.rows = v.rows /\ w.checked = v.checked /\ w.ports = v.ports
         /\ w.refused = yes /\ w.slipped = v.slipped
  BY DEF Table

LEMMA ParseStep ==
  ASSUME NEW c, NEW w, NEW r \in DOMAIN w.rows, ParseKept(c, r - 1, w)
  PROVE  ParseKept(c, r, ParseTakes(c, w, r))
<1>1. w \in Table /\ w.rows \in Seq(Row) /\ w.ports \in SUBSET AllPorts
  BY TableIs DEF ParseKept, Base
<1>2. SameCells(c, w) /\ Base(w)
  BY DEF ParseKept
<1>3. \A o \in DOMAIN w.rows : o \in Nat /\ (o <= r /\ o # r => o <= r - 1)
  BY <1>1
<1>4. CASE Changed(w.rows[r], w.ports) = {}
  <2>1. Matches(w, r)
    BY <1>4 DEF Changed, Matches
  <2>2. ~w.refused => ~c.refused /\ \A o \in DOMAIN w.rows : o <= r => Matches(w, o)
    BY <1>3, <2>1 DEF ParseKept
  <2>3. ParseTakes(c, w, r) = w
    BY <1>4 DEF ParseTakes
  <2>4. QED
    BY <1>2, <2>2, <2>3 DEF ParseKept
<1>5. CASE Changed(w.rows[r], w.ports) # {}
  <2>1. PICK new : new = Cells(w, r)
    OBVIOUS
  <2>2. /\ new \in [AllPorts -> Entries]
        /\ \A p \in w.ports : cfgvalue(new[p]) = getValue(w.rows[r].cells[p]) /\ new[p] # <<>>
        /\ \A p \in AllPorts \ w.ports : new[p] = Absent
    BY <1>1, <2>1, CellsAre
  <2>3. PICK x : x = ParseTakes(c, w, r) /\ x = write(w, r, new)
    BY <1>5, <2>1 DEF ParseTakes
  <2>4. CASE w.checked /\ Clashes(w.rows, r, new)
    <3>1. PICK yes \in BOOLEAN : yes = TRUE
      OBVIOUS
    <3>2. x = [w EXCEPT !.refused = yes]
      BY <2>3, <2>4, <3>1 DEF write
    <3>3. /\ x \in Table /\ x.rows = w.rows /\ x.checked = w.checked /\ x.ports = w.ports
          /\ x.refused = yes /\ x.slipped = w.slipped
      BY <1>1, <3>2, Refuses
    <3>4. Base(x)
      BY <1>2, <3>3 DEF Base, SavedOk
    <3>5. SameCells(c, x)
      BY <1>2, <3>3 DEF SameCells
    <3>6. QED
      BY <2>3, <3>1, <3>3, <3>4, <3>5 DEF ParseKept
  <2>5. CASE ~(w.checked /\ Clashes(w.rows, r, new))
    <3>1. x = PutRow(w, r, SavedRow(w.rows[r], new))
      BY <2>3, <2>5, NestedSaved DEF write
    <3>2. /\ x \in Table /\ DOMAIN x.rows = DOMAIN w.rows /\ x.checked = w.checked /\ x.ports = w.ports
          /\ x.refused = w.refused /\ x.slipped = w.slipped
          /\ x.rows[r].saved = new
          /\ \A o \in DOMAIN w.rows : x.rows[o].cells = w.rows[o].cells /\ (o # r => x.rows[o] = w.rows[o])
      BY <1>1, <2>2, <3>1, RowSaved
    <3>3. SavedOk(x)
      BY <1>2, <2>2, <3>2 DEF Base, SavedOk
    <3>4. ASSUME x.checked PROVE Untagged(x.rows)
      <4>1. ~Clashes(w.rows, r, new) /\ Untagged(w.rows)
        BY <1>2, <2>5, <3>2, <3>4 DEF Base
      <4>2. \A o \in DOMAIN w.rows \ {r} : \A p \in AllPorts :
              new[p] = w.rows[o].saved[p] => new[p] = Absent \/ Contains(new[p], "t")
        BY <4>1 DEF Clashes
      <4>3. ASSUME NEW a \in DOMAIN x.rows, NEW b \in DOMAIN x.rows, NEW p \in AllPorts,
                   x.rows[a].saved[p] = x.rows[b].saved[p], a # b
            PROVE  x.rows[a].saved[p] = Absent \/ Contains(x.rows[a].saved[p], "t")
        <5>1. CASE a = r
          BY <3>2, <4>2, <4>3, <5>1
        <5>2. CASE b = r
          BY <3>2, <4>2, <4>3, <5>2
        <5>3. CASE a # r /\ b # r
          BY <3>2, <4>1, <4>3, <5>3 DEF Untagged
        <5>4. QED
          BY <5>1, <5>2, <5>3
      <4>4. QED
        BY <4>3 DEF Untagged
    <3>5. SameCells(c, x)
      BY <1>2, <3>2 DEF SameCells
    <3>6. ~x.refused => ~c.refused /\ \A o \in DOMAIN x.rows : o <= r => Matches(x, o)
      <4>1. SUFFICES ASSUME ~x.refused, NEW o \in DOMAIN w.rows, o <= r
                     PROVE  ~c.refused /\ Matches(x, o)
        BY <3>2, <1>3 DEF ParseKept
      <4>2. ~c.refused
        BY <3>2, <4>1 DEF ParseKept
      <4>3. CASE o = r
        BY <2>2, <3>2, <4>2, <4>3 DEF Matches
      <4>4. CASE o # r
        <5>1. Matches(w, o)
          BY <1>3, <3>2, <4>1, <4>4 DEF ParseKept
        <5>2. QED
          BY <3>2, <4>2, <4>4, <5>1 DEF Matches
      <4>5. QED
        BY <4>3, <4>4
    <3>7. QED
      BY <2>3, <3>2, <3>3, <3>4, <3>5, <3>6 DEF ParseKept, Base
  <2>6. QED
    BY <2>4, <2>5
<1>6. QED
  BY <1>4, <1>5

LEMMA ParseIs ==
  ASSUME NEW v, Base(v), CellsOk(v)
  PROVE  Base(parse(v)) /\ SavesOk(parse(v))
<1>1. v \in Table /\ v.rows \in Seq(Row)
  BY TableIs DEF Base
<1>2. PICK n \in Nat : n = Len(v.rows) /\ DOMAIN v.rows = 1 .. n
  BY <1>1
<1>3. PICK seq : seq = [r \in DOMAIN v.rows |-> r]
  OBVIOUS
<1>4. DOMAIN seq = 1 .. n /\ \A i \in 1 .. n : seq[i] = i
  BY <1>2, <1>3
<1>5. PICK w : w = ParseFold!Fold(v, v, seq)
  OBVIOUS
<1>6. ParseKept(v, 0, v)
  BY <1>2 DEF ParseKept, SameCells
<1>7. ASSUME NEW i \in 1 .. n, NEW x, ParseKept(v, i - 1, x)
      PROVE  ParseKept(v, i, ParseTakes(v, x, seq[i]))
  <2>1. i \in DOMAIN x.rows
    BY <1>2, <1>7 DEF ParseKept, SameCells
  <2>2. ParseKept(v, i, ParseTakes(v, x, i))
    BY <1>7, <2>1, ParseStep
  <2>3. QED
    BY <1>4, <2>2
<1>8. ParseKept(v, n, w)
  BY <1>4, <1>5, <1>6, <1>7, ParseFold!FoldKeeps
<1>9. FoldLeft(LAMBDA a, r : IF Changed(a.rows[r], a.ports) = {} THEN a ELSE write(a, r, Cells(a, r)), v, seq) = w
  BY <1>5 DEF ParseFold!Fold, ParseFold!Latest,
              FoldLeft, MapThenFoldSet, Max, ParseTakes
<1>10. parse(v) = w
  BY <1>3, <1>9 DEF parse
<1>11. Base(w) /\ SameCells(v, w)
  BY <1>8 DEF ParseKept
<1>12. SavesOk(w)
  <2>1. SUFFICES ASSUME ~w.refused PROVE SavedUnique(w.rows)
    BY DEF SavesOk
  <2>2. CellsUnique(v.rows) /\ \A r \in DOMAIN w.rows : Matches(w, r)
    <3>1. \A r \in DOMAIN w.rows : r <= n
      BY <1>2, <1>11 DEF SameCells
    <3>2. QED
      BY <1>8, <2>1, <3>1 DEF ParseKept, CellsOk
  <2>3. \A r \in DOMAIN w.rows : \A p \in AllPorts :
          Primary(cfgvalue(w.rows[r].saved[p])) => Primary(getValue(v.rows[r].cells[p]))
    <3>1. SUFFICES ASSUME NEW r \in DOMAIN w.rows, NEW p \in AllPorts, Primary(cfgvalue(w.rows[r].saved[p]))
                   PROVE  Primary(getValue(v.rows[r].cells[p]))
      OBVIOUS
    <3>2. p \in w.ports
      BY <1>11, <3>1, CfgIs, PrimaryIs DEF Base, SavedOk
    <3>3. QED
      BY <1>11, <2>2, <3>1, <3>2 DEF Matches, SameCells
  <2>4. DOMAIN w.rows = DOMAIN v.rows
    BY <1>11 DEF SameCells
  <2>5. QED
    BY <2>2, <2>3, <2>4 DEF SavedUnique, CellsUnique
<1>13. QED
  BY <1>10, <1>11, <1>12

(* A new row at the end *)
LEMMA NewRowIs ==
  /\ NewRow \in Row
  /\ \A p \in AllPorts : NewRow.saved[p] = Absent /\ getValue(NewRow.cells[p]) = <<"-">>
<1>1. Absent \in Entries /\ cfgvalue(Absent) = <<"-">>
  BY CfgIs DEF Entries
<1>2. renderWidget(Absent) \in PropCells /\ getValue(renderWidget(Absent)) = <<"-">>
  BY <1>1, WidgetIs
<1>3. PICK saved, cells : /\ saved = [p \in AllPorts |-> Absent]
                          /\ cells = [p \in AllPorts |-> renderWidget(Absent)]
  OBVIOUS
<1>4. saved \in [AllPorts -> Entries] /\ cells \in [AllPorts -> PropCells]
  BY <1>1, <1>2, <1>3
<1>5. NewRow = [saved |-> saved, cells |-> cells]
  BY <1>3 DEF NewRow
<1>6. NewRow \in Row /\ NewRow.saved = saved /\ NewRow.cells = cells
  BY <1>4, <1>5 DEF Row
<1>7. QED
  BY <1>2, <1>3, <1>6

RowAdded(v) == [v EXCEPT !.rows = Append(v.rows, NewRow)]

LEMMA RowAddedIs ==
  ASSUME NEW v, Base(v)
  PROVE  Base(RowAdded(v)) /\ (CellsOk(v) => CellsOk(RowAdded(v))) /\ (SavesOk(v) => SavesOk(RowAdded(v)))
<1>1. v \in Table /\ v.rows \in Seq(Row) /\ v.ports \in SUBSET AllPorts
  BY TableIs DEF Base
<1>2. PICK n \in Nat : n = Len(v.rows) /\ DOMAIN v.rows = 1 .. n
  BY <1>1
<1>3. PICK rows : rows = Append(v.rows, NewRow)
  OBVIOUS
<1>4. /\ rows \in Seq(Row) /\ DOMAIN rows = 1 .. n + 1 /\ rows[n + 1] = NewRow
      /\ \A r \in 1 .. n : rows[r] = v.rows[r]
  BY <1>1, <1>2, <1>3, NewRowIs
<1>5. PICK w : w = RowAdded(v) /\ w = [v EXCEPT !.rows = rows]
  BY <1>3 DEF RowAdded
<1>6. /\ w \in Table /\ w.rows = rows /\ w.checked = v.checked /\ w.ports = v.ports
      /\ w.refused = v.refused /\ w.slipped = v.slipped
  BY <1>1, <1>4, <1>5, TableRows
<1>7. \A r \in DOMAIN rows : (r \in DOMAIN v.rows /\ rows[r] = v.rows[r]) \/ (rows[r] = NewRow /\ r = n + 1)
  <2>1. \A r \in 1 .. n + 1 : r \in 1 .. n \/ r = n + 1
    OBVIOUS
  <2>2. QED
    BY <1>2, <1>4, <2>1
<1>8. /\ \A p \in AllPorts : NewRow.saved[p] = Absent /\ getValue(NewRow.cells[p]) = <<"-">>
      /\ Absent # <<>> /\ cfgvalue(Absent) = <<"-">> /\ ~Primary(<<"-">>)
  BY NewRowIs, CfgIs, PrimaryIs DEF Absent
<1>9. SavedOk(w)
  BY <1>6, <1>7, <1>8 DEF Base, SavedOk
<1>10. ASSUME Untagged(v.rows) PROVE Untagged(rows)
  <2>1. SUFFICES ASSUME NEW r \in DOMAIN rows, NEW o \in DOMAIN rows, NEW p \in AllPorts,
                        rows[r].saved[p] = rows[o].saved[p], r # o
                 PROVE  rows[r].saved[p] = Absent \/ Contains(rows[r].saved[p], "t")
    BY DEF Untagged
  <2>2. CASE rows[r] = NewRow \/ rows[o] = NewRow
    BY <1>8, <2>1, <2>2
  <2>3. CASE rows[r] # NewRow /\ rows[o] # NewRow
    BY <1>7, <1>10, <2>1, <2>3 DEF Untagged
  <2>4. QED
    BY <2>2, <2>3
<1>11. ASSUME CellsUnique(v.rows) PROVE CellsUnique(rows)
  <2>1. SUFFICES ASSUME NEW r \in DOMAIN rows, NEW o \in DOMAIN rows, NEW p \in AllPorts,
                        Primary(getValue(rows[r].cells[p])), Primary(getValue(rows[o].cells[p]))
                 PROVE  r = o
    BY DEF CellsUnique
  <2>2. rows[r] # NewRow /\ rows[o] # NewRow
    BY <1>8, <2>1
  <2>3. QED
    BY <1>7, <1>11, <2>1, <2>2 DEF CellsUnique
<1>12. ASSUME SavedUnique(v.rows) PROVE SavedUnique(rows)
  <2>1. SUFFICES ASSUME NEW r \in DOMAIN rows, NEW o \in DOMAIN rows, NEW p \in AllPorts,
                        Primary(cfgvalue(rows[r].saved[p])), Primary(cfgvalue(rows[o].saved[p]))
                 PROVE  r = o
    BY DEF SavedUnique
  <2>2. rows[r] # NewRow /\ rows[o] # NewRow
    BY <1>8, <2>1
  <2>3. QED
    BY <1>7, <1>12, <2>1, <2>2 DEF SavedUnique
<1>13. QED
  BY <1>5, <1>6, <1>9, <1>10, <1>11, <1>12 DEF Base, CellsOk, SavesOk

(* A row less *)
(* A list without its i-th element *)
CutOut(S, s, i, t) ==
  /\ t \in Seq(S) /\ Len(t) = Len(s) - 1
  /\ \A j \in 1 .. Len(s) - 1 : t[j] = s[IF j < i THEN j ELSE j + 1]

LEMMA RemoveAtIs ==
  ASSUME NEW S, NEW s \in Seq(S), NEW i \in 1 .. Len(s), NEW t, t = RemoveAt(s, i)
  PROVE  CutOut(S, s, i, t)
<1>1. PICK n \in Nat : n = Len(s) /\ i \in 1 .. n
  OBVIOUS
<1>2. PICK a : a = SubSeq(s, 1, i - 1)
  OBVIOUS
<1>3. PICK b : b = SubSeq(s, i + 1, n)
  OBVIOUS
<1>4. a \in Seq(S) /\ Len(a) = i - 1 /\ \A j \in 1 .. i - 1 : a[j] = s[j]
  BY <1>1, <1>2
<1>5. b \in Seq(S) /\ Len(b) = n - i /\ \A j \in 1 .. n - i : b[j] = s[i + j]
  BY <1>1, <1>3
<1>6. t = a \o b
  BY <1>1, <1>2, <1>3 DEF RemoveAt
<1>7. t \in Seq(S) /\ Len(t) = n - 1
  <2>1. t \in Seq(S) /\ Len(t) = Len(a) + Len(b)
    BY <1>4, <1>5, <1>6, ConcatProperties
  <2>2. (i - 1) + (n - i) = n - 1
    BY <1>1
  <2>3. QED
    BY <1>4, <1>5, <2>1, <2>2
<1>8. ASSUME NEW j \in 1 .. n - 1 PROVE t[j] = s[IF j < i THEN j ELSE j + 1]
  <2>1. CASE j < i
    BY <1>1, <1>4, <1>5, <1>6, <1>8, <2>1
  <2>2. CASE ~(j < i)
    <3>a. Len(a) \in Nat /\ Len(b) \in Nat /\ j \in 1 .. Len(a) + Len(b) /\ ~(j <= Len(a))
      BY <1>1, <1>4, <1>5, <1>8, <2>2
    <3>1. t[j] = b[j - Len(a)]
      BY <1>4, <1>5, <1>6, <3>a, ConcatProperties
    <3>2. j - (i - 1) \in 1 .. n - i /\ i + (j - (i - 1)) = j + 1
      BY <1>1, <1>8, <2>2
    <3>3. QED
      BY <1>4, <1>5, <2>2, <3>1, <3>2
  <2>3. QED
    BY <2>1, <2>2
<1>9. QED
  BY <1>1, <1>7, <1>8 DEF CutOut

RowGone(v, r) == [v EXCEPT !.rows = RemoveAt(v.rows, r)]

LEMMA RowGoneIs ==
  ASSUME NEW v, Base(v), CellsOk(v), NEW r \in DOMAIN v.rows
  PROVE  Base(RowGone(v, r)) /\ CellsOk(RowGone(v, r))
<1>1. v \in Table /\ v.rows \in Seq(Row)
  BY TableIs DEF Base
<1>2. PICK n \in Nat : n = Len(v.rows) /\ DOMAIN v.rows = 1 .. n
  BY <1>1
<1>3. PICK rows : rows = RemoveAt(v.rows, r)
  OBVIOUS
<1>4. /\ rows \in Seq(Row) /\ DOMAIN rows = 1 .. n - 1
      /\ \A j \in 1 .. n - 1 : rows[j] = v.rows[IF j < r THEN j ELSE j + 1]
  <2>1. PICK old \in Seq(Row) : old = v.rows
    BY <1>1
  <2>2. r \in 1 .. Len(old) /\ rows = RemoveAt(old, r)
    BY <1>2, <1>3, <2>1
  <2>3. /\ rows \in Seq(Row) /\ Len(rows) = Len(old) - 1
        /\ \A j \in 1 .. Len(old) - 1 : rows[j] = old[IF j < r THEN j ELSE j + 1]
    <3>1. CutOut(Row, old, r, rows)
      BY <2>2, RemoveAtIs
    <3>2. QED
      BY <3>1 DEF CutOut
  <2>4. DOMAIN rows = 1 .. n - 1
    BY <1>2, <2>1, <2>3
  <2>5. QED
    BY <1>2, <2>1, <2>3, <2>4
<1>5. PICK at : at = [j \in 1 .. n - 1 |-> IF j < r THEN j ELSE j + 1]
  OBVIOUS
<1>6. \A j \in DOMAIN rows : at[j] \in DOMAIN v.rows /\ rows[j] = v.rows[at[j]]
  BY <1>2, <1>4, <1>5
<1>7. \A j, l \in DOMAIN rows : at[j] = at[l] => j = l
  BY <1>2, <1>4, <1>5
<1>8. PICK w : w = RowGone(v, r) /\ w = [v EXCEPT !.rows = rows]
  BY <1>3 DEF RowGone
<1>9. /\ w \in Table /\ w.rows = rows /\ w.checked = v.checked /\ w.ports = v.ports
      /\ w.refused = v.refused /\ w.slipped = v.slipped
  BY <1>1, <1>4, <1>8, TableRows
<1>10. SavedOk(w)
  BY <1>6, <1>9 DEF Base, SavedOk
<1>11. Untagged(v.rows) => Untagged(rows)
  BY <1>6, <1>7 DEF Untagged
<1>12. CellsUnique(v.rows) => CellsUnique(rows)
  BY <1>6, <1>7 DEF CellsUnique
<1>13. QED
  BY <1>8, <1>9, <1>10, <1>11, <1>12 DEF Base, CellsOk

(* A click in one cell, which may take primary away from another row *)
PutCell(rows, r, p, cell) == [rows EXCEPT ![r].cells[p] = cell]

PutIn(row, p, cell) == [row EXCEPT !.cells[p] = cell]

LEMMA CellPutIn ==
  ASSUME NEW row \in Row, NEW p \in AllPorts, NEW cell \in PropCells, NEW new, new = PutIn(row, p, cell)
  PROVE  /\ new \in Row /\ new.saved = row.saved /\ new.cells[p] = cell
         /\ \A q \in AllPorts : q # p => new.cells[q] = row.cells[q]
<1>1. row.cells \in [AllPorts -> PropCells] /\ row.saved \in [AllPorts -> Entries]
  BY DEF Row
<1>2. PICK cells : cells = [row.cells EXCEPT ![p] = cell]
  OBVIOUS
<1>3. /\ cells \in [AllPorts -> PropCells] /\ cells[p] = cell
      /\ \A q \in AllPorts : q # p => cells[q] = row.cells[q]
  BY <1>1, <1>2
<1>4. new = [row EXCEPT !.cells = cells]
  BY <1>2 DEF PutIn
<1>5. new \in Row /\ new.saved = row.saved /\ new.cells = cells
  BY <1>3, <1>4 DEF Row
<1>6. QED
  BY <1>3, <1>5

OneCell(rows, new, r, p, cell) ==
  /\ new \in Seq(Row) /\ DOMAIN new = DOMAIN rows
  /\ \A o \in DOMAIN rows : new[o].saved = rows[o].saved
  /\ new[r].cells[p] = cell
  /\ \A o \in DOMAIN rows : \A q \in AllPorts :
       ~(o = r /\ q = p) => new[o].cells[q] = rows[o].cells[q]

LEMMA CellPut ==
  ASSUME NEW rows \in Seq(Row), NEW r \in DOMAIN rows, NEW p \in AllPorts, NEW cell \in PropCells,
         NEW new, new = PutCell(rows, r, p, cell)
  PROVE  OneCell(rows, new, r, p, cell)
<1>1. PICK row : row = rows[r]
  OBVIOUS
<1>2. PICK row2 : row2 = PutIn(row, p, cell)
  OBVIOUS
<1>3. row \in Row
  BY <1>1, RowIs
<1>4. /\ row2 \in Row /\ row2.saved = row.saved /\ row2.cells[p] = cell
      /\ \A q \in AllPorts : q # p => row2.cells[q] = row.cells[q]
  BY <1>2, <1>3, CellPutIn
<1>5. new = [rows EXCEPT ![r] = row2]
  BY <1>1, <1>2 DEF PutCell, PutIn
<1>6. new \in Seq(Row) /\ DOMAIN new = DOMAIN rows /\ new[r] = row2
  BY <1>4, <1>5
<1>7. \A o \in DOMAIN rows : o # r => new[o] = rows[o]
  BY <1>5
<1>8. QED
  BY <1>1, <1>4, <1>6, <1>7 DEF OneCell

Others(rows, r, p) == {o \in DOMAIN rows \ {r} : Contains(getValue(rows[o].cells[p]), "*")}

OneYields(rows, new, r, p) ==
  /\ new \in Seq(Row) /\ DOMAIN new = DOMAIN rows
  /\ \A o \in DOMAIN rows : new[o].saved = rows[o].saved
  /\ \A o \in DOMAIN rows : \A q \in AllPorts :
       Primary(getValue(new[o].cells[q])) => Primary(getValue(rows[o].cells[q]))
  /\ Others(rows, r, p) # {} =>
       \E o \in Others(rows, r, p) : ~Primary(getValue(new[o].cells[p]))

LEMMA ClearOther ==
  ASSUME NEW rows \in Seq(Row), NEW r \in DOMAIN rows, NEW p \in AllPorts, NEW new, new = clearPrimary(rows, r, p)
  PROVE  OneYields(rows, new, r, p)
<1>1. PICK T : T = Others(rows, r, p)
  OBVIOUS
<1>2. CASE T = {}
  <2>1. new = rows
    BY <1>1, <1>2 DEF clearPrimary, Others
  <2>2. QED
    BY <1>1, <1>2, <2>1 DEF OneYields
<1>3. CASE T # {}
  <2>1. PICK o : o = CHOOSE a \in T : \A b \in T : a <= b
    OBVIOUS
  <2>2. T \subseteq Nat
    BY <1>1 DEF Others
  <2>3. o \in T
    BY <1>3, <2>1, <2>2, ParseFold!Least
  <2>4. o \in DOMAIN rows /\ Primary(getValue(rows[o].cells[p]))
    BY <1>1, <2>3 DEF Others, Primary
  <2>5. PICK c : c = rows[o].cells[p]
    OBVIOUS
  <2>6. c \in PropCells /\ Primary(getValue(c))
    BY <2>4, <2>5, RowIs
  <2>7. PICK d : d = setValue(c, Without(getValue(c), {"*"}))
    OBVIOUS
  <2>8. d \in PropCells /\ ~Primary(getValue(d))
    BY <2>6, <2>7, CellCleared
  <2>9. new = PutCell(rows, o, p, d)
    BY <1>1, <1>3, <2>1, <2>5, <2>7 DEF clearPrimary, Others, PutCell
  <2>10. OneCell(rows, new, o, p, d)
    BY <2>4, <2>8, <2>9, CellPut
  <2>11. /\ new \in Seq(Row) /\ DOMAIN new = DOMAIN rows /\ new[o].cells[p] = d
         /\ \A a \in DOMAIN rows : new[a].saved = rows[a].saved
    BY <2>10 DEF OneCell
  <2>12. ASSUME NEW a \in DOMAIN rows, NEW q \in AllPorts, Primary(getValue(new[a].cells[q]))
         PROVE  Primary(getValue(rows[a].cells[q]))
    <3>1. ~(a = o /\ q = p)
      BY <2>8, <2>11, <2>12
    <3>2. new[a].cells[q] = rows[a].cells[q]
      BY <2>10, <3>1 DEF OneCell
    <3>3. QED
      BY <2>12, <3>2
  <2>13. \E a \in T : ~Primary(getValue(new[a].cells[p]))
    BY <2>3, <2>8, <2>11
  <2>14. QED
    BY <1>1, <2>11, <2>12, <2>13 DEF OneYields
<1>4. QED
  BY <1>2, <1>3

Clicked(v, r, p, k) ==
  LET cell == toggleState(v.rows[r].cells[p], k)
      rows == PutCell(v.rows, r, p, cell)
  IN  [v EXCEPT !.rows = IF States[k] = "*" /\ cell.items[k].sel THEN clearPrimary(rows, r, p) ELSE rows]

LEMMA SameSaves ==
  ASSUME NEW v, TableOk(v), NEW rows \in Seq(Row), DOMAIN rows = DOMAIN v.rows,
         \A o \in DOMAIN v.rows : rows[o].saved = v.rows[o].saved,
         ~v.refused => CellsUnique(rows), NEW w, w = [v EXCEPT !.rows = rows]
  PROVE  TableOk(w)
<1>1. v \in Table
  BY DEF TableOk
<1>2. /\ w \in Table /\ w.rows = rows /\ w.checked = v.checked /\ w.ports = v.ports
      /\ w.refused = v.refused /\ w.slipped = v.slipped
  BY <1>1, TableRows
<1>3. SavedOk(w)
  BY <1>2 DEF SavedOk, TableOk
<1>4. v.checked => Untagged(rows)
  BY DEF TableOk, Untagged
<1>5. ~v.refused => SavedUnique(rows)
  BY DEF TableOk, SavedUnique
<1>6. QED
  BY <1>2, <1>3, <1>4, <1>5 DEF TableOk

LEMMA ClickedIs ==
  ASSUME NEW v, TableOk(v), NEW r \in DOMAIN v.rows, NEW p \in v.ports, NEW k \in 1 .. 4
  PROVE  TableOk(Clicked(v, r, p, k))
<1>1. v \in Table /\ v.rows \in Seq(Row) /\ p \in AllPorts
  BY TableIs DEF TableOk
<1>2. PICK c : c = v.rows[r].cells[p]
  OBVIOUS
<1>3. PICK d : d = toggleState(c, k)
  OBVIOUS
<1>4. c \in PropCells
  BY <1>1, <1>2, RowIs
<1>5. /\ d \in PropCells /\ (d.items[4].sel <=> Primary(getValue(d)))
      /\ k # 4 /\ Primary(getValue(d)) => Primary(getValue(c))
  BY <1>3, <1>4, CellClicked
<1>6. PICK rows : rows = PutCell(v.rows, r, p, d)
  OBVIOUS
<1>x. OneCell(v.rows, rows, r, p, d)
  BY <1>1, <1>5, <1>6, CellPut
<1>7. /\ rows \in Seq(Row) /\ DOMAIN rows = DOMAIN v.rows
      /\ \A o \in DOMAIN v.rows : rows[o].saved = v.rows[o].saved
      /\ rows[r].cells[p] = d
      /\ \A o \in DOMAIN v.rows : \A q \in AllPorts :
           ~(o = r /\ q = p) => rows[o].cells[q] = v.rows[o].cells[q]
  BY <1>x DEF OneCell
<1>8. States[k] = "*" <=> k = 4
  <2>1. k = 1 \/ k = 2 \/ k = 3 \/ k = 4
    OBVIOUS
  <2>2. QED
    BY <2>1, StatesAre
<1>9. CASE k = 4 /\ d.items[k].sel
  <2>1. PICK new : new = clearPrimary(rows, r, p)
    OBVIOUS
  <2>0. OneYields(rows, new, r, p)
    BY <1>1, <1>7, <2>1, ClearOther
  <2>2. /\ new \in Seq(Row) /\ DOMAIN new = DOMAIN rows
        /\ \A o \in DOMAIN rows : new[o].saved = rows[o].saved
        /\ \A o \in DOMAIN rows : \A q \in AllPorts :
             Primary(getValue(new[o].cells[q])) => Primary(getValue(rows[o].cells[q]))
        /\ Others(rows, r, p) # {} =>
             \E o \in Others(rows, r, p) : ~Primary(getValue(new[o].cells[p]))
    BY <2>0 DEF OneYields
  <2>3. ASSUME ~v.refused PROVE CellsUnique(new)
    <3>1. CellsUnique(v.rows)
      BY <2>3 DEF TableOk
    <3>2. SUFFICES ASSUME NEW a \in DOMAIN rows, NEW b \in DOMAIN rows, NEW q \in AllPorts,
                          Primary(getValue(new[a].cells[q])), Primary(getValue(new[b].cells[q]))
                   PROVE  a = b
      BY <2>2 DEF CellsUnique
    <3>3. Primary(getValue(rows[a].cells[q])) /\ Primary(getValue(rows[b].cells[q]))
      BY <2>2, <3>2
    <3>4. CASE q # p \/ (a # r /\ b # r)
      BY <1>7, <3>1, <3>3, <3>4 DEF CellsUnique
    <3>5. CASE q = p /\ (a = r \/ b = r) /\ a # b
      <4>1. \A o \in Others(rows, r, p) : o \in DOMAIN rows /\ o # r /\ Primary(getValue(v.rows[o].cells[p]))
        <5>1. SUFFICES ASSUME NEW o \in Others(rows, r, p)
                       PROVE  o \in DOMAIN rows /\ o # r /\ Primary(getValue(v.rows[o].cells[p]))
          OBVIOUS
        <5>2. o \in DOMAIN rows /\ o # r /\ Primary(getValue(rows[o].cells[p]))
          BY DEF Others, Primary
        <5>3. rows[o].cells[p] = v.rows[o].cells[p]
          BY <1>1, <1>7, <5>2
        <5>4. QED
          BY <5>2, <5>3
      <4>2. \A o, s \in Others(rows, r, p) : o = s
        BY <1>1, <1>7, <3>1, <4>1 DEF CellsUnique
      <4>3. PICK o : o \in {a, b} /\ o # r
        BY <3>5
      <4>4. o \in Others(rows, r, p) /\ Primary(getValue(new[o].cells[p]))
        BY <3>2, <3>3, <3>5, <4>3 DEF Others, Primary
      <4>5. QED
        BY <2>2, <4>2, <4>4
    <3>6. QED
      BY <3>4, <3>5
  <2>4. Clicked(v, r, p, k) = [v EXCEPT !.rows = new]
    BY <1>2, <1>3, <1>6, <1>8, <1>9, <2>1 DEF Clicked
  <2>5. QED
    BY <1>7, <2>2, <2>3, <2>4, SameSaves
<1>10. CASE ~(k = 4 /\ d.items[k].sel)
  <2>1. Primary(getValue(d)) => Primary(getValue(c))
    BY <1>5, <1>10
  <2>2. ASSUME ~v.refused PROVE CellsUnique(rows)
    <3>1. CellsUnique(v.rows)
      BY <2>2 DEF TableOk
    <3>2. \A o \in DOMAIN rows : \A q \in AllPorts :
            Primary(getValue(rows[o].cells[q])) => Primary(getValue(v.rows[o].cells[q]))
      BY <1>2, <1>7, <2>1
    <3>3. QED
      BY <1>7, <3>1, <3>2 DEF CellsUnique
  <2>3. Clicked(v, r, p, k) = [v EXCEPT !.rows = rows]
    BY <1>2, <1>3, <1>6, <1>8, <1>10 DEF Clicked
  <2>4. QED
    BY <1>7, <2>2, <2>3, SameSaves
<1>11. QED
  BY <1>9, <1>10

(* Another choice of ports in the bridge dialog *)
WithPorts(v, ports, rows) == [v EXCEPT !.ports = ports, !.rows = rows]
WithSlipped(v, rows, slipped) == [v EXCEPT !.rows = rows, !.slipped = slipped]

LEMMA TablePorts ==
  ASSUME NEW v \in Table, NEW rows \in Seq(Row), NEW ports \in SUBSET AllPorts,
         NEW w, w = WithPorts(v, ports, rows)
  PROVE  /\ w \in Table /\ w.rows = rows /\ w.checked = v.checked /\ w.ports = ports
         /\ w.refused = v.refused /\ w.slipped = v.slipped
  BY DEF Table, WithPorts

LEMMA TableSlipped ==
  ASSUME NEW v \in Table, NEW rows \in Seq(Row), NEW slipped \in BOOLEAN,
         NEW w, w = WithSlipped(v, rows, slipped)
  PROVE  /\ w \in Table /\ w.rows = rows /\ w.checked = v.checked /\ w.ports = v.ports
         /\ w.refused = v.refused /\ w.slipped = slipped
  BY DEF Table, WithSlipped

LEMMA SaveRowsIs ==
  ASSUME NEW rows \in Seq(Row), NEW saved, \A r \in DOMAIN rows : saved[r] \in [AllPorts -> Entries],
         NEW new, new = SaveRows(rows, saved)
  PROVE  /\ new \in Seq(Row) /\ DOMAIN new = DOMAIN rows
         /\ \A r \in DOMAIN rows : new[r].saved = saved[r] /\ new[r].cells = rows[r].cells
<1>1. DOMAIN new = DOMAIN rows /\ new = [r \in DOMAIN rows |-> new[r]]
  BY DEF SaveRows
<1>2. \A r \in DOMAIN rows : new[r] = SavedRow(rows[r], saved[r])
  BY DEF SaveRows, SavedRow
<1>3. \A r \in DOMAIN rows : new[r] \in Row /\ new[r].saved = saved[r] /\ new[r].cells = rows[r].cells
  BY <1>2, RowIs, RowSavedIs
<1>4. Len(rows) \in Nat /\ DOMAIN rows = 1 .. Len(rows)
  OBVIOUS
<1>5. new \in Seq(Row)
  BY <1>1, <1>3, <1>4, RowsAre
<1>6. QED
  BY <1>1, <1>3, <1>5

Updated(old, ports, v) ==
  /\ v \in Table /\ v.ports = ports /\ DOMAIN v.rows = DOMAIN old.rows
  /\ v.checked = old.checked /\ v.refused = old.refused /\ v.slipped = old.slipped
  /\ \A r \in DOMAIN old.rows :
       v.rows[r].cells = old.rows[r].cells /\ v.rows[r].saved = StillIn(old.rows[r].saved, ports)

LEMMA UpdateIs ==
  ASSUME NEW old \in Table, NEW ports \in SUBSET AllPorts
  PROVE  Updated(old, ports, updatePorts(old, ports))
<1>1. PICK rows \in Seq(Row) : rows = old.rows
  BY TableIs
<1>2. PICK saved : saved = [r \in DOMAIN rows |-> StillIn(rows[r].saved, ports)]
  OBVIOUS
<1>3. Absent \in Entries
  BY DEF Entries
<1>4. \A r \in DOMAIN rows : saved[r] = StillIn(rows[r].saved, ports) /\ saved[r] \in [AllPorts -> Entries]
  BY <1>2, <1>3, RowIs DEF StillIn
<1>5. PICK new : new = SaveRows(rows, saved)
  OBVIOUS
<1>6. /\ new \in Seq(Row) /\ DOMAIN new = DOMAIN rows
      /\ \A r \in DOMAIN rows : new[r].saved = saved[r] /\ new[r].cells = rows[r].cells
  BY <1>4, <1>5, SaveRowsIs
<1>7. PICK w : w = updatePorts(old, ports)
  OBVIOUS
<1>8. w = WithPorts(old, ports, new)
  BY <1>1, <1>2, <1>5, <1>7 DEF updatePorts, WithPorts
<1>9. /\ w \in Table /\ w.rows = new /\ w.checked = old.checked /\ w.ports = ports
      /\ w.refused = old.refused /\ w.slipped = old.slipped
  BY <1>6, <1>8, TablePorts
<1>10. QED
  BY <1>1, <1>4, <1>6, <1>7, <1>9 DEF Updated

DrawnOf(old, ports) == ports \cap old.ports
Dirty(old, ports, v) == {r \in DOMAIN v.rows : Changed(v.rows[r], DrawnOf(old, ports)) # {}}
NewSaved(old, ports, v, r) ==
  [p \in AllPorts |-> IF p \in DrawnOf(old, ports) THEN Encode(getValue(v.rows[r].cells[p]))
                      ELSE IF p \in ports THEN <<>> ELSE Absent]

LEMMA ParsePortsIs ==
  ASSUME NEW old, TableOk(old), ~old.checked, NEW ports \in SUBSET AllPorts
  PROVE  Base(parsePorts(old, ports)) /\ SavesOk(parsePorts(old, ports))
<1>1. old \in Table /\ old.rows \in Seq(Row) /\ SavedOk(old)
  BY TableIs DEF TableOk
<1>2. PICK v : v = updatePorts(old, ports)
  OBVIOUS
<1>3. Updated(old, ports, v)
  BY <1>1, <1>2, UpdateIs
<1>4. /\ v \in Table /\ v.ports = ports /\ DOMAIN v.rows = DOMAIN old.rows
      /\ v.checked = old.checked /\ v.refused = old.refused /\ v.slipped = old.slipped
  BY <1>3 DEF Updated
<1>5. v.rows \in Seq(Row) /\ v.slipped \in BOOLEAN
  BY <1>4, TableIs
<1>6. PICK drawn : drawn = DrawnOf(old, ports)
  OBVIOUS
<1>7. PICK dirty : dirty = Dirty(old, ports, v)
  OBVIOUS
<1>8. PICK saved : saved = [r \in DOMAIN v.rows |-> IF r \notin dirty THEN v.rows[r].saved
                                                    ELSE NewSaved(old, ports, v, r)]
  OBVIOUS
<1>9. \A r \in DOMAIN v.rows : \A p \in AllPorts :
        /\ getValue(v.rows[r].cells[p]) \in CellValues
        /\ Encode(getValue(v.rows[r].cells[p])) \in Entries /\ Encode(getValue(v.rows[r].cells[p])) # <<>>
        /\ cfgvalue(Encode(getValue(v.rows[r].cells[p]))) = getValue(v.rows[r].cells[p])
  BY <1>5, RowIs, CellShows, EncodeIs
<1>10. \A r \in DOMAIN v.rows : saved[r] \in [AllPorts -> Entries]
  <2>1. SUFFICES ASSUME NEW r \in DOMAIN v.rows PROVE saved[r] \in [AllPorts -> Entries]
    OBVIOUS
  <2>2. CASE r \notin dirty
    BY <1>5, <1>8, <2>2, RowIs
  <2>3. CASE r \in dirty
    <3>1. Absent \in Entries /\ <<>> \in Entries
      BY DEF Entries
    <3>2. NewSaved(old, ports, v, r) \in [AllPorts -> Entries]
      BY <1>9, <3>1 DEF NewSaved
    <3>3. QED
      BY <1>8, <2>3, <3>2
  <2>4. QED
    BY <2>2, <2>3
<1>11. PICK new : new = SaveRows(v.rows, saved)
  OBVIOUS
<1>12. /\ new \in Seq(Row) /\ DOMAIN new = DOMAIN v.rows
       /\ \A r \in DOMAIN v.rows : new[r].saved = saved[r] /\ new[r].cells = v.rows[r].cells
  BY <1>5, <1>10, <1>11, SaveRowsIs
<1>13. PICK slipped \in BOOLEAN : slipped = (v.slipped \/ (dirty # {} /\ ports \ drawn # {}))
  OBVIOUS
<1>14. PICK w : w = parsePorts(old, ports)
  OBVIOUS
<1>15. w = WithSlipped(v, new, slipped)
  BY <1>2, <1>6, <1>7, <1>8, <1>11, <1>13, <1>14 DEF parsePorts, DrawnOf, Dirty, NewSaved, WithSlipped
<1>16. /\ w \in Table /\ w.rows = new /\ w.checked = v.checked /\ w.ports = ports
       /\ w.refused = v.refused /\ w.slipped = slipped
  BY <1>4, <1>12, <1>15, TableSlipped
<1>17. ASSUME NEW r \in DOMAIN v.rows, NEW p \in AllPorts
       PROVE  /\ p \notin ports => saved[r][p] = Absent
              /\ saved[r][p] = <<>> => slipped
              /\ Primary(cfgvalue(saved[r][p])) => Primary(getValue(old.rows[r].cells[p]))
  <2>0. Absent # <<>> /\ ~Primary(cfgvalue(Absent)) /\ ~Primary(cfgvalue(<<>>))
    BY CfgIs, PrimaryIs DEF Absent
  <2>1. v.rows[r].cells = old.rows[r].cells
    BY <1>3, <1>4 DEF Updated
  <2>2. CASE r \notin dirty
    <3>1. saved[r][p] = StillIn(old.rows[r].saved, ports)[p] /\ saved[r] = v.rows[r].saved
      BY <1>3, <1>4, <1>8, <2>2 DEF Updated
    <3>2. saved[r][p] = IF p \in ports /\ old.rows[r].saved[p] # <<>> THEN old.rows[r].saved[p] ELSE Absent
      BY <3>1 DEF StillIn
    <3>3. saved[r][p] # <<>> /\ (p \notin ports => saved[r][p] = Absent)
      BY <2>0, <3>2
    <3>4. CASE p \in drawn
      <4>1. getValue(v.rows[r].cells[p]) = cfgvalue(v.rows[r].saved[p])
        BY <1>6, <1>7, <2>2, <3>4 DEF Dirty, Changed
      <4>2. QED
        BY <2>1, <3>1, <3>3, <4>1
    <3>5. CASE p \notin drawn
      <4>1. saved[r][p] = Absent
        BY <1>1, <1>4, <1>6, <3>2, <3>5 DEF SavedOk, DrawnOf
      <4>2. QED
        BY <2>0, <4>1
    <3>6. QED
      BY <3>4, <3>5
  <2>3. CASE r \in dirty
    <3>1. saved[r][p] = IF p \in drawn THEN Encode(getValue(v.rows[r].cells[p]))
                        ELSE IF p \in ports THEN <<>> ELSE Absent
      BY <1>6, <1>8, <2>3 DEF NewSaved
    <3>2. CASE p \in drawn
      BY <1>6, <1>9, <2>1, <3>1, <3>2 DEF DrawnOf
    <3>3. CASE p \in ports \ drawn
      <4>1. saved[r][p] = <<>> /\ slipped
        BY <1>13, <2>3, <3>1, <3>3
      <4>2. QED
        BY <2>0, <3>3, <4>1
    <3>4. CASE p \notin ports
      <4>1. saved[r][p] = Absent
        BY <1>6, <3>1, <3>4 DEF DrawnOf
      <4>2. QED
        BY <2>0, <4>1
    <3>5. QED
      BY <3>2, <3>3, <3>4
  <2>4. QED
    BY <2>2, <2>3
<1>18. SavedOk(w)
  BY <1>4, <1>12, <1>16, <1>17 DEF SavedOk
<1>19. SavesOk(w)
  <2>1. SUFFICES ASSUME ~w.refused PROVE SavedUnique(w.rows)
    BY DEF SavesOk
  <2>2. CellsUnique(old.rows)
    BY <1>4, <1>16, <2>1 DEF TableOk
  <2>3. QED
    BY <1>4, <1>12, <1>16, <1>17, <2>2 DEF SavedUnique, CellsUnique
<1>20. Base(w)
  BY <1>4, <1>16, <1>18 DEF Base
<1>21. QED
  BY <1>14, <1>19, <1>20

-----------------------------------------------------------------------------
LEMMA VlanInitial == ElementsInit => VlanOk
<1>1. SUFFICES ASSUME VlanInit PROVE TableOk(vlan)
  BY DEF ElementsInit, VlanOk
<1>2. PICK checked \in BOOLEAN, ports \in (SUBSET AllPorts) \ {{}} :
        vlan = [checked |-> checked, ports |-> ports, rows |-> <<>>, refused |-> FALSE, slipped |-> FALSE]
  BY <1>1 DEF VlanInit
<1>3. PICK no \in BOOLEAN : no = FALSE
  OBVIOUS
<1>4. PICK none : none = <<>> /\ none \in Seq(Row) /\ DOMAIN none = {}
  <2>1. <<>> \in Seq(Row) /\ DOMAIN <<>> = {}
    OBVIOUS
  <2>2. QED
    BY <2>1
<1>5. vlan = [checked |-> checked, ports |-> ports, rows |-> none, refused |-> no, slipped |-> no]
  BY <1>2, <1>3, <1>4
<1>6. vlan \in Table /\ vlan.rows = none
  BY <1>4, <1>5 DEF Table
<1>7. QED
  BY <1>4, <1>6 DEF TableOk, SavedOk, CellsUnique, SavedUnique, Untagged

LEMMA VlanStep ==
  ASSUME TableOk(vlan), VlanNext
  PROVE  TableOk(vlan')
<1>1. Base(vlan) /\ CellsOk(vlan) /\ SavesOk(vlan)
  BY TableParts
<1>2. ASSUME NEW r \in DOMAIN vlan.rows, NEW p \in vlan.ports, NEW k \in DOMAIN States, ClickState(r, p, k)
      PROVE  TableOk(vlan')
  <2>1. k \in 1 .. 4
    BY StatesAre
  <2>2. vlan' = Clicked(vlan, r, p, k)
    BY <1>2 DEF ClickState, Clicked, PutCell
  <2>3. QED
    BY <2>1, <2>2, ClickedIs
<1>3. CASE VlanSave
  <2>1. Base(parse(vlan)) /\ SavesOk(parse(vlan))
    BY <1>1, ParseIs
  <2>2. QED
    BY <1>3, <2>1, ShownIs DEF VlanSave
<1>4. CASE VlanReset
  BY <1>1, <1>4, ShownIs DEF VlanReset
<1>5. CASE VlanAdd
  <2>1. CASE vlan.checked
    <3>1. vlan' = Redrawn(parse(RowAdded(vlan)))
      BY <1>5, <2>1 DEF VlanAdd, RowAdded
    <3>2. Base(RowAdded(vlan)) /\ CellsOk(RowAdded(vlan))
      BY <1>1, RowAddedIs
    <3>3. Base(parse(RowAdded(vlan))) /\ SavesOk(parse(RowAdded(vlan)))
      BY <3>2, ParseIs
    <3>4. QED
      BY <3>1, <3>3, ShownIs
  <2>2. CASE ~vlan.checked
    <3>1. vlan' = Redrawn(RowAdded(parse(vlan)))
      BY <1>5, <2>2 DEF VlanAdd, RowAdded
    <3>2. Base(parse(vlan)) /\ SavesOk(parse(vlan))
      BY <1>1, ParseIs
    <3>3. Base(RowAdded(parse(vlan))) /\ SavesOk(RowAdded(parse(vlan)))
      BY <3>2, RowAddedIs
    <3>4. QED
      BY <3>1, <3>3, ShownIs
  <2>3. QED
    BY <2>1, <2>2
<1>6. ASSUME NEW r \in DOMAIN vlan.rows, VlanRemove(r)
      PROVE  TableOk(vlan')
  <2>1. vlan' = Redrawn(parse(RowGone(vlan, r)))
    BY <1>6 DEF VlanRemove, RowGone
  <2>2. Base(RowGone(vlan, r)) /\ CellsOk(RowGone(vlan, r))
    BY <1>1, RowGoneIs
  <2>3. Base(parse(RowGone(vlan, r))) /\ SavesOk(parse(RowGone(vlan, r)))
    BY <2>2, ParseIs
  <2>4. QED
    BY <2>1, <2>3, ShownIs
<1>7. ASSUME NEW ports \in (SUBSET AllPorts) \ {{}}, SetPorts(ports)
      PROVE  TableOk(vlan')
  <2>1. Base(parsePorts(vlan, ports)) /\ SavesOk(parsePorts(vlan, ports))
    BY <1>7, ParsePortsIs DEF SetPorts
  <2>2. QED
    BY <1>7, <2>1, ShownIs DEF SetPorts
<1>8. QED
  BY <1>2, <1>3, <1>4, <1>5, <1>6, <1>7 DEF VlanNext

LEMMA VlanShows ==
  ASSUME NEW v, TableOk(v)
  PROVE  CellsConsistent(v) /\ UntaggedApart(v)
<1>1. v \in Table /\ v.rows \in Seq(Row) /\ v.ports \in SUBSET AllPorts /\ SavedOk(v)
  BY TableIs DEF TableOk
<1>2. ASSUME NEW r \in DOMAIN v.rows, NEW p \in v.ports, NEW c, c = v.rows[r].cells[p]
      PROVE  /\ getValue(c) \in CellValues /\ BoxConsistent(c)
             /\ c.items[4].un <=> getValue(c) = <<"-">>
             /\ v.rows[r].saved[p] = <<>> => v.slipped
             /\ ~v.refused => \A o \in DOMAIN v.rows \ {r} :
                  ~(Contains(getValue(c), "*") /\ Contains(getValue(v.rows[o].cells[p]), "*"))
  <2>1. c \in PropCells
    BY <1>1, <1>2, RowIs
  <2>2. /\ getValue(c) \in CellValues /\ BoxConsistent(c)
        /\ c.items[4].un <=> getValue(c) = <<"-">>
    BY <2>1, CellShows
  <2>3. v.rows[r].saved[p] = <<>> => v.slipped
    BY <1>1 DEF SavedOk
  <2>4. ~v.refused => \A o \in DOMAIN v.rows \ {r} :
          ~(Contains(getValue(c), "*") /\ Contains(getValue(v.rows[o].cells[p]), "*"))
    BY <1>1, <1>2 DEF TableOk, CellsUnique, Primary
  <2>5. QED
    BY <2>2, <2>3, <2>4
<1>3. CellsConsistent(v)
  BY <1>2 DEF CellsConsistent, CellValues
<1>4. UntaggedApart(v)
  <2>1. SUFFICES ASSUME v.checked, NEW p \in v.ports, NEW r \in UntaggedIn(v, p), NEW o \in UntaggedIn(v, p), r # o
                 PROVE  Primary(v.rows[r].saved[p]) <=> ~Primary(v.rows[o].saved[p])
    BY DEF UntaggedApart, Primary
  <2>2. PICK e, d : e = v.rows[r].saved[p] /\ d = v.rows[o].saved[p]
    OBVIOUS
  <2>3. r \in DOMAIN v.rows /\ o \in DOMAIN v.rows /\ p \in AllPorts
    BY <1>1 DEF UntaggedIn
  <2>4. e \in Entries /\ d \in Entries
    BY <1>1, <2>2, <2>3, RowIs
  <2>5. e # <<>> /\ d # <<>>
    BY <1>1, <2>1, <2>2, <2>3 DEF SavedOk
  <2>6. e # Absent /\ d # Absent /\ ~Contains(e, "t") /\ ~Contains(d, "t")
    BY <2>2 DEF UntaggedIn
  <2>7. e # d
    BY <2>1, <2>2, <2>3, <2>6 DEF TableOk, Untagged
  <2>8. {e, d} \subseteq {Bare, <<"u", "*">>}
    BY <2>4, <2>5, <2>6, ContainsIs DEF Entries
  <2>9. ~Primary(Bare) /\ Primary(<<"u", "*">>)
    BY ContainsIs DEF Primary, Bare
  <2>10. QED
    BY <2>2, <2>7, <2>8, <2>9
<1>5. QED
  BY <1>3, <1>4

(* On a VLAN table with any ports and any number of rows, a cell is always in *)
(* one of its five states and its box shows the one it is in; a port is       *)
(* primary in at most one row unless a save was refused (toggleItem of        *)
(* 8021q.js takes the mark from the other rows); and the page that checks it  *)
(* never saves a port untagged in two rows with the same primary mark         *)
(* (cbiTagValue.write).                                                       *)
THEOREM PortsAreAlwaysConsistent == ElementsSpec => []PortsConsistent
<1>1. ElementsInit => VlanOk
  BY VlanInitial
<1>2. VlanOk /\ [ElementsNext]_elementVars => VlanOk'
  <2>1. CASE UNCHANGED elementVars
    BY <2>1 DEF VlanOk, TableOk, SavedOk, elementVars
  <2>2. CASE ElementsNext
    BY <2>2, VlanStep DEF ElementsNext, VlanOk
  <2>3. QED
    BY <2>1, <2>2
<1>3. VlanOk => PortsConsistent
  BY VlanShows DEF VlanOk, PortsConsistent
<1>4. QED
  BY <1>1, <1>2, <1>3, PTL DEF ElementsSpec
=============================================================================
