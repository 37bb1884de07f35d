------------------------------ MODULE LuciPage ------------------------------
(***************************************************************************)
(* The life of a page of the web interface: loading of the classes and the *)
(* start of the page (LuCI.__init__, setupDOM, initDOM), remote calls      *)
(* collected into batches (Request, rpc), polling (Poll) and the handling  *)
(* of an expired session.                                                  *)
(*                                                                         *)
(* A call is named after its owner, who has at most one outstanding: the   *)
(* two calls of setupDOM, the load function of the view, and the functions *)
(* registered for polling.  A refused call is followed by a probe of the   *)
(* session on its behalf.  The menu is an HTTP request of its own, to a    *)
(* URL that wants a login.                                                 *)
(***************************************************************************)
EXTENDS LuciLoader

CONSTANTS
    Core,       \* classes LuCI.__init__ requires
    ViewClass,  \* class of the view, required when class "ui" is ready
    Preload,    \* classes of the directory "preload"
    PollOf,     \* the function a class registers for polling, once it is shown
    Interval,   \* seconds between calls of a function
    Forbidden,  \* owners whose call is refused although the session is valid
    TickMod,    \* range of Poll.tick (2^32 in the code)
    MaxFail     \* bound on lost requests

Polls == {PollOf[c] : c \in {ViewClass} \cup Preload}
Owners == {"features", "preload", "view"} \cup Polls

ASSUME PageAssumption ==
    /\ Core \cup Preload \cup {ViewClass} \subseteq Classes /\ "ui" \in Core
    /\ PollOf \in [{ViewClass} \cup Preload -> STRING]
    /\ Interval \in [Polls -> Nat \ {0}]
    /\ TickMod \in Nat \ {0} /\ MaxFail \in Nat

VARIABLES
    phase,      \* start of the page
    view,       \* the view: its load function, then its content
    menuRequest, \* UIMenu.load; "stuck": its promise is never settled
    call,       \* the call of every owner
    queue,      \* requestQueue
    flights,    \* batches sent and not answered
    poll,       \* the object Poll, and whether the user paused it
    session,    \* the server's session is valid
    modal,      \* "Session expired" is shown
    fails       \* lost requests, and whether a probe was among them

vars == <<classes, phase, view, menuRequest, call, queue, flights, poll, session, modal, fails>>

NoTick == -1
Call == [st : {"idle", "called", "checking"}, result : Owners \cup {"none", "error"}]
Request == [owner : Owners, probe : BOOLEAN]
Polling == [queue : Seq([fn : Polls, r : BOOLEAN]), tick : {NoTick} \cup 0..TickMod - 1,
            active : BOOLEAN, paused : BOOLEAN]

(* Type invariant of the page, and of the page with its loader. *)
PageTypeOK ==
    /\ phase \in {"boot", "setup", "preload", "run", "error"}
    /\ view \in {"none", "loading", "shown", "error"}
    /\ menuRequest \in {"none", "asked", "done", "stuck"}
    /\ call \in [Owners -> Call]
    /\ queue \in Seq(Request) /\ flights \subseteq Seq(Request)
    /\ poll \in Polling
    /\ session \in BOOLEAN /\ modal \in BOOLEAN
    /\ fails \in [n : 0..MaxFail, probe : BOOLEAN]

TypeOK == LoaderTypeOK /\ PageTypeOK

-----------------------------------------------------------------------------
(* Calls.  The part of the page a call changes is a record                 *)
(* w = [call, queue, poll, modal].                                         *)

World == [call |-> call, queue |-> queue, poll |-> poll, modal |-> modal]
Becomes(w) == call' = w.call /\ queue' = w.queue /\ poll' = w.poll /\ modal' = w.modal

(* Request.request of a remote call: it waits for the next animation frame *)
request(w, o, probe) == [w EXCEPT !.queue = Append(@, [owner |-> o, probe |-> probe])]

(* rpc.declare(...)() *)
Issue(w, o) ==
    [request(w, o, FALSE) EXCEPT !.call[o] = [st |-> "called", result |-> "none"]]

(* The promise of a call settles; that of a polled function sets r again *)
Settle(w, o, res) ==
    [w EXCEPT !.call[o] = [st |-> "idle", result |-> res],
              !.poll.queue = [i \in DOMAIN @ |-> IF @[i].fn = o THEN [@[i] EXCEPT !.r = TRUE]
                                                 ELSE @[i]]]

(* Poll.step: functions whose interval has passed and that are not running *)
Due(w, e) == e.r /\ w.poll.tick % Interval[e.fn] = 0

Step(w) ==
    LET called == FoldLeft(LAMBDA x, e : IF Due(w, e) THEN Issue(x, e.fn) ELSE x, w, w.poll.queue)
    IN  [called EXCEPT
            !.poll.queue = [i \in DOMAIN @ |-> IF Due(w, @[i]) THEN [@[i] EXCEPT !.r = FALSE]
                                               ELSE @[i]],
            !.poll.tick = (@ + 1) % TickMod]

MutStartOnlyWithQueue(w) ==
    IF w.poll.active \/ w.poll.queue = <<>> THEN w
    ELSE Step([w EXCEPT !.poll.tick = 0, !.poll.active = TRUE])

(* Poll.start: without a function there is no timer yet, but a tick *)
PollStart(w) ==
    IF w.poll.active THEN w
    ELSE IF w.poll.queue = <<>> THEN [w EXCEPT !.poll.tick = 0]
    ELSE Step([w EXCEPT !.poll.tick = 0, !.poll.active = TRUE])

(* Poll.stop *)
PollStop(w) ==
    IF w.poll.active THEN [w EXCEPT !.poll.active = FALSE, !.poll.tick = NoTick] ELSE w

(* Poll.add(fn) *)
PollAdd(w, fn) ==
    LET a == [w EXCEPT !.poll.queue = Append(@, [fn |-> fn, r |-> TRUE])]
    IN  IF w.poll.tick # NoTick THEN PollStart(a) ELSE a

(* notifySessionExpiry *)
notifySessionExpiry(w) == [PollStop(w) EXCEPT !.modal = TRUE]

(* What the server answers to request q: "ok", or "denied" (-32002) *)
Reply(q) == [for |-> q.owner,
             code |-> IF session /\ (q.probe \/ q.owner \notin Forbidden) THEN "ok" ELSE "denied"]

MutDeniedMeansExpired(w, q, rep) ==
    Settle(IF rep.code = "denied" THEN notifySessionExpiry(w) ELSE w, q.owner,
           IF rep.code = "ok" THEN rep.for ELSE "error")

(* parseCallReply with the interceptor of setupDOM: a refused call is      *)
(* probed before it is rejected, a refused or failed probe means expiry    *)
Replied(w, q, rep) ==
    IF q.probe
    THEN Settle(IF rep.code = "ok" THEN w ELSE notifySessionExpiry(w), q.owner, "error")
    ELSE IF rep.code = "ok" THEN Settle(w, q.owner, rep.for)
    ELSE IF phase = "boot" \/ rep.code = "lost" THEN Settle(w, q.owner, "error")
    ELSE [request(w, q.owner, TRUE) EXCEPT !.call[q.owner].st = "checking"]

MutTakesLastReply(replies, i) ==
    IF i \in DOMAIN replies THEN replies[Len(replies) + 1 - i] ELSE [for |-> "none", code |-> "lost"]

(* flushRequestQueue: the replies are taken off the array one by one; a    *)
(* request beyond its end is rejected                                      *)
Matching(replies, i) ==
    IF i \in DOMAIN replies THEN replies[i] ELSE [for |-> "none", code |-> "lost"]

MutDropsRest(b, n) ==
    LET replies == [i \in 1..n |-> Reply(b[i])]
        Take(w, i) == Replied(w, b[i], Matching(replies, i))
    IN  /\ Becomes(FoldLeft(Take, World, [i \in 1..n |-> i]))
        /\ flights' = flights \ {b}
        /\ IF n = Len(b) THEN UNCHANGED fails
           ELSE fails' = [n |-> fails.n + 1,
                          probe |-> fails.probe \/ \E i \in n + 1..Len(b) : b[i].probe]
        /\ UNCHANGED <<classes, phase, view, menuRequest, session>>

(* The next animation frame: all requests collected so far are sent as one *)
Frame ==
    /\ queue # <<>>
    /\ flights' = flights \cup {queue} /\ queue' = <<>>
    /\ UNCHANGED <<classes, phase, view, menuRequest, call, poll, session, modal, fails>>

(* The answer to batch b has n replies; none if the request was lost *)
Answer(b, n) ==
    LET replies == [i \in 1..n |-> Reply(b[i])]
        Take(w, i) == Replied(w, b[i], Matching(replies, i))
    IN  /\ Becomes(FoldLeft(Take, World, [i \in DOMAIN b |-> i]))
        /\ flights' = flights \ {b}
        /\ IF n = Len(b) THEN UNCHANGED fails
           ELSE fails' = [n |-> fails.n + 1,
                          probe |-> fails.probe \/ \E i \in n + 1..Len(b) : b[i].probe]
        /\ UNCHANGED <<classes, phase, view, menuRequest, session>>

Carries(b, o) == \E i \in DOMAIN b : b[i].owner = o
AnswersTo(o) == \E b \in flights : Carries(b, o) /\ Answer(b, Len(b))
Answers == \E o \in Owners : AnswersTo(o)
Losses == fails.n < MaxFail /\ \E b \in flights, n \in 0..1 : n < Len(b) /\ Answer(b, n)

-----------------------------------------------------------------------------
(* Start of the page *)

LoaderStep ==
    /\ \E c \in Classes : FileArrives(c) \/ DependsSettle(c)
    /\ UNCHANGED <<phase, view, menuRequest, call, queue, flights, poll, session, modal, fails>>

LoaderFails ==
    /\ fails.n < MaxFail
    /\ \E c \in Classes : FileFails(c)
    /\ fails' = [fails EXCEPT !.n = @ + 1]
    /\ UNCHANGED <<phase, view, menuRequest, call, queue, flights, poll, session, modal>>

(* setupDOM, once all core classes and the base URL are there *)
setupDOM ==
    /\ phase = "boot" /\ \A c \in Core : classes[c].st = "ready"
    /\ phase' = "setup"
    /\ Becomes(Issue(Issue(World, "features"), "preload"))
    /\ UNCHANGED <<classes, view, menuRequest, flights, session, fails>>

CoreFails ==
    /\ phase = "boot" /\ \E c \in Core : classes[c].st = "failed"
    /\ phase' = "error"
    /\ UNCHANGED <<classes, view, menuRequest, call, queue, flights, poll, session, modal, fails>>

MutPreloadNeedsFeatures ==
    /\ phase = "setup" /\ call["features"].result = "features" /\ call["preload"].st = "idle"
    /\ phase' = "preload"
    /\ classes' = FoldLeft(LAMBDA cl, c : require(cl, c, {}), classes, SetToSeq(Preload))
    /\ UNCHANGED <<view, menuRequest, call, queue, flights, poll, session, modal, fails>>

(* The first finally: both calls are done or the features failed; the      *)
(* preload classes are required if their list is there                     *)
RequirePreload ==
    /\ phase = "setup"
    /\ \/ call["features"].result = "error"
       \/ call["features"].st = "idle" /\ call["preload"].st = "idle"
    /\ phase' = "preload"
    /\ classes' = IF call["preload"].result = "preload"
                  THEN FoldLeft(LAMBDA cl, c : require(cl, c, {}), classes, SetToSeq(Preload))
                  ELSE classes
    /\ UNCHANGED <<view, menuRequest, call, queue, flights, poll, session, modal, fails>>

(* initDOM: all required preload classes are ready, or one failed *)
initDOM ==
    /\ phase = "preload"
    /\ \/ \A c \in Preload : classes[c].st \in {"absent", "ready"}
       \/ \E c \in Preload : classes[c].st = "failed"
    /\ phase' = "run"
    /\ Becomes(PollStart(World))
    /\ UNCHANGED <<classes, view, menuRequest, flights, session, fails>>

(* instantiateView, when class ui is there; then View.__init__ calls the   *)
(* load function of the view                                               *)
RequireView ==
    /\ classes["ui"].st = "ready" /\ classes[ViewClass].st = "absent"
    /\ classes' = require(classes, ViewClass, {})
    /\ UNCHANGED <<phase, view, menuRequest, call, queue, flights, poll, session, modal, fails>>

ViewLoads ==
    /\ view = "none" /\ classes[ViewClass].st = "ready"
    /\ view' = "loading"
    /\ Becomes(Issue(World, "view"))
    /\ UNCHANGED <<classes, phase, menuRequest, flights, session, fails>>

(* render: the view registers its function for polling *)
ViewRenders ==
    /\ view = "loading" /\ call["view"].st = "idle"
    /\ IF call["view"].result = "error" THEN view' = "error" /\ Becomes(World)
       ELSE view' = "shown" /\ Becomes(PollAdd(World, PollOf[ViewClass]))
    /\ UNCHANGED <<classes, phase, menuRequest, flights, session, fails>>

(* A preload class registers its function when it is instantiated *)
Registered == {poll.queue[i].fn : i \in DOMAIN poll.queue}
PreloadRegisters(c) ==
    /\ classes[c].st = "ready" /\ PollOf[c] \notin Registered
    /\ Becomes(PollAdd(World, PollOf[c]))
    /\ UNCHANGED <<classes, phase, view, menuRequest, flights, session, fails>>

(* UIMenu.load, once class ui is there *)
MenuLoads ==
    /\ menuRequest = "none" /\ classes["ui"].st = "ready"
    /\ menuRequest' = "asked"
    /\ UNCHANGED <<classes, phase, view, call, queue, flights, poll, session, modal, fails>>

(* The answer to it.  Without a session it is 403 with the header          *)
(* X-LuCI-Login-Required, on which the interceptor that setupDOM has added *)
(* to Request shows "Session expired" and throws.  It throws out of        *)
(* handleReadyStateChange: the promise of the request is never settled.    *)
MenuAnswers ==
    /\ menuRequest = "asked"
    /\ IF session \/ phase = "boot" THEN menuRequest' = "done" /\ Becomes(World)
       ELSE menuRequest' = "stuck" /\ Becomes(notifySessionExpiry(World))
    /\ UNCHANGED <<classes, phase, view, flights, session, fails>>

MenuLost ==
    /\ menuRequest = "asked" /\ fails.n < MaxFail
    /\ menuRequest' = "done" /\ fails' = [fails EXCEPT !.n = @ + 1]
    /\ UNCHANGED <<classes, phase, view, call, queue, flights, poll, session, modal>>

-----------------------------------------------------------------------------
(* A second passes; the user pauses and resumes; the session expires *)

Timer ==
    /\ poll.active
    /\ Becomes(Step(World))
    /\ UNCHANGED <<classes, phase, view, menuRequest, flights, session, fails>>

ToggleIndicator ==
    /\ phase = "run" /\ ~modal /\ poll.queue # <<>>
    /\ LET w == [World EXCEPT !.poll.paused = poll.active]
       IN  Becomes(IF poll.active THEN PollStop(w) ELSE PollStart(w))
    /\ UNCHANGED <<classes, phase, view, menuRequest, flights, session, fails>>

Expire ==
    /\ session /\ session' = FALSE
    /\ UNCHANGED <<classes, phase, view, menuRequest, call, queue, flights, poll, modal, fails>>

Init ==
    /\ classes = FoldLeft(LAMBDA cl, c : require(cl, c, {}), NoClasses, SetToSeq(Core))
    /\ phase = "boot" /\ view = "none" /\ menuRequest = "none"
    /\ call = [o \in Owners |-> [st |-> "idle", result |-> "none"]]
    /\ queue = <<>> /\ flights = {}
    /\ poll = [queue |-> <<>>, tick |-> NoTick, active |-> FALSE, paused |-> FALSE]
    /\ session = TRUE /\ modal = FALSE
    /\ fails = [n |-> 0, probe |-> FALSE]

StartUp == setupDOM \/ CoreFails \/ RequirePreload \/ initDOM \/ RequireView
           \/ ViewLoads \/ ViewRenders \/ MenuLoads \/ \E c \in Preload : PreloadRegisters(c)

Next == LoaderStep \/ LoaderFails \/ StartUp \/ Frame \/ Answers \/ Losses
        \/ MenuAnswers \/ MenuLost \/ Timer \/ ToggleIndicator \/ Expire

(* The browser goes on with promises, frames and timers; every request is  *)
(* answered or fails with its time limit.                                  *)
Fairness == /\ WF_vars(StartUp) /\ WF_vars(Frame) /\ WF_vars(Timer)
            /\ WF_vars(MenuAnswers)
            /\ \A c \in Classes :
                 WF_vars((FileArrives(c) \/ DependsSettle(c))
                         /\ UNCHANGED <<phase, view, menuRequest, call, queue, flights, poll, session, modal, fails>>)
            /\ \A o \in Owners : WF_vars(AnswersTo(o))

Spec == Init /\ [][Next]_vars /\ Fairness

-----------------------------------------------------------------------------
(* Properties *)

(* A call that succeeds gets the reply the server made to this call,       *)
(* however the calls were collected into batches, in whatever order        *)
(* batches are answered and also when an answer is cut short               *)
(* (flushRequestQueue matches replies to requests by their position).      *)
RepliesMatch == \A o \in Owners : call[o].result \in {o, "none", "error"}

(* A call that is refused for lack of permission does not log the user     *)
(* out: "Session expired" is shown only if the session is gone or the      *)
(* probe of it was lost (the interceptors of setupDOM).                    *)
ExpiryIsReal == modal => ~session \/ fails.probe

(* Every call settles in the end, refused ones and those in lost batches   *)
(* included (call, parseCallReply, flushRequestQueue).  The request for    *)
(* the menu does not if it is refused, but then the page says so.          *)
CallsSettle ==
    /\ \A o \in Owners : call[o].st # "idle" ~> call[o].st = "idle"
    /\ menuRequest = "asked" ~> menuRequest = "done" \/ modal

(* The page starts unless a core class cannot be loaded: neither failing   *)
(* calls of setupDOM nor a failing preload class keep initDOM from running.*)
PageStarts == /\ phase = "boot" ~> phase \in {"run", "error"}
              /\ phase = "setup" ~> phase = "run"

(* A function registered for polling is called, whether it was registered  *)
(* before or after initDOM started the polling, unless the page failed to  *)
(* start, polling is paused or the session expired (Poll.add, Poll.start). *)
PollsRun ==
    \A fn \in Polls :
        (fn \in Registered) ~> (call[fn].st # "idle" \/ phase = "error" \/ modal
                                \/ poll.paused)

(* Behind "Session expired" the page falls silent for good, also when the  *)
(* session expired before initDOM started the polling.                     *)
ExpiredFallsSilent == (modal /\ ~session) ~> [](~poll.active)

(* Polling follows the page and the session: registered functions run, and *)
(* behind "Session expired" nothing does.                                  *)
PollingFollowsSession == PollsRun /\ ExpiredFallsSilent
=============================================================================
