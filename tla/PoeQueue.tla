------------------------------- MODULE PoeQueue -------------------------------
(***************************************************************************)
(* The command queue of realtek-poe (realtek-poe-tfortis/src/main.c): the  *)
(* list cmd_pending, the retry timer mcu_error_timeout and the serial line *)
(* to the PoE microcontroller (MCU).                                       *)
(*                                                                         *)
(* The daemon is single threaded (uloop), so each callback is one step.    *)
(* A 12-byte frame is a record.  The field n is a history value: the       *)
(* position of the command among all commands ever queued (0: none).  No   *)
(* guard reads it.                                                         *)
(***************************************************************************)
EXTENDS Naturals, Sequences

CONSTANTS
  CmdId,        \* the command ids the daemon uses
  NoCmd,        \* the id of a frame that answers no command
  Batch,        \* what one callback may queue: sequences of command ids
  SeqMod,       \* cmd_seq is an unsigned char: 256 in the code
  MAX_RETRIES,  \* 5 in the code
  MaxQueued,    \* bound: commands queued in a behaviour
  MaxStray,     \* bound: reply frames that answer no command of this process
  MaxLost,      \* bound: request or reply frames lost on the line
  MaxRestart    \* bound: restarts of the daemon by procd

ASSUME ConstantsAssumption ==
  /\ NoCmd \notin CmdId
  /\ Batch \subseteq Seq(CmdId) \ {<<>>}
  /\ SeqMod \in Nat \ {0}
  /\ MAX_RETRIES \in Nat
  /\ MaxQueued \in Nat
  /\ MaxStray \in Nat
  /\ MaxLost \in Nat
  /\ MaxRestart \in Nat

VARIABLES
  pending,   \* cmd_pending: the list of struct cmd, head first
  cmd_seq,   \* the sequence number given to the last command
  errTimer,  \* state.mcu_error_timeout.pending
  tx,        \* frames written to the tty and not yet answered by the MCU
  rx,        \* reply frames not yet consumed, oldest first
  held,      \* how many of rx are already in the read buffer of the ustream
  accepted,  \* history: number of commands queued so far
  applied,   \* history: n of the command the MCU executed last
  executions, \* history: number of commands the MCU executed so far
  strays,    \* history: frames that answer no command of this process
  lost,      \* history: frames lost
  restarts   \* history: restarts of the daemon

history  == <<accepted, applied, executions, strays, lost, restarts>>
vars     == <<pending, cmd_seq, errTimer, tx, rx, held,
              accepted, applied, executions, strays, lost, restarts>>

NoFrame == [id |-> NoCmd, seq |-> 0, n |-> 0]
Frame   == [id : CmdId, seq : 0 .. SeqMod - 1, n : Nat]
Cmd     == [frame : Frame, num_retries : 0 .. MAX_RETRIES]
Reply   == [st : {"ok", "f0", "bad"}, req : Frame \cup {NoFrame}]

-----------------------------------------------------------------------------
(* Sending.  poe_cmd_send refuses (-EBUSY) while the error timer runs.     *)

poe_cmd_next(q, timer, t) ==
  IF q # <<>> /\ ~timer THEN Append(t, Head(q).frame) ELSE t

(* The commands of a batch, stamped with consecutive sequence numbers.     *)
Stamp(b, seq, n) ==
  [i \in 1 .. Len(b) |->
     [frame |-> [id |-> b[i], seq |-> (seq + i) % SeqMod, n |-> n + i],
      num_retries |-> 0]]

(* Mutant: the list is not looked at before it is kicked. *)
MutQueueAlwaysSends(b) ==
  /\ accepted + Len(b) <= MaxQueued
  /\ pending' = pending \o Stamp(b, cmd_seq, accepted)
  /\ cmd_seq' = (cmd_seq + Len(b)) % SeqMod
  /\ accepted' = accepted + Len(b)
  /\ tx' = poe_cmd_next(pending', errTimer, tx)
  /\ UNCHANGED <<errTimer, rx, held, applied, executions, strays, lost, restarts>>

(* The calls of poe_cmd_queue one callback makes.  Only a command that     *)
(* finds the list empty is sent at once, and that can only be the first.   *)
poe_cmd_queue(b) ==
  /\ accepted + Len(b) <= MaxQueued
  /\ pending' = pending \o Stamp(b, cmd_seq, accepted)
  /\ cmd_seq' = (cmd_seq + Len(b)) % SeqMod
  /\ accepted' = accepted + Len(b)
  /\ tx' = IF pending = <<>> THEN poe_cmd_next(pending', errTimer, tx) ELSE tx
  /\ UNCHANGED <<errTimer, rx, held, applied, executions, strays, lost, restarts>>

-----------------------------------------------------------------------------
(* Receiving.  The head of the list leaves it before the reply is looked   *)
(* at: only an f0 reply puts it back.                                      *)

(* Mutant: the sequence number is not compared. *)
MutMatchesIdOnly(cmd, r) == r.req.id = cmd.frame.id

Matches(cmd, r) ==
  r.req.id = cmd.frame.id /\ r.req.seq = cmd.frame.seq

(* Mutant: a rejected command goes to the tail of the list. *)
MutF0ToTail ==
  LET cmd == Head(pending) IN
    \/ /\ errTimer \/ cmd.num_retries + 1 > MAX_RETRIES
       /\ pending' = Tail(pending)
       /\ UNCHANGED errTimer
    \/ /\ ~errTimer
       /\ cmd.num_retries + 1 <= MAX_RETRIES
       /\ pending' = Append(Tail(pending),
                            [cmd EXCEPT !.num_retries = @ + 1])
       /\ errTimer' = TRUE

(* Mutant: the retries are not counted. *)
MutF0NeverAborts ==
  /\ UNCHANGED pending
  /\ errTimer' = TRUE

handle_poe_f0_reply ==
  LET cmd == Head(pending) IN
    \/ /\ errTimer
       /\ UNCHANGED <<pending, errTimer>>
    \/ /\ ~errTimer
       /\ cmd.num_retries + 1 > MAX_RETRIES
       /\ pending' = Tail(pending)
       /\ UNCHANGED errTimer
    \/ /\ ~errTimer
       /\ cmd.num_retries + 1 <= MAX_RETRIES
       /\ pending' = <<[cmd EXCEPT !.num_retries = @ + 1]>> \o Tail(pending)
       /\ errTimer' = TRUE

(* Mutant: a garbled reply is retried like a rejection. *)
MutRetryGarbled(r) ==
  \/ /\ pending = <<>>
     /\ UNCHANGED <<pending, errTimer>>
  \/ /\ pending # <<>>
     /\ r.st # "ok"
     /\ handle_poe_f0_reply
  \/ /\ pending # <<>>
     /\ r.st = "ok"
     /\ pending' = Tail(pending)
     /\ UNCHANGED errTimer

(* A reply that matches and one that does not (bad id or sequence number)  *)
(* retire the command alike; only the former reaches its reply handler.    *)
poe_reply_consume(r) ==
  \/ /\ pending = <<>>
     /\ UNCHANGED <<pending, errTimer>>
  \/ /\ pending # <<>>
     /\ r.st = "f0"
     /\ handle_poe_f0_reply
  \/ /\ pending # <<>>
     /\ r.st # "f0"
     /\ pending' = Tail(pending)
     /\ UNCHANGED errTimer

(* One read event of the tty brings k more frames into the ustream, and    *)
(* the callback then consumes one frame, whatever is left in the buffer.   *)
poe_stream_msg_cb(k) ==
  /\ k \in 1 .. Len(rx) - held
  /\ poe_reply_consume(Head(rx))
  /\ rx' = Tail(rx)
  /\ held' = held + k - 1
  /\ tx' = poe_cmd_next(pending', errTimer', tx)
  /\ UNCHANGED <<cmd_seq, history>>

(* Mutant: the timer only lets the next caller send. *)
MutTimerOnlyClears ==
  /\ errTimer
  /\ errTimer' = FALSE
  /\ UNCHANGED <<pending, cmd_seq, tx, rx, held, history>>

(* The 100 ms timer: uloop clears it, then calls back.                     *)
mcu_clear_timeout ==
  /\ errTimer
  /\ errTimer' = FALSE
  /\ tx' = poe_cmd_next(pending, FALSE, tx)
  /\ UNCHANGED <<pending, cmd_seq, rx, held, history>>

(* The tty reports eof, the process exits and procd starts a new one,      *)
(* which flushes the input and queues its setup.  Frames already on their  *)
(* way to the MCU are still answered: to the new process these are strays. *)
Restart(b) ==
  /\ restarts < MaxRestart
  /\ accepted + Len(b) <= MaxQueued
  /\ pending' = Stamp(b, 0, accepted)
  /\ cmd_seq' = Len(b) % SeqMod
  /\ errTimer' = FALSE
  /\ tx' = poe_cmd_next(pending', FALSE, tx)
  /\ rx' = <<>>
  /\ held' = 0
  /\ accepted' = accepted + Len(b)
  /\ strays' = strays + Len(tx)
  /\ restarts' = restarts + 1
  /\ UNCHANGED <<applied, executions, lost>>

-----------------------------------------------------------------------------
(* The MCU and the line (external).                                        *)

(* The MCU answers its oldest request: it executes it and says so, the     *)
(* answer is garbled on the way back, or it rejects the request.           *)
McuAnswer(st) ==
  /\ tx # <<>>
  /\ tx' = Tail(tx)
  /\ rx' = Append(rx, [st |-> st, req |-> Head(tx)])
  /\ applied' = IF st = "f0" THEN applied ELSE Head(tx).n
  /\ executions' = IF st = "f0" THEN executions ELSE executions + 1
  /\ UNCHANGED <<pending, cmd_seq, errTimer, held, accepted, strays, lost,
                 restarts>>

(* Noise: the MCU complains of a request nobody sent, or garbage arrives,  *)
(* or the newest reply arrives a second time.                              *)
LineStray ==
  /\ strays < MaxStray
  /\ \E r \in {[st |-> "f0", req |-> NoFrame], [st |-> "bad", req |-> NoFrame]}
              \cup (IF rx = <<>> THEN {} ELSE {rx[Len(rx)]}) :
       rx' = Append(rx, r)
  /\ strays' = strays + 1
  /\ UNCHANGED <<pending, cmd_seq, errTimer, tx, held, accepted, applied,
                 executions, lost, restarts>>

(* A request is lost before the MCU sees it, or a reply that is still on   *)
(* the wire.                                                               *)
LineLose ==
  /\ lost < MaxLost
  /\ lost' = lost + 1
  /\ \/ tx # <<>> /\ tx' = Tail(tx) /\ rx' = rx
     \/ Len(rx) > held /\ rx' = SubSeq(rx, 1, Len(rx) - 1) /\ tx' = tx
  /\ UNCHANGED <<pending, cmd_seq, errTimer, held, accepted, applied,
                 executions, strays, restarts>>

-----------------------------------------------------------------------------
Init ==
  \E b \in Batch :
    /\ pending = Stamp(b, 0, 0)
    /\ cmd_seq = Len(b) % SeqMod
    /\ errTimer = FALSE
    /\ tx = <<pending[1].frame>>
    /\ rx = <<>>
    /\ held = 0
    /\ accepted = Len(b)
    /\ applied = 0
    /\ executions = 0
    /\ strays = 0
    /\ lost = 0
    /\ restarts = 0

Queue == \E b \in Batch : poe_cmd_queue(b)
Read  == \E k \in 1 .. Len(rx) : poe_stream_msg_cb(k)
Mcu   == \E st \in {"ok", "f0", "bad"} : McuAnswer(st)

Next ==
  \/ Queue
  \/ Read
  \/ mcu_clear_timeout
  \/ Mcu
  \/ LineStray
  \/ LineLose
  \/ \E b \in Batch : Restart(b)

Spec == Init /\ [][Next]_vars

(* uloop serves a readable tty and an expired timer, and the MCU answers   *)
(* what it received.                                                       *)
Fairness == WF_vars(Read) /\ WF_vars(mcu_clear_timeout) /\ WF_vars(Mcu)

FairSpec == Spec /\ Fairness

-----------------------------------------------------------------------------
(* Properties                                                              *)

(* Every variable stays in its type; in particular a queued command never  *)
(* has more than MAX_RETRIES retries (handle_poe_f0_reply).                *)
TypeOK ==
  /\ pending \in Seq(Cmd)
  /\ cmd_seq \in 0 .. SeqMod - 1
  /\ errTimer \in BOOLEAN
  /\ tx \in Seq(Frame)
  /\ rx \in Seq(Reply)
  /\ held \in 0 .. Len(rx)
  /\ accepted \in Nat
  /\ applied \in Nat
  /\ executions \in Nat
  /\ strays \in Nat
  /\ lost \in Nat
  /\ restarts \in Nat

Outstanding == Len(tx) + Len(rx)

(* Stop and wait: the daemon never has more commands unanswered than one   *)
(* plus the stray replies it has met, and none while it waits for the MCU  *)
(* to recover or has nothing queued (poe_cmd_queue sends only on an empty  *)
(* list, every reply sends one, the timer sends one).                      *)
StopAndWait ==
  Outstanding + (IF errTimer THEN 1 ELSE 0) + (IF pending = <<>> THEN 1 ELSE 0)
    <= 1 + strays

(* No stall without a loss: while commands are queued, either the retry    *)
(* timer runs or a frame is under way whose arrival calls                  *)
(* poe_stream_msg_cb.  A frame left in the read buffer does not count.     *)
NoStall ==
  lost = 0 /\ pending # <<>> => errTimer \/ Len(tx) + Len(rx) > held

(* A reply that poe_reply_consume accepts by id and sequence number was    *)
(* made for that very command, although sequence numbers wrap around and   *)
(* stray replies shift the pairing of replies and commands.  After a       *)
(* restart cmd_seq starts again, and a late reply to the old process may   *)
(* be taken for one to the new.                                            *)
AcceptedIsOwn ==
  restarts = 0 /\ rx # <<>> /\ pending # <<>>
               /\ rx[1].st = "ok" /\ Matches(pending[1], rx[1])
    => rx[1].req.n = pending[1].frame.n

(* The commands of one process reach the MCU in the order in which they    *)
(* were queued, retries, losses, strays and restarts included: the MCU     *)
(* never executes an older command after a newer one.                      *)
NeverReordered == [][applied' >= applied]_vars

(* Without strays a command is executed at most once: whatever is on its   *)
(* way to the MCU is newer than what the MCU executed last.  A garbled     *)
(* answer is not retried, and a retried command was rejected.              *)
AtMostOnce == strays = 0 /\ tx # <<>> => applied < tx[1].n

(* A reply too many stays in the read buffer, for poe_stream_msg_cb takes  *)
(* one frame per read event; but the backlog never exceeds the number of   *)
(* stray replies, losses, retries and restarts included.                   *)
BacklogIsSurplus == held <= strays

(* Every queued command is retired, even by an MCU that rejects it every   *)
(* time, unless a frame is lost: the daemon has no timeout for a reply.    *)
Queued(m) == \E i \in DOMAIN pending : pending[i].frame.n = m

QueueDrains ==
  \A m \in 1 .. MaxQueued : Queued(m) ~> (~Queued(m) \/ lost > 0)

(* Until a stray reply or a restart disturbs it, the queue is the serial    *)
(* executor of PoeService, losses on the line included: commands are        *)
(* retired in order, and each is executed at most once, while it is the     *)
(* oldest (poe_cmd_queue, poe_reply_consume, mcu_clear_timeout).            *)
Service == INSTANCE PoeService
             WITH retired <- accepted - Len(pending), executed <- applied,
                  disturbed <- strays + restarts > 0

Implements == Service!Spec

-----------------------------------------------------------------------------
(* The strengthenings the proofs of the order properties rest on.          *)

(* The newest command that may have been sent: the head of the list, or    *)
(* the last one queued when the list is empty.                             *)
SentUpTo == accepted - Len(pending) + (IF pending = <<>> THEN 0 ELSE 1)

(* The list holds the youngest commands, in order; what is on its way to   *)
(* the MCU is ordered, no older than what the MCU executed last and no     *)
(* younger than the head of the list.                                      *)
OrderInv ==
  /\ Len(pending) <= accepted
  /\ \A i \in 1 .. Len(pending) :
       pending[i].frame.n = accepted - Len(pending) + i
  /\ \A i \in 1 .. Len(tx) : applied <= tx[i].n /\ tx[i].n <= SentUpTo
  /\ \A i, j \in 1 .. Len(tx) : i <= j => tx[i].n <= tx[j].n
  /\ applied <= SentUpTo

(* Without strays, a head that is on its way to the MCU, was rejected or   *)
(* waits for its retry has not been executed.                              *)
OnceInv ==
  strays = 0 /\ pending # <<>>
             /\ (tx # <<>> \/ errTimer \/ (rx # <<>> /\ rx[1].st = "f0"))
    => /\ applied < pending[1].frame.n
       /\ tx # <<>> => tx[1].n = pending[1].frame.n

=============================================================================
