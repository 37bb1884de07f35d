------------------------------- MODULE PoeDaemon -------------------------------
(***************************************************************************)
(* What realtek-poe does with its command queue                            *)
(* (realtek-poe-tfortis/src/main.c): it loads the UCI configuration, sets  *)
(* the ports up, serves the ubus methods reload and manage, and polls the  *)
(* state of the ports.                                                     *)
(*                                                                         *)
(* The queue is taken as PoeService describes it: commands are retired one *)
(* by one, in order, and each is executed at most once.  PoeQueue shows    *)
(* that the list, the timer and the serial line provide that.  A port is   *)
(* an index of config.ports; section ids count from 1, indices from 0.     *)
(***************************************************************************)
EXTENDS Naturals, Sequences, FiniteSets, FiniteSetsExt

CONSTANTS
  MAX_PORT,    \* 24 in the code
  GroupSize,   \* ports in one status command: 4 in the code
  Names,       \* names of ports
  NoName,      \* the empty name of a port without a section
  Devices,     \* the ports with a device that may start or stop drawing power
  Configs,     \* contents of /etc/config/poe and /etc/config/port
  MaxQueue,    \* bound: enable commands queued at a time
  MaxPolls,    \* bound: status commands queued at a time
  MaxDropped,  \* bound: commands aborted after MAX_RETRIES rejections
  MaxGarbled,  \* bound: replies lost to a bad checksum
  MaxRestart   \* bound: restarts of the daemon

Port    == 0 .. MAX_PORT - 1
Section == [id : Nat, name : Names]      \* config port, of package poe
Uci     == [poe : Seq(Section), lan : Seq(BOOLEAN)]

ASSUME DaemonAssumption ==
  /\ MAX_PORT \in Nat \ {0}
  /\ GroupSize \in Nat \ {0}
  /\ NoName \notin Names
  /\ Configs \subseteq Uci
  /\ Devices \subseteq Port
  /\ MaxQueue \in Nat /\ MaxPolls \in Nat /\ MaxDropped \in Nat /\ MaxGarbled \in Nat
  /\ MaxRestart \in Nat

VARIABLES
  uci,         \* the configuration files
  port_count,  \* config.port_count
  ports,       \* config.ports: name and enable
  status,      \* state.ports[].status: what the last reply said
  status_old,  \* state.ports[].status_old: what was logged last
  queue,       \* the commands queued and not yet retired
  on,          \* the ports the MCU has enabled (external)
  actual,      \* the status of each port in the MCU (external)
  managedOff,  \* history: ports that manage turned off since the last load
  dropped,     \* history: commands aborted
  garbled,     \* history: replies not applied
  restarts     \* history: restarts of the daemon

daemon  == <<port_count, ports, status, status_old>>
mcu     == <<on, actual>>
history == <<managedOff, dropped, garbled, restarts>>
vars    == <<uci, daemon, queue, mcu, history>>

(* The values of status the model tells apart. *)
Disabled == 0
Searching == 1
Delivering == 2
Status == {Disabled, Searching, Delivering}

PortConfig == [name : Names \cup {NoName}, enable : BOOLEAN]
EnableCmd(p, e) == [op |-> "enable", port |-> p, on |-> e]
StatusCmd(g)    == [op |-> "status", group |-> g]
Command == {EnableCmd(p, e) : p \in Port, e \in BOOLEAN}
             \cup {StatusCmd(g) : g \in Port}

Queued(op, q) == Cardinality({k \in DOMAIN q : q[k].op = op})

-----------------------------------------------------------------------------
(* Loading the configuration. *)

Valid(s) == s.id \in 1 .. MAX_PORT

(* A port takes its name from the last section with its id. *)
NameOf(c, p) ==
  LET mine == {k \in DOMAIN c.poe : c.poe[k].id = p + 1} IN
    IF mine = {} THEN NoName ELSE c.poe[Max(mine)].name

(* A section enables its port; then the lan sections of package port say   *)
(* enable or not for ports 0, 1, ... in the order in which they stand.     *)
EnableOf(c, p) ==
  IF p + 1 \in DOMAIN c.lan THEN c.lan[p + 1]
  ELSE \E k \in DOMAIN c.poe : c.poe[k].id = p + 1

config_ports(c) == [p \in Port |-> [name |-> NameOf(c, p), enable |-> EnableOf(c, p)]]

(* Mutant: the count is that of this file. *)
MutCountAnew(c, count) ==
  Max({0} \cup {c.poe[k].id : k \in {j \in DOMAIN c.poe : Valid(c.poe[j])}})

(* The count only grows. *)
CountAfter(c, count) ==
  Max({count} \cup {c.poe[k].id : k \in {j \in DOMAIN c.poe : Valid(c.poe[j])}})

-----------------------------------------------------------------------------
(* The commands that set the ports up.  Those before the enable commands   *)
(* (detection, disconnection, the groups of PoeSetup) change no state      *)
(* modelled here and are left out.                                         *)
poe_port_setup(cfg, count) ==
  [k \in 1 .. count |-> EnableCmd(k - 1, cfg[k - 1].enable)]

(* ubus call poe reload. *)
ubus_poe_reload_cb ==
  /\ ports' = config_ports(uci)
  /\ port_count' = CountAfter(uci, port_count)
  /\ queue' = queue \o poe_port_setup(ports', port_count')
  /\ Queued("enable", queue') <= MaxQueue
  /\ managedOff' = {}
  /\ UNCHANGED <<uci, status, status_old, mcu, dropped, garbled, restarts>>

Found(n) == {p \in 0 .. port_count - 1 : ports[p].enable /\ ports[p].name = n}

(* Mutant: the configuration of the port is not looked at. *)
MutManageAnyPort(n, e) ==
  LET hits == {p \in 0 .. port_count - 1 : ports[p].name = n} IN
  /\ hits # {}
  /\ queue' = Append(queue, EnableCmd(Min(hits), e))
  /\ Queued("enable", queue') <= MaxQueue
  /\ managedOff' = IF e THEN managedOff \ {Min(hits)} ELSE managedOff \cup {Min(hits)}
  /\ UNCHANGED <<uci, daemon, mcu, dropped, garbled, restarts>>

(* ubus call poe manage: the first enabled port of that name.              *)
ubus_poe_manage_cb(n, e) ==
  /\ Found(n) # {}
  /\ queue' = Append(queue, EnableCmd(Min(Found(n)), e))
  /\ Queued("enable", queue') <= MaxQueue
  /\ managedOff' = IF e THEN managedOff \ {Min(Found(n))}
                        ELSE managedOff \cup {Min(Found(n))}
  /\ UNCHANGED <<uci, daemon, mcu, dropped, garbled, restarts>>

(* Mutant: the loop stops one group early. *)
MutPollSkipsLast ==
  /\ queue' = queue \o [k \in 1 .. (port_count - 1) \div GroupSize |-> StatusCmd(k - 1)]
  /\ Queued("status", queue') <= MaxPolls
  /\ status_old' = [p \in Port |-> IF p < port_count THEN status[p] ELSE status_old[p]]
  /\ UNCHANGED <<uci, port_count, ports, status, mcu, history>>

(* The poll, every 2 s: a status command for each group of ports, and a    *)
(* syslog line for each port whose status differs from the one logged      *)
(* last.  (The measurements polled with it change no state modelled.)      *)
state_timeout_cb ==
  /\ queue' = queue \o [k \in 1 .. (port_count + GroupSize - 1) \div GroupSize
                          |-> StatusCmd(k - 1)]
  /\ Queued("status", queue') <= MaxPolls
  /\ status_old' = [p \in Port |-> IF p < port_count THEN status[p] ELSE status_old[p]]
  /\ UNCHANGED <<uci, port_count, ports, status, mcu, history>>

-----------------------------------------------------------------------------
(* The head of the queue is executed and its reply handled. *)

(* The reply to a status command carries a group of ports; the handler     *)
(* stops at the first one beyond MAX_PORT.                                 *)
poe_reply_4_port_status(g) ==
  [p \in Port |-> IF p \div GroupSize = g THEN actual[p] ELSE status[p]]

(* The effect of a command in the MCU: a port that is enabled anew starts  *)
(* to search, and one that is disabled is off (external).                  *)
McuExecutes(c) ==
  IF c.op = "enable"
    THEN /\ on' = IF c.on THEN on \cup {c.port} ELSE on \ {c.port}
         /\ actual' = [actual EXCEPT ![c.port] =
                         IF ~c.on THEN Disabled
                         ELSE IF @ = Disabled THEN Searching ELSE @]
    ELSE UNCHANGED mcu

Retire ==
  /\ queue # <<>>
  /\ queue' = Tail(queue)
  /\ McuExecutes(Head(queue))
  /\ status' = IF Head(queue).op = "status"
                 THEN poe_reply_4_port_status(Head(queue).group) ELSE status
  /\ UNCHANGED <<uci, port_count, ports, status_old, history>>

(* The command was executed, but its reply has a bad checksum. *)
RetireGarbled ==
  /\ queue # <<>>
  /\ garbled < MaxGarbled
  /\ queue' = Tail(queue)
  /\ McuExecutes(Head(queue))
  /\ garbled' = garbled + 1
  /\ UNCHANGED <<uci, daemon, managedOff, dropped, restarts>>

(* The MCU rejected the command more than MAX_RETRIES times. *)
RetireAborted ==
  /\ queue # <<>>
  /\ dropped < MaxDropped
  /\ queue' = Tail(queue)
  /\ dropped' = dropped + 1
  /\ UNCHANGED <<uci, daemon, mcu, managedOff, garbled, restarts>>

-----------------------------------------------------------------------------
(* The surroundings. *)

(* A device starts or stops drawing power (external).                      *)
Device(p) ==
  /\ p \in on
  /\ \E s \in {Searching, Delivering} :
       s # actual[p] /\ actual' = [actual EXCEPT ![p] = s]
  /\ UNCHANGED <<uci, daemon, queue, on, history>>

(* The web interface or the CLI writes the configuration (external).       *)
UciCommit ==
  /\ uci' \in Configs \ {uci}
  /\ UNCHANGED <<daemon, queue, mcu, history>>

(* main: all memory is zero, the configuration is loaded and set up.  The  *)
(* MCU keeps its state while the daemon restarts.                          *)
Restart ==
  /\ restarts < MaxRestart
  /\ ports' = config_ports(uci)
  /\ port_count' = CountAfter(uci, 0)
  /\ status' = [p \in Port |-> 0]
  /\ status_old' = [p \in Port |-> 0]
  /\ queue' = poe_port_setup(ports', port_count')
  /\ managedOff' = {}
  /\ restarts' = restarts + 1
  /\ UNCHANGED <<uci, mcu, dropped, garbled>>

Init ==
  /\ uci \in Configs
  /\ ports = config_ports(uci)
  /\ port_count = CountAfter(uci, 0)
  /\ status = [p \in Port |-> 0]
  /\ status_old = [p \in Port |-> 0]
  /\ queue = poe_port_setup(ports, port_count)
  /\ on = {}
  /\ actual = [p \in Port |-> Disabled]
  /\ managedOff = {}
  /\ dropped = 0
  /\ garbled = 0
  /\ restarts = 0

Next ==
  \/ ubus_poe_reload_cb
  \/ \E n \in Names, e \in BOOLEAN : ubus_poe_manage_cb(n, e)
  \/ state_timeout_cb
  \/ Retire
  \/ RetireGarbled
  \/ RetireAborted
  \/ \E p \in Devices : Device(p)
  \/ UciCommit
  \/ Restart

Spec == Init /\ [][Next]_vars

(* Every poll sets its timer again, and the queue drains (QueueDrains of   *)
(* PoeQueue).                                                              *)
FairSpec == Spec /\ WF_vars(state_timeout_cb) /\ WF_vars(Retire)

-----------------------------------------------------------------------------
(* Properties *)

(* Type invariant of the daemon, the MCU and the files. *)
TypeOK ==
  /\ uci \in Configs
  /\ port_count \in 0 .. MAX_PORT
  /\ ports \in [Port -> PortConfig]
  /\ status \in [Port -> Status]
  /\ status_old \in [Port -> Status]
  /\ queue \in Seq(Command)
  /\ on \subseteq Port
  /\ actual \in [Port -> Status]
  /\ managedOff \subseteq Port
  /\ dropped \in Nat /\ garbled \in Nat /\ restarts \in Nat

Undisturbed == dropped = 0 /\ restarts = 0

(* Once the queue has drained, a port is powered exactly if the loaded     *)
(* configuration enables it and manage has not turned it off since: reload *)
(* and manage calls may come in any order and number, and ports may leave  *)
(* the configuration while they are powered.  Garbled replies do not       *)
(* matter; an aborted command does.                                        *)
PowerFollowsConfig ==
  Undisturbed /\ queue = <<>> =>
    \A p \in Port : p \in on <=> p < port_count /\ ports[p].enable /\ p \notin managedOff

(* Across restarts and aborted commands, manage alone never powers a port  *)
(* that the loaded configuration does not enable: whatever is queued for   *)
(* such a port turns it off in the end.                                    *)
DisabledEndsOff ==
  \A p \in Port : ~ports[p].enable =>
    LET mine == {k \in DOMAIN queue : queue[k].op = "enable" /\ queue[k].port = p} IN
      mine # {} => ~queue[Max(mine)].on

(* When the status of a port of the daemon stays the same from some time   *)
(* on, the daemon comes to report it and the log ends with it.             *)
StatusSettles ==
  \A p \in Port, s \in Status :
    <>[](actual[p] = s /\ p < port_count) => <>[](status[p] = s /\ status_old[p] = s)
=============================================================================
