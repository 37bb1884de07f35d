------------------------------ MODULE NetConfig ------------------------------
(***************************************************************************)
(* The configuration of interfaces, wireless networks and firewall zones,  *)
(* as network.js and firewall.js edit it for the pages Interfaces,         *)
(* Wireless, Routes and Firewall.  The three packages refer to one another *)
(* by name, and every page keeps the references of the others up to date.  *)
(*                                                                         *)
(* network.js knows an interface by its section or because netifd still    *)
(* runs it: a deleted interface is known until the changes are applied.    *)
(***************************************************************************)
EXTENDS Integers, Sequences, FiniteSets, FiniteSetsExt

CONSTANTS
    Nets,        \* names of interfaces
    ZoneNames,   \* names of zones
    Owned,       \* what is set up for one interface: a DHCP server, a peer
    Routing,     \* what names an interface of the list: a route, a rule
    MaxWifi,     \* bound on the number in wifinet<n>
    MaxZones,    \* bound on the zones
    MaxEdits,    \* bound on the edits, see Spend
    Start,       \* the configuration the device is shipped with
    None

ASSUME NetAssumption ==
    MaxWifi \in Nat /\ MaxZones \in Nat /\ MaxEdits \in Nat /\ None \notin Nets \cup ZoneNames

Kinds == Owned \cup Routing
Wifis == 0..MaxWifi

Refs == [kind : Kinds, net : Nets]
Zones == [name : ZoneNames, nets : SUBSET Nets]
Rules == [kind : {"forwarding", "rule"}, src : ZoneNames, dest : ZoneNames]

(* The packages network, wireless and firewall: the interfaces, those with *)
(* a device of their own, what refers to them, the networks of each        *)
(* wireless interface, the zones in their order, forwardings and rules.    *)
Config ==
    [net : SUBSET Nets, dev : SUBSET Nets, refs : SUBSET Refs,
     wifi : UNION {[on -> SUBSET Nets] : on \in SUBSET Wifis},
     zones : Seq(Zones), rules : SUBSET Rules]

(* The zone dialog: the position of its zone, its fields, and whether it   *)
(* can do what is asked.                                                   *)
Dialogs ==
    [at : 1..MaxZones, name : ZoneNames, nets : SUBSET Nets,
     out : SUBSET ZoneNames, inn : SUBSET ZoneNames, plain : BOOLEAN]

ASSUME DialogAssumption == None \notin Dialogs

(* The references of a configuration: what the zones cover, what rules and *)
(* forwardings name, and the interfaces that anything is attached to.      *)
ZonesResolve(c) == \A i \in DOMAIN c.zones : c.zones[i].nets \subseteq c.net

RulesResolve(c) ==
    \A r \in c.rules : {r.src, r.dest} \subseteq {c.zones[i].name : i \in DOMAIN c.zones}

Attached(c) == (UNION {c.wifi[w] : w \in DOMAIN c.wifi}) \cup {r.net : r \in c.refs}

(* The device is shipped with a configuration that is complete. *)
ASSUME StartAssumption ==
    /\ Start \in Config /\ Start.dev \subseteq Start.net /\ Len(Start.zones) <= MaxZones
    /\ ZonesResolve(Start) /\ RulesResolve(Start) /\ Attached(Start) \subseteq Start.net

VARIABLES
    cfg,     \* the configuration as the pages see it
    run,     \* what netifd runs
    ghosts,  \* names that were attached while their interface was deleted and still running
    asked,   \* the zone dialog saved in the last step
    edits

vars == <<cfg, run, ghosts, asked, edits>>

(* Type invariant. *)
TypeOK ==
    /\ cfg \in Config /\ cfg.dev \subseteq cfg.net /\ Len(cfg.zones) <= MaxZones
    /\ run.nets \subseteq Nets /\ \A w \in DOMAIN run.on : run.on[w] \subseteq run.nets
    /\ ghosts \subseteq Nets /\ asked \in Dialogs \cup {None} /\ edits \in 0..MaxEdits

-----------------------------------------------------------------------------
(* firewall.js *)

(* The position of the first zone of that name, 0 for none. *)
lookupZone(c, name) ==
    LET named == {i \in DOMAIN c.zones : c.zones[i].name = name}
    IN  IF named = {} THEN 0 ELSE Min(named)

getZoneByNetwork(c, n) ==
    LET covering == {i \in DOMAIN c.zones : n \in c.zones[i].nets}
    IN  IF covering = {} THEN 0 ELSE Min(covering)

(* The configuration with the networks of some zones replaced. *)
WithCovered(c, nets) ==
    [c EXCEPT !.zones = [i \in DOMAIN @ |->
        IF i \in DOMAIN nets THEN [name |-> @[i].name, nets |-> nets[i]] ELSE @[i]]]

(* A name that is taken is refused. *)
addZone(c, name) ==
    IF lookupZone(c, name) # 0 THEN c
    ELSE [c EXCEPT !.zones = Append(@, [name |-> name, nets |-> {}])]

(* The rules go with the name, whatever other zone has it too. *)
deleteZone(c, i) ==
    LET name == c.zones[i].name IN
    [c EXCEPT !.zones = SubSeq(@, 1, i - 1) \o SubSeq(@, i + 1, Len(@)),
              !.rules = {r \in @ : r.src # name /\ r.dest # name}]

renameZone(c, old, new) ==
    IF lookupZone(c, new) # 0 THEN c
    ELSE LET To(name) == IF name = old THEN new ELSE name IN
         [c EXCEPT !.zones = [i \in DOMAIN @ |-> [name |-> To(@[i].name), nets |-> @[i].nets]],
                   !.rules = {[r EXCEPT !.src = To(@), !.dest = To(@)] : r \in @}]

(* Zone.addNetwork refuses a name without a section. *)
ZoneAddNetwork(c, i, n) ==
    IF n \notin c.net THEN c ELSE WithCovered(c, [j \in {i} |-> c.zones[j].nets \cup {n}])

ZoneDeleteNetwork(c, i, n) == WithCovered(c, [j \in {i} |-> c.zones[j].nets \ {n}])

(* Firewall.deleteNetwork: every zone loses the network. *)
FirewallDeleteNetwork(c, n) ==
    WithCovered(c, [i \in DOMAIN c.zones |-> c.zones[i].nets \ {n}])

getForwardingsBy(c, what, name) ==
    {r \in c.rules : r.kind = "forwarding" /\ r[what] = name}

Forwarding(s, d) == [kind |-> "forwarding", src |-> s, dest |-> d]

(* Only to an existing zone other than the zone itself. *)
addForwardingTo(c, name, dests) ==
    {Forwarding(name, d) : d \in {d \in dests \ {name} : lookupZone(c, d) # 0}}

addForwardingFrom(c, name, srcs) ==
    {Forwarding(s, name) : s \in {s \in srcs \ {name} : lookupZone(c, s) # 0}}

-----------------------------------------------------------------------------
(* network.js *)

(* The networks that enumerateNetworks lists: sections and what netifd runs. *)
enumerateNetworks(c) == c.net \cup run.nets

(* getNetwork finds a network by either. *)
getNetwork(c, n) == n \in c.net \/ n \in run.nets

addNetwork(c, n) == IF getNetwork(c, n) THEN c ELSE [c EXCEPT !.net = @ \cup {n}]

MutDeleteKeepsZones(c, n) ==
    [c EXCEPT !.net = @ \ {n}, !.dev = @ \ {n}, !.refs = {r \in @ : r.net # n},
              !.wifi = [w \in DOMAIN @ |-> @[w] \ {n}]]

(* The interface and the sections that refer to it, then the zones. *)
deleteNetwork(c, n) ==
    FirewallDeleteNetwork(
        [c EXCEPT !.net = @ \ {n}, !.dev = @ \ {n},
                  !.refs = {r \in @ : r.net # n},
                  !.wifi = [w \in DOMAIN @ |-> @[w] \ {n}]], n)

(* Without a device of its own an interface counts as empty. *)
isEmpty(c, n) == n \notin c.dev

(* Protocol.addDevice and deleteDevice with a wireless interface. *)
addDevice(c, w, n) == [c EXCEPT !.wifi[w] = @ \cup {n}]
deleteDevice(c, w, ns) == [c EXCEPT !.wifi[w] = @ \ ns]

(* Device.getNetworks of a wireless interface: the ones configured on it   *)
(* that are known, and the ones that run on it.                            *)
getNetworks(c, w) ==
    (c.wifi[w] \cap enumerateNetworks(c)) \cup (IF w \in DOMAIN run.on THEN run.on[w] ELSE {})

(* netifd runs an interface directly on a wireless one that is all it has. *)
RunsOn(c) ==
    [w \in DOMAIN c.wifi |->
        {n \in (c.wifi[w] \cap c.net) \ c.dev : \A v \in DOMAIN c.wifi \ {w} : n \notin c.wifi[v]}]

(* The menus of tools/widgets.js: what they list, and any name if one can  *)
(* be entered.                                                             *)
NetworkSelect(c, create) == IF create THEN Nets ELSE enumerateNetworks(c)

ZoneSelect(c, create) ==
    {None} \cup IF create THEN ZoneNames ELSE {c.zones[i].name : i \in DOMAIN c.zones}

-----------------------------------------------------------------------------
(* Every edit: the names attached without a section are remembered. *)
Edit(c, dialog) ==
    /\ cfg' = c
    /\ ghosts' = (ghosts \cup ((Attached(c) \ Attached(cfg)) \cap run.nets)) \ c.net
    /\ asked' = dialog
    /\ UNCHANGED run

(* Interfaces: handleAdd with a name that no section has. *)
AddInterface(n, device) ==
    /\ n \notin cfg.net
    /\ Edit([cfg EXCEPT !.net = @ \cup {n}, !.dev = IF device THEN @ \cup {n} ELSE @], None)

RemoveInterface(n) == n \in cfg.net /\ Edit(deleteNetwork(cfg, n), None)

MutStaysInOldZone(c, n, z) ==
    IF z = None THEN c
    ELSE LET made == addZone(c, z) IN ZoneAddNetwork(made, lookupZone(made, z), n)

(* The zone of the interface dialog. *)
WriteZone(c, n, z) ==
    LET old == getZoneByNetwork(c, n)
        new == IF z = None THEN 0 ELSE lookupZone(c, z)
        left == IF old = 0 THEN c ELSE ZoneDeleteNetwork(c, old, n)
    IN  IF old # 0 /\ new # 0 /\ c.zones[old].name = c.zones[new].name THEN c
        ELSE IF z = None THEN left
        ELSE LET made == addZone(left, z) IN ZoneAddNetwork(made, lookupZone(made, z), n)

AssignZone(n, z) ==
    LET c == WriteZone(cfg, n, z) IN
    n \in cfg.net /\ Len(c.zones) <= MaxZones /\ Edit(c, None)

(* A DHCP server or a peer for an existing interface. *)
SetUp(kind, n) ==
    /\ kind \in Owned /\ n \in cfg.net
    /\ Edit([cfg EXCEPT !.refs = @ \cup {[kind |-> kind, net |-> n]}], None)

(* Routes: an interface of the list. *)
AddRoute(kind, n) ==
    /\ kind \in Routing /\ n \in NetworkSelect(cfg, FALSE)
    /\ Edit([cfg EXCEPT !.refs = @ \cup {[kind |-> kind, net |-> n]}], None)

-----------------------------------------------------------------------------
(* Wireless *)

next_free_sid(c, offset) == Min({k \in offset..MaxWifi + 1 : k \notin DOMAIN c.wifi})

WithWifi(c, w, ns) ==
    [c EXCEPT !.wifi = [v \in DOMAIN @ \cup {w} |-> IF v = w THEN ns ELSE @[v]]]

AddWifi ==
    LET w == next_free_sid(cfg, Cardinality(DOMAIN cfg.wifi)) IN
    w <= MaxWifi /\ Edit(WithWifi(cfg, w, {}), None)

RemoveWifi(w) ==
    /\ w \in DOMAIN cfg.wifi
    /\ Edit([cfg EXCEPT !.wifi = [v \in DOMAIN @ \ {w} |-> @[v]]], None)

(* The networks of the wireless dialog: only the difference to getNetworks *)
(* is written; unknown names get an interface.                             *)
WriteNetworks(c, w, ns) ==
    LET old == getNetworks(c, w)
        made == [c EXCEPT !.net = @ \cup {n \in ns \ old : ~getNetwork(c, n)}]
    IN  IF ns = {} THEN deleteDevice(c, w, c.wifi[w])
        ELSE deleteDevice([made EXCEPT !.wifi[w] = @ \cup (ns \ old)], w, old \ ns)

SaveWifi(w, ns) ==
    /\ w \in DOMAIN cfg.wifi /\ ns # cfg.wifi[w]
    /\ Edit(WriteNetworks(cfg, w, ns), None)

(* handleJoinConfirm: without the other wireless interfaces if they are to *)
(* be replaced; the new network leaves all zones and enters the chosen one. *)
Replaced(c, replace) == IF replace THEN [c EXCEPT !.wifi = <<>>] ELSE c

JoinSid(c, replace) == next_free_sid(Replaced(c, replace), Cardinality(DOMAIN c.wifi))

handleJoinConfirm(c, n, z, replace) ==
    LET joined == addNetwork(WithWifi(Replaced(c, replace), JoinSid(c, replace), {n}), n)
        made == FirewallDeleteNetwork(joined, n)
        zoned == addZone(made, z)
    IN  IF z = None THEN made ELSE ZoneAddNetwork(zoned, lookupZone(zoned, z), n)

(* nameUsed: only an interface with a device of its own refuses the name. *)
Join(n, z, replace) ==
    LET c == handleJoinConfirm(cfg, n, z, replace) IN
    /\ n \in cfg.net => isEmpty(cfg, n)
    /\ JoinSid(cfg, replace) <= MaxWifi /\ Len(c.zones) <= MaxZones
    /\ Edit(c, None)

-----------------------------------------------------------------------------
(* Firewall: the dialog of zone i.  A new zone gets its name at once.  The *)
(* forwardings are written in the same turn, under the name the zone has   *)
(* then; renameZone and the covered networks follow as callbacks, in this  *)
(* order, and the second looks for the zone by the name it had before.     *)

MutForwardsOnlyAdded(c, name, out, inn) ==
    [c EXCEPT !.rules = @ \cup addForwardingTo(c, name, out) \cup addForwardingFrom(c, name, inn)]

WriteForwardings(c, name, out, inn) ==
    LET outs == [c EXCEPT !.rules = (@ \ getForwardingsBy(c, "src", name))
                                    \cup (getForwardingsBy(c, "src", name)
                                             \cap {Forwarding(name, d) : d \in out})
                                    \cup addForwardingTo(c, name, out)]
    IN  [outs EXCEPT !.rules = (@ \ getForwardingsBy(outs, "dest", name))
                               \cup (getForwardingsBy(outs, "dest", name)
                                        \cap {Forwarding(s, name) : s \in inn})
                               \cup addForwardingFrom(outs, name, inn)]

WriteCovered(c, i, name, ns) ==
    LET j == lookupZone(c, name)
        made == [c EXCEPT !.net = @ \cup {n \in ns : ~getNetwork(c, n)}]
    IN  IF ns = c.zones[i].nets THEN c
        ELSE IF ns = {} THEN WithCovered(c, [k \in {i} |-> {}])
        ELSE IF j = 0 THEN made
        ELSE WithCovered(made, [k \in {j} |-> ns \cap made.net])

(* Dialog of an existing zone. *)
EditZone(c, i, name, ns, out, inn) ==
    LET old == c.zones[i].name
        forwarded == WriteForwardings(c, old, out, inn)
    IN  WriteCovered(IF name = old THEN forwarded ELSE renameZone(forwarded, old, name),
                     i, old, ns)

(* Dialog of a new zone. *)
NewZone(c, name, ns, out, inn) ==
    LET named == [c EXCEPT !.zones = Append(@, [name |-> name, nets |-> {}])]
    IN  WriteCovered(WriteForwardings(named, name, out, inn), Len(named.zones), name, ns)

(* What the dialog can do as asked: a name of its own, covered networks    *)
(* that have a section or are not known yet, and not both renamed and      *)
(* given other networks.                                                   *)
Plain(i, name, ns) ==
    /\ \A j \in DOMAIN cfg.zones \ {i} :
          cfg.zones[j].name # name /\ (i \in DOMAIN cfg.zones => cfg.zones[j].name # cfg.zones[i].name)
    /\ ns \cap run.nets \subseteq cfg.net
    /\ i \in DOMAIN cfg.zones => cfg.zones[i].name = name \/ ns \in {cfg.zones[i].nets, {}}

Dialog(i, name, ns, out, inn) ==
    [at |-> i, name |-> name, nets |-> ns, out |-> out, inn |-> inn, plain |-> Plain(i, name, ns)]

(* The zones offered. *)
ZoneChoices(name) == SUBSET (ZoneSelect(cfg, FALSE) \ {name, None})

Dests(c, name) == {r.dest : r \in getForwardingsBy(c, "src", name)}
Sources(c, name) == {r.src : r \in getForwardingsBy(c, "dest", name)}

(* Bound: the edits are counted, a zone dialog as often as it changes one  *)
(* of the covered networks and the two directions of forwarding.           *)
Spend(n) == edits + n <= MaxEdits /\ edits' = edits + n

Settings(i, ns, out, inn) ==
    LET new  == i \notin DOMAIN cfg.zones
        nets == IF new THEN {} ELSE cfg.zones[i].nets
        dest == IF new THEN {} ELSE Dests(cfg, cfg.zones[i].name)
        src  == IF new THEN {} ELSE Sources(cfg, cfg.zones[i].name)
        One(differs) == IF differs THEN 1 ELSE 0
        all  == One(ns # nets) + One(out # dest) + One(inn # src)
    IN  IF all = 0 THEN 1 ELSE all

SaveZone(i, name, ns, out, inn) ==
    /\ i \in DOMAIN cfg.zones
    /\ out \in ZoneChoices(cfg.zones[i].name) /\ inn \in ZoneChoices(cfg.zones[i].name)
    /\ Spend(Settings(i, ns, out, inn))
    /\ Edit(EditZone(cfg, i, name, ns, out, inn),
            Dialog(i, name, ns, out, inn))

CreateZone(name, ns, out, inn) ==
    LET i == Len(cfg.zones) + 1 IN
    /\ i <= MaxZones
    /\ out \in ZoneChoices(None) /\ inn \in ZoneChoices(None)
    /\ Spend(Settings(i, ns, out, inn))
    /\ Edit(NewZone(cfg, name, ns, out, inn),
            Dialog(i, name, ns, out, inn))

RemoveZone(i) == i \in DOMAIN cfg.zones /\ Edit(deleteZone(cfg, i), None)

(* A traffic rule between two zones of the list. *)
AddRule(i, j) ==
    /\ i \in DOMAIN cfg.zones /\ j \in DOMAIN cfg.zones \ {i}
    /\ Edit([cfg EXCEPT !.rules = @ \cup {[kind |-> "rule", src |-> cfg.zones[i].name,
                                           dest |-> cfg.zones[j].name]}], None)

(* Save & Apply: netifd takes over the configuration. *)
Apply ==
    /\ run' = [nets |-> cfg.net, on |-> RunsOn(cfg)] /\ run' # run
    /\ asked' = None
    /\ UNCHANGED <<cfg, ghosts, edits>>
-----------------------------------------------------------------------------
Init ==
    /\ cfg = Start
    /\ run = [nets |-> Start.net, on |-> RunsOn(Start)]
    /\ ghosts = {} /\ asked = None /\ edits = 0

Next ==
    \/ /\ Spend(1)
       /\ \/ \E n \in Nets :
              \/ \E device \in BOOLEAN : AddInterface(n, device)
              \/ RemoveInterface(n)
              \/ \E z \in ZoneSelect(cfg, TRUE) : AssignZone(n, z)
              \/ \E kind \in Kinds : SetUp(kind, n) \/ AddRoute(kind, n)
              \/ \E z \in ZoneNames \cup {None}, replace \in BOOLEAN : Join(n, z, replace)
          \/ AddWifi
          \/ \E w \in Wifis : RemoveWifi(w) \/ \E ns \in SUBSET NetworkSelect(cfg, TRUE) : SaveWifi(w, ns)
          \/ \E i \in 1..MaxZones :
              \/ RemoveZone(i)
              \/ \E j \in 1..MaxZones : AddRule(i, j)
    \/ /\ edits < MaxEdits
       /\ \E name \in ZoneNames, ns \in SUBSET Nets, out, inn \in SUBSET ZoneNames :
            \/ \E i \in 1..MaxZones : SaveZone(i, name, ns, out, inn)
            \/ CreateZone(name, ns, out, inn)
    \/ Apply

Spec == Init /\ [][Next]_vars

-----------------------------------------------------------------------------
(* No reference is left behind: zones cover only interfaces that have a    *)
(* section, rules and forwardings name existing zones, and routes, rules,  *)
(* DHCP servers, peers and wireless networks name existing interfaces, but *)
(* for the names that were chosen while their interface was deleted and    *)
(* still running, which getNetwork finds and therefore does not create.    *)
ReferencesResolve ==
    /\ ZonesResolve(cfg) /\ RulesResolve(cfg)
    /\ Attached(cfg) \subseteq cfg.net \cup ghosts

(* A saved zone dialog leaves the zone with the name, the covered networks *)
(* and the forwardings that were chosen, whatever was edited before,       *)
(* except in the cases that Plain leaves out.                              *)
ZoneAsChosen ==
    asked # None /\ asked.plain =>
        LET z == cfg.zones[asked.at] IN
        /\ z.name = asked.name /\ z.nets = asked.nets
        /\ Dests(cfg, z.name) = asked.out /\ Sources(cfg, z.name) = asked.inn

Covering(c, n) == {i \in DOMAIN c.zones : n \in c.zones[i].nets}

(* Only the zone dialog may make a network a member of a second zone: the  *)
(* interface dialog and a joined wireless network move it.                 *)
KeepsOneZone ==
    [][\A n \in Nets :
          Cardinality(Covering(cfg', n)) > 1 =>
              \/ Cardinality(Covering(cfg', n)) <= Cardinality(Covering(cfg, n))
              \/ asked' # None]_vars
=============================================================================
