---------------------------- MODULE PoeDaemonProofs ----------------------------
(***************************************************************************)
(* Proofs about PoeDaemon, for every number of ports, every configuration, *)
(* and queues of any length.                                               *)
(***************************************************************************)
EXTENDS PoeDaemon, SequenceTheorems, WellFoundedInduction, TLAPS

USE DaemonAssumption

-----------------------------------------------------------------------------
(* Least and greatest numbers *)

(* A non-empty set of naturals has a least element, and Min is it. *)
LEMMA MinIsLeast ==
  ASSUME NEW S \in SUBSET Nat, S # {}
  PROVE  Min(S) \in S /\ \A y \in S : Min(S) <= y
<1>1. \E x \in S : \A y \in S : ~(<<y, x>> \in OpToRel(<, Nat))
  BY NatLessThanWellFounded, WFMin
<1>2. PICK x \in S : \A y \in S : ~(<<y, x>> \in OpToRel(<, Nat))
  BY <1>1
<1>3. ASSUME NEW y \in S, y < x
      PROVE  FALSE
  <2> DEFINE R == {ss \in Nat \X Nat : ss[1] < ss[2]}
  <2>1. OpToRel(<, Nat) = R
    BY Zenon DEF OpToRel
  <2>2. <<y, x>> \in R
    BY <1>3
  <2>3. QED
    BY <1>2, <2>1, <2>2, Zenon
<1>4. \A y \in S : x <= y
  <2> TAKE y \in S
  <2>1. ~(y < x) /\ x \in Nat /\ y \in Nat
    BY <1>3
  <2>2. QED
    BY <2>1
<1>5. QED
  BY <1>4 DEF Min

(* A non-empty set of naturals with a bound has a greatest element, and    *)
(* Max is it.                                                              *)
LEMMA MaxIsGreatest ==
  ASSUME NEW b \in Nat, NEW S \in SUBSET (0 .. b), S # {}
  PROVE  Max(S) \in S /\ \A y \in S : y <= Max(S)
<1> DEFINE D == {b - y : y \in S}
<1>1. D \in SUBSET Nat /\ D # {}
  <2>1. \A y \in S : b - y \in Nat
    OBVIOUS
  <2>2. PICK y \in S : TRUE
    OBVIOUS
  <2>3. b - y \in D
    OBVIOUS
  <2>4. QED
    BY <2>1, <2>3
<1>2. Min(D) \in D /\ \A d \in D : Min(D) <= d
  BY <1>1, MinIsLeast
<1>3. PICK x \in S : Min(D) = b - x
  BY <1>2
<1>4. \A y \in S : x >= y
  <2> TAKE y \in S
  <2>1. b - x <= b - y
    BY <1>2, <1>3
  <2>2. QED
    BY <2>1
<1>5. QED
  BY <1>4 DEF Max

(* The poll of n ports in groups of GroupSize names groups below n only. *)
LEMMA GroupsBelow ==
  ASSUME NEW n \in Nat, NEW k \in 1 .. (n + GroupSize - 1) \div GroupSize
  PROVE  k - 1 \in 0 .. n - 1
<1> DEFINE q == (n + GroupSize - 1) \div GroupSize
<1>1. GroupSize \in Nat /\ GroupSize >= 1 /\ n + GroupSize - 1 \in Nat
  OBVIOUS
<1>2. q \in Nat /\ GroupSize * q <= n + GroupSize - 1
  BY <1>1
<1>3. k \in Nat /\ 1 <= k /\ k <= q
  BY <1>2
<1>4. GroupSize * k <= GroupSize * q
  BY <1>1, <1>2, <1>3
<1>5. GroupSize * (k - 1) >= k - 1
  BY <1>1, <1>3
<1>6. GroupSize * (k - 1) = GroupSize * k - GroupSize
  BY <1>1, <1>3
<1>7. GroupSize * k \in Int /\ GroupSize * (k - 1) \in Int /\ GroupSize * q \in Int
  BY <1>1, <1>2, <1>3
<1> HIDE DEF q
<1>8. QED
  BY <1>1, <1>2, <1>3, <1>4, <1>5, <1>6, <1>7

-----------------------------------------------------------------------------
(* The configuration *)

LEMMA ConfigType ==
  ASSUME NEW c \in Configs
  PROVE  config_ports(c) \in [Port -> PortConfig]
<1>1. c \in Uci /\ c.poe \in Seq(Section) /\ c.lan \in Seq(BOOLEAN)
  BY DEF Uci
<1>2. ASSUME NEW p \in Port
      PROVE  NameOf(c, p) \in Names \cup {NoName} /\ EnableOf(c, p) \in BOOLEAN
  <2> DEFINE mine == {k \in DOMAIN c.poe : c.poe[k].id = p + 1}
  <2>1. EnableOf(c, p) \in BOOLEAN
    <3>1. CASE p + 1 \in DOMAIN c.lan
      BY <1>1, <3>1 DEF EnableOf
    <3>2. CASE p + 1 \notin DOMAIN c.lan
      BY <3>2 DEF EnableOf
    <3>3. QED
      BY <3>1, <3>2
  <2>2. CASE mine = {}
    BY <2>1, <2>2 DEF NameOf
  <2>3. CASE mine # {}
    <3>1. Len(c.poe) \in Nat /\ mine \in SUBSET (0 .. Len(c.poe))
      BY <1>1
    <3>2. Max(mine) \in mine
      BY <2>3, <3>1, MaxIsGreatest
    <3>3. c.poe[Max(mine)] \in Section
      <4>1. Max(mine) \in DOMAIN c.poe
        BY <3>2
      <4> HIDE DEF mine
      <4>2. QED
        BY <1>1, <4>1
    <3>4. NameOf(c, p) = c.poe[Max(mine)].name
      BY <2>3 DEF NameOf
    <3>5. QED
      BY <2>1, <3>3, <3>4 DEF Section
  <2>4. QED
    BY <2>2, <2>3
<1>3. QED
  BY <1>2 DEF config_ports, PortConfig

(* The count never shrinks and stays below MAX_PORT, whatever the ids. *)
LEMMA CountType ==
  ASSUME NEW c \in Configs, NEW n \in 0 .. MAX_PORT
  PROVE  CountAfter(c, n) \in 0 .. MAX_PORT /\ n <= CountAfter(c, n)
<1> DEFINE ids == {c.poe[k].id : k \in {j \in DOMAIN c.poe : Valid(c.poe[j])}}
<1>1. {n} \cup ids \in SUBSET (0 .. MAX_PORT) /\ {n} \cup ids # {}
  BY DEF Valid
<1>2. Max({n} \cup ids) \in {n} \cup ids /\ \A y \in {n} \cup ids : y <= Max({n} \cup ids)
  BY <1>1, MaxIsGreatest
<1>3. QED
  BY <1>1, <1>2 DEF CountAfter

-----------------------------------------------------------------------------
(* The last command queued for a port *)

IsFor(c, p) == c.op = "enable" /\ c.port = p

(* Some command of q is for p. *)
Has(q, p) == \E k \in DOMAIN q : IsFor(q[k], p)

(* The last command for p in q says e. *)
Final(q, p, e) ==
  \E k \in DOMAIN q : /\ IsFor(q[k], p) /\ q[k].on = e
                      /\ \A j \in DOMAIN q : j > k => ~IsFor(q[j], p)

LEMMA CommandFields ==
  /\ \A p \in Port, e \in BOOLEAN :
       /\ EnableCmd(p, e) \in Command
       /\ EnableCmd(p, e).op = "enable" /\ EnableCmd(p, e).port = p /\ EnableCmd(p, e).on = e
  /\ \A g \in Port : StatusCmd(g) \in Command /\ StatusCmd(g).op = "status"
  /\ \A c \in Command :
       \/ c.op = "enable" /\ c.port \in Port /\ c.on \in BOOLEAN
       \/ c.op = "status" /\ c.group \in Port
<1>1. \A p, e : /\ EnableCmd(p, e).op = "enable"
                 /\ EnableCmd(p, e).port = p /\ EnableCmd(p, e).on = e
  BY DEF EnableCmd
<1>2. \A g : StatusCmd(g).op = "status" /\ StatusCmd(g).group = g
  BY DEF StatusCmd
<1>3. \A p \in Port, e \in BOOLEAN : EnableCmd(p, e) \in Command
  BY DEF Command
<1>4. \A g \in Port : StatusCmd(g) \in Command
  BY DEF Command
<1>5. \A c \in Command : \/ \E p \in Port, e \in BOOLEAN : c = EnableCmd(p, e)
                         \/ \E g \in Port : c = StatusCmd(g)
  BY DEF Command
<1>6. QED
  BY <1>1, <1>2, <1>3, <1>4, <1>5

(* The commands of poe_port_setup are for the ports below the count, one   *)
(* each.                                                                   *)
LEMMA SetupType ==
  ASSUME NEW cfg \in [Port -> PortConfig], NEW n \in 0 .. MAX_PORT
  PROVE  /\ poe_port_setup(cfg, n) \in Seq(Command)
         /\ Len(poe_port_setup(cfg, n)) = n
         /\ \A k \in 1 .. n : /\ poe_port_setup(cfg, n)[k].op = "enable"
                              /\ poe_port_setup(cfg, n)[k].port = k - 1
                              /\ poe_port_setup(cfg, n)[k].on = cfg[k - 1].enable
<1>1. \A k \in 1 .. n : k - 1 \in Port
  BY DEF Port
<1>2. \A k \in 1 .. n : cfg[k - 1].enable \in BOOLEAN
  BY <1>1 DEF PortConfig
<1>3. \A k \in 1 .. n : EnableCmd(k - 1, cfg[k - 1].enable) \in Command
  BY <1>1, <1>2, CommandFields
<1>4. QED
  BY <1>1, <1>2, <1>3, CommandFields DEF poe_port_setup

LEMMA AfterSetup ==
  ASSUME NEW cfg \in [Port -> PortConfig], NEW n \in 0 .. MAX_PORT,
         NEW q \in Seq(Command), NEW p \in Port
  PROVE  LET r == q \o poe_port_setup(cfg, n) IN
           /\ r \in Seq(Command)
           /\ \A k \in DOMAIN r : r[k].op = "enable" =>
                r[k].port < n \/ (\E j \in DOMAIN q : r[k] = q[j])
           /\ p < n => /\ Has(r, p)
                       /\ \A e : Final(r, p, e) => e = cfg[p].enable
           /\ ~(p < n) => /\ Has(q, p) => Has(r, p)
                          /\ \A e : Final(r, p, e) => Final(q, p, e)
<1> DEFINE s == poe_port_setup(cfg, n)
           r == q \o s
<1>1. /\ s \in Seq(Command) /\ Len(s) = n
      /\ \A k \in 1 .. n : s[k].op = "enable" /\ s[k].port = k - 1 /\ s[k].on = cfg[k - 1].enable
  BY SetupType
<1> HIDE DEF s
<1>2. /\ r \in Seq(Command) /\ Len(r) = Len(q) + n /\ Len(q) \in Nat
      /\ DOMAIN r = 1 .. Len(q) + n /\ DOMAIN q = 1 .. Len(q)
  <2>1. r \in Seq(Command) /\ Len(r) = Len(q) + Len(s)
    BY <1>1, ConcatProperties
  <2> HIDE DEF r
  <2>2. QED
    BY <1>1, <2>1
<1>3. \A k \in 1 .. Len(q) : r[k] = q[k]
  BY <1>1, <1>2
<1>4. \A k \in Len(q) + 1 .. Len(q) + n : r[k] = s[k - Len(q)]
  BY <1>1, <1>2
<1> HIDE DEF r
<1>5. ASSUME NEW k \in Len(q) + 1 .. Len(q) + n
      PROVE  /\ r[k].op = "enable" /\ r[k].port = k - Len(q) - 1
             /\ r[k].on = cfg[k - Len(q) - 1].enable
  <2>1. k - Len(q) \in 1 .. n
    BY <1>2
  <2>2. QED
    BY <1>1, <1>4, <2>1
<1>6. \A k \in DOMAIN r : r[k].op = "enable" =>
         r[k].port < n \/ (\E j \in DOMAIN q : r[k] = q[j])
  BY <1>2, <1>3, <1>5
<1>7. ASSUME p < n
      PROVE  Has(r, p) /\ \A e : Final(r, p, e) => e = cfg[p].enable
  <2> DEFINE own == Len(q) + p + 1
  <2>1. own \in Len(q) + 1 .. Len(q) + n /\ own - Len(q) - 1 = p /\ own \in DOMAIN r
    BY <1>2, <1>7 DEF Port
  <2> HIDE DEF own
  <2>2. IsFor(r[own], p) /\ r[own].on = cfg[p].enable
    BY <1>5, <2>1 DEF IsFor
  <2>3. ASSUME NEW k \in Len(q) + 1 .. Len(q) + n, IsFor(r[k], p)
        PROVE  k = own
    <3>1. k - Len(q) - 1 = p
      BY <1>5, <2>3 DEF IsFor
    <3>2. QED
      BY <1>2, <2>1, <3>1
  <2>4. ASSUME NEW e, Final(r, p, e)
        PROVE  e = cfg[p].enable
    <3>1. PICK k \in DOMAIN r : /\ IsFor(r[k], p) /\ r[k].on = e
                                /\ \A j \in DOMAIN r : j > k => ~IsFor(r[j], p)
      BY <2>4 DEF Final
    <3>2. ~(own > k)
      BY <2>1, <2>2, <3>1
    <3>3. k \in Len(q) + 1 .. Len(q) + n
      BY <1>2, <2>1, <3>2
    <3>4. QED
      BY <2>2, <2>3, <3>1, <3>3
  <2>5. QED
    BY <2>1, <2>2, <2>4 DEF Has
<1>8. ASSUME ~(p < n)
      PROVE  /\ Has(q, p) => Has(r, p)
             /\ \A e : Final(r, p, e) => Final(q, p, e)
  <2>1. ASSUME NEW k \in DOMAIN r, IsFor(r[k], p)
        PROVE  k \in DOMAIN q
    <3>1. CASE k \in Len(q) + 1 .. Len(q) + n
      <4>1. k - Len(q) - 1 = p
        BY <1>5, <2>1, <3>1 DEF IsFor
      <4>2. QED
        BY <1>2, <1>8, <3>1, <4>1
    <3>2. QED
      BY <1>2, <3>1
  <2>2. ASSUME NEW e, Final(r, p, e)
        PROVE  Final(q, p, e)
    <3>1. PICK k \in DOMAIN r : /\ IsFor(r[k], p) /\ r[k].on = e
                                /\ \A j \in DOMAIN r : j > k => ~IsFor(r[j], p)
      BY <2>2 DEF Final
    <3>2. k \in DOMAIN q
      BY <2>1, <3>1
    <3>3. \A j \in DOMAIN q : j \in DOMAIN r /\ r[j] = q[j]
      BY <1>2, <1>3
    <3>4. QED
      BY <3>1, <3>2, <3>3 DEF Final
  <2>3. Has(q, p) => Has(r, p)
    BY <1>2, <1>3 DEF Has
  <2>4. QED
    BY <2>2, <2>3
<1>9. QED
  BY <1>2, <1>6, <1>7, <1>8 DEF r, s

LEMMA AfterAppend ==
  ASSUME NEW q \in Seq(Command), NEW d \in Port, NEW b \in BOOLEAN, NEW p \in Port
  PROVE  LET r == Append(q, EnableCmd(d, b)) IN
           /\ r \in Seq(Command)
           /\ \A k \in DOMAIN r : r[k].op = "enable" =>
                r[k].port = d \/ (\E j \in DOMAIN q : r[k] = q[j])
           /\ p = d => /\ Has(r, p)
                       /\ \A e : Final(r, p, e) => e = b
           /\ p # d => /\ Has(q, p) => Has(r, p)
                       /\ \A e : Final(r, p, e) => Final(q, p, e)
<1> DEFINE c == EnableCmd(d, b)
           r == Append(q, c)
<1>1. c \in Command /\ c.op = "enable" /\ c.port = d /\ c.on = b
  BY CommandFields
<1> HIDE DEF c
<1>2. /\ r \in Seq(Command) /\ Len(r) = Len(q) + 1 /\ Len(q) \in Nat
      /\ DOMAIN r = 1 .. Len(q) + 1 /\ DOMAIN q = 1 .. Len(q)
      /\ \A k \in 1 .. Len(q) : r[k] = q[k]
      /\ r[Len(q) + 1] = c
  BY <1>1
<1> HIDE DEF r
<1>3. \A k \in DOMAIN r : k \in DOMAIN q \/ k = Len(q) + 1
  BY <1>2
<1>4. ASSUME p = d
      PROVE  Has(r, p) /\ \A e : Final(r, p, e) => e = b
  <2>1. Len(q) + 1 \in DOMAIN r /\ IsFor(r[Len(q) + 1], p) /\ r[Len(q) + 1].on = b
    BY <1>1, <1>2, <1>4 DEF IsFor
  <2>2. \A k \in DOMAIN q : Len(q) + 1 > k
    BY <1>2
  <2>3. QED
    BY <1>3, <2>1, <2>2 DEF Has, Final
<1>5. ASSUME p # d
      PROVE  /\ Has(q, p) => Has(r, p)
             /\ \A e : Final(r, p, e) => Final(q, p, e)
  <2>1. \A k \in DOMAIN r : IsFor(r[k], p) => k \in DOMAIN q
    BY <1>1, <1>2, <1>3, <1>5 DEF IsFor
  <2>2. \A k \in DOMAIN q : k \in DOMAIN r /\ r[k] = q[k]
    BY <1>2
  <2>3. QED
    BY <2>1, <2>2 DEF Has, Final
<1>6. \A k \in DOMAIN r : r[k].op = "enable" =>
         r[k].port = d \/ (\E j \in DOMAIN q : r[k] = q[j])
  BY <1>1, <1>2, <1>3
<1>7. QED
  BY <1>2, <1>4, <1>5, <1>6 DEF r, c

(* Commands that are not for a port, behind those of q, decide nothing. *)
LEMMA AfterOthers ==
  ASSUME NEW q \in Seq(Command), NEW s \in Seq(Command),
         \A k \in DOMAIN s : s[k].op # "enable"
  PROVE  /\ q \o s \in Seq(Command)
         /\ \A k \in DOMAIN (q \o s) : (q \o s)[k].op = "enable" =>
              \E j \in DOMAIN q : (q \o s)[k] = q[j]
         /\ \A p \in Port : Has(q, p) => Has(q \o s, p)
         /\ \A p \in Port, e \in BOOLEAN : Final(q \o s, p, e) => Final(q, p, e)
<1> DEFINE r == q \o s
<1>1. /\ r \in Seq(Command) /\ Len(r) = Len(q) + Len(s)
      /\ \A i \in 1 .. Len(q) + Len(s) : r[i] = IF i <= Len(q) THEN q[i] ELSE s[i - Len(q)]
  BY ConcatProperties
<1> HIDE DEF r
<1>2. /\ Len(q) \in Nat /\ Len(s) \in Nat /\ DOMAIN q = 1 .. Len(q) /\ DOMAIN s = 1 .. Len(s)
      /\ DOMAIN r = 1 .. Len(q) + Len(s)
  BY <1>1
<1>3. \A k \in DOMAIN q : k \in DOMAIN r /\ r[k] = q[k]
  BY <1>1, <1>2
<1>4. ASSUME NEW k \in DOMAIN r, r[k].op = "enable"
      PROVE  k \in DOMAIN q
  <2>1. CASE ~(k <= Len(q))
    <3>1. k - Len(q) \in DOMAIN s
      BY <1>2, <2>1
    <3>2. r[k] = s[k - Len(q)]
      BY <1>1, <1>2, <2>1
    <3>3. QED
      BY <1>4, <3>1, <3>2
  <2>2. QED
    BY <1>2, <2>1
<1>5. \A p \in Port, e \in BOOLEAN : Final(r, p, e) => Final(q, p, e)
  BY <1>3, <1>4 DEF Final, IsFor
<1>6. QED
  BY <1>1, <1>3, <1>4, <1>5 DEF r, Has

LEMMA AfterTail ==
  ASSUME NEW q \in Seq(Command), q # <<>>
  PROVE  /\ Head(q) \in Command
         /\ Tail(q) \in Seq(Command)
         /\ \A k \in DOMAIN Tail(q) : \E j \in DOMAIN q : Tail(q)[k] = q[j]
         /\ \A p \in Port, e \in BOOLEAN : Final(Tail(q), p, e) => Final(q, p, e)
         /\ \A p \in Port : Has(q, p) => Has(Tail(q), p) \/ IsFor(Head(q), p)
         /\ \A p \in Port : IsFor(Head(q), p) /\ ~Has(Tail(q), p) => Final(q, p, Head(q).on)
<1> DEFINE t == Tail(q)
<1>1. /\ Head(q) \in Command /\ t \in Seq(Command) /\ Len(t) = Len(q) - 1
      /\ \A i \in 1 .. Len(t) : t[i] = q[i + 1]
  BY HeadTailProperties
<1> HIDE DEF t
<1>2. /\ Len(q) \in Nat \ {0} /\ DOMAIN q = 1 .. Len(q) /\ DOMAIN t = 1 .. Len(q) - 1
      /\ Head(q) = q[1]
  BY <1>1
<1>3. \A k \in DOMAIN t : k + 1 \in DOMAIN q /\ t[k] = q[k + 1]
  BY <1>1, <1>2
<1>4. \A k \in DOMAIN q : k = 1 \/ (k - 1 \in DOMAIN t /\ q[k] = t[k - 1])
  <2> TAKE k \in DOMAIN q
  <2>1. CASE k # 1
    <3>1. k - 1 \in DOMAIN t /\ (k - 1) + 1 = k
      BY <1>2, <2>1
    <3>2. QED
      BY <1>3, <3>1
  <2>2. QED
    BY <2>1
<1>5. ASSUME NEW p \in Port, NEW e \in BOOLEAN, Final(t, p, e)
      PROVE  Final(q, p, e)
  <2>1. PICK k \in DOMAIN t : /\ IsFor(t[k], p) /\ t[k].on = e
                              /\ \A j \in DOMAIN t : j > k => ~IsFor(t[j], p)
    BY <1>5 DEF Final
  <2>2. k + 1 \in DOMAIN q /\ IsFor(q[k + 1], p) /\ q[k + 1].on = e
    BY <1>3, <2>1
  <2>3. ASSUME NEW j \in DOMAIN q, j > k + 1
        PROVE  ~IsFor(q[j], p)
    <3>1. j - 1 \in DOMAIN t /\ q[j] = t[j - 1] /\ j - 1 > k
      BY <1>2, <1>4, <2>3
    <3>2. QED
      BY <2>1, <3>1
  <2>4. QED
    BY <2>2, <2>3 DEF Final
<1>6. ASSUME NEW p \in Port, IsFor(Head(q), p), ~Has(t, p)
      PROVE  Final(q, p, Head(q).on)
  <2>1. \A j \in DOMAIN q : j > 1 => ~IsFor(q[j], p)
    BY <1>2, <1>4, <1>6 DEF Has
  <2>2. 1 \in DOMAIN q
    BY <1>2
  <2>3. QED
    BY <1>2, <1>6, <2>1, <2>2 DEF Final
<1>7. \A p \in Port : Has(q, p) => Has(t, p) \/ IsFor(Head(q), p)
  BY <1>2, <1>4 DEF Has
<1>8. \A k \in DOMAIN t : \E j \in DOMAIN q : t[k] = q[j]
  BY <1>3
<1>9. QED
  BY <1>1, <1>5, <1>6, <1>7, <1>8 DEF t

-----------------------------------------------------------------------------
(* The inductive invariant: every queued command is for a port of the      *)
(* daemon, the last one for a port leaves it as the configuration and      *)
(* manage want it, and a port without one is that way already.  An aborted *)
(* command or a restart breaks the parts about power, but not that the     *)
(* last command for a port that is not enabled turns it off.               *)

Wanted(p) == p < port_count /\ ports[p].enable /\ p \notin managedOff

QueuedInRange == \A k \in DOMAIN queue : queue[k].op = "enable" => queue[k].port < port_count

LastDecides ==
  \A p \in Port, e \in BOOLEAN : Final(queue, p, e) =>
    /\ ports[p].enable \/ ~e
    /\ Undisturbed => (e <=> Wanted(p))

SettledIsWanted ==
  Undisturbed => \A p \in Port : Has(queue, p) \/ (p \in on <=> Wanted(p))

Inv == TypeOK /\ QueuedInRange /\ LastDecides /\ SettledIsWanted

(* An enabled flag of the loaded configuration is a Boolean. *)
LEMMA Flags == TypeOK => \A p \in Port : ports[p].enable \in BOOLEAN
BY DEF TypeOK, PortConfig

(* An empty queue has no commands. *)
LEMMA EmptyQueue ==
  /\ <<>> \in Seq(Command)
  /\ \A p : ~Has(<<>>, p)
  /\ \A p, e : ~Final(<<>>, p, e)
<1>1. <<>> \in Seq(Command) /\ DOMAIN <<>> = {}
  OBVIOUS
<1>2. QED
  BY <1>1 DEF Has, Final

LEMMA InitInv == Init => Inv
<1> SUFFICES ASSUME Init
             PROVE  Inv
  OBVIOUS
<1> DEFINE s == poe_port_setup(ports, port_count)
<1>1. uci \in Configs /\ ports \in [Port -> PortConfig] /\ port_count \in 0 .. MAX_PORT
  <2>1. 0 \in 0 .. MAX_PORT
    OBVIOUS
  <2>2. QED
    BY <2>1, ConfigType, CountType DEF Init
<1>2. s \in Seq(Command) /\ <<>> \o s = s
  BY <1>1, SetupType, ConcatEmptySeq
<1>3. \A p \in Port :
        /\ \A k \in DOMAIN s : s[k].op = "enable" => s[k].port < port_count
        /\ p < port_count => Has(s, p) /\ \A e : Final(s, p, e) => e = ports[p].enable
        /\ ~(p < port_count) => \A e : ~Final(s, p, e)
  <2> TAKE p \in Port
  <2>1. PICK none \in Seq(Command) : none = <<>>
    BY EmptyQueue
  <2> DEFINE r == none \o s
  <2>2. /\ \A k \in DOMAIN r : r[k].op = "enable" =>
             r[k].port < port_count \/ (\E j \in DOMAIN none : r[k] = none[j])
        /\ p < port_count => Has(r, p) /\ \A e : Final(r, p, e) => e = ports[p].enable
        /\ ~(p < port_count) => \A e : Final(r, p, e) => Final(none, p, e)
    BY <1>1, AfterSetup
  <2>3. r = s /\ DOMAIN none = {}
    BY <1>2, <2>1
  <2> HIDE DEF r, s
  <2>4. \A k \in DOMAIN r : r[k].op = "enable" => r[k].port < port_count
    BY <2>2, <2>3
  <2>5. QED
    BY <2>1, <2>2, <2>3, <2>4, EmptyQueue
<1>4. queue = s /\ on = {} /\ managedOff = {}
  BY DEF Init
<1>5. TypeOK
  <2>1. \A x \in {0} : [p \in Port |-> x] \in [Port -> Status]
    BY DEF Status, Disabled
  <2>2. QED
    BY <1>1, <1>2, <1>4, <2>1 DEF Init, TypeOK, Disabled
<1>6. \A p \in Port : ports[p].enable \in BOOLEAN
  BY <1>5, Flags
<1> HIDE DEF s
<1>7. QueuedInRange
  <2>1. 0 \in Port
    BY DEF Port
  <2>2. QED
    BY <1>3, <1>4, <2>1 DEF QueuedInRange
<1>8. LastDecides
  BY <1>3, <1>4, <1>6 DEF LastDecides, Wanted
<1>9. SettledIsWanted
  BY <1>3, <1>4 DEF SettledIsWanted, Wanted
<1>10. QED
  BY <1>5, <1>7, <1>8, <1>9 DEF Inv

LEMMA ReloadStep == Inv /\ ubus_poe_reload_cb => Inv'
<1> SUFFICES ASSUME Inv, ubus_poe_reload_cb
             PROVE  Inv'
  OBVIOUS
<1> DEFINE r == queue \o poe_port_setup(ports', port_count')
<1>1. TypeOK /\ QueuedInRange /\ LastDecides /\ SettledIsWanted
  BY DEF Inv
<1>2. /\ ports' \in [Port -> PortConfig] /\ port_count' \in 0 .. MAX_PORT
      /\ port_count <= port_count'
  BY <1>1, ConfigType, CountType DEF TypeOK, ubus_poe_reload_cb
<1>3. /\ queue' = r /\ managedOff' = {} /\ on' = on /\ queue \in Seq(Command)
      /\ port_count \in 0 .. MAX_PORT /\ (Undisturbed' => Undisturbed)
  BY <1>1 DEF ubus_poe_reload_cb, TypeOK, mcu, Undisturbed
<1>4. \A p \in Port :
        /\ r \in Seq(Command)
        /\ \A k \in DOMAIN r : r[k].op = "enable" =>
              r[k].port < port_count' \/ (\E j \in DOMAIN queue : r[k] = queue[j])
        /\ p < port_count' => Has(r, p) /\ \A e : Final(r, p, e) => e = ports'[p].enable
        /\ ~(p < port_count') => /\ Has(queue, p) => Has(r, p)
                                 /\ \A e : Final(r, p, e) => Final(queue, p, e)
  BY <1>2, <1>3, AfterSetup
<1> HIDE DEF r
<1>5. 0 \in Port
  BY DEF Port
<1>6. TypeOK'
  <2>1. queue' \in Seq(Command)
    BY <1>3, <1>4, <1>5
  <2>2. QED
    BY <1>1, <1>2, <1>3, <2>1 DEF TypeOK, ubus_poe_reload_cb, mcu
<1>7. \A p \in Port : ports'[p].enable \in BOOLEAN
  BY <1>6 DEF TypeOK, PortConfig
<1>8. \A k \in DOMAIN queue : queue[k].op = "enable" => queue[k].port \in Nat
  BY <1>3, CommandFields DEF Port
<1>9. QueuedInRange'
  BY <1>1, <1>2, <1>3, <1>4, <1>5, <1>8 DEF QueuedInRange
<1>10. ASSUME NEW p \in Port, ~(p < port_count')
       PROVE  ~(p < port_count) /\ ~Has(queue, p)
  <2>1. ~(p < port_count)
    BY <1>2, <1>3, <1>10 DEF Port
  <2>2. QED
    BY <1>1, <2>1 DEF QueuedInRange, Has, IsFor
<1>11. \A p \in Port : \A e : Final(queue, p, e) => Has(queue, p)
  BY DEF Final, Has
<1>12. LastDecides'
  BY <1>3, <1>4, <1>7, <1>10, <1>11 DEF LastDecides, Wanted
<1>13. SettledIsWanted'
  BY <1>1, <1>3, <1>4, <1>10 DEF SettledIsWanted, Wanted
<1>14. QED
  BY <1>6, <1>9, <1>12, <1>13 DEF Inv

LEMMA ManageStep ==
  ASSUME Inv, NEW n \in Names, NEW b \in BOOLEAN, ubus_poe_manage_cb(n, b)
  PROVE  Inv'
<1>1. TypeOK /\ QueuedInRange /\ LastDecides /\ SettledIsWanted
  BY DEF Inv
<1>2. PICK d : d = Min(Found(n))
  OBVIOUS
<1>3. d \in Port /\ d < port_count /\ ports[d].enable
  <2>1. Found(n) \in SUBSET Nat /\ Found(n) # {}
    BY <1>1 DEF TypeOK, Found, ubus_poe_manage_cb
  <2>2. d \in Found(n)
    BY <1>2, <2>1, MinIsLeast
  <2>3. QED
    BY <1>1, <2>2 DEF TypeOK, Found, Port
<1>4. /\ queue' = Append(queue, EnableCmd(d, b)) /\ queue \in Seq(Command)
      /\ managedOff' = IF b THEN managedOff \ {d} ELSE managedOff \cup {d}
      /\ UNCHANGED <<uci, port_count, ports, status, status_old, on, actual, dropped, garbled, restarts>>
  BY <1>1, <1>2 DEF ubus_poe_manage_cb, TypeOK, daemon, mcu
<1> DEFINE r == Append(queue, EnableCmd(d, b))
<1>5. \A p \in Port :
        /\ r \in Seq(Command)
        /\ \A k \in DOMAIN r : r[k].op = "enable" =>
              r[k].port = d \/ (\E j \in DOMAIN queue : r[k] = queue[j])
        /\ p = d => Has(r, p) /\ \A e : Final(r, p, e) => e = b
        /\ p # d => /\ Has(queue, p) => Has(r, p)
                    /\ \A e : Final(r, p, e) => Final(queue, p, e)
  BY <1>3, <1>4, AfterAppend
<1> HIDE DEF r
<1>6. queue' = r
  BY <1>4 DEF r
<1>7. TypeOK'
  <2>1. managedOff' \subseteq Port
    BY <1>1, <1>3, <1>4 DEF TypeOK
  <2>2. QED
    BY <1>1, <1>3, <1>4, <1>5, <1>6, <2>1 DEF TypeOK
<1>8. QueuedInRange'
  BY <1>1, <1>3, <1>4, <1>5, <1>6 DEF QueuedInRange
<1>9. (Undisturbed' <=> Undisturbed) /\ (Wanted(d)' <=> b)
      /\ \A p \in Port : p # d => (Wanted(p)' <=> Wanted(p))
  BY <1>3, <1>4 DEF Undisturbed, Wanted
<1>10. ports' = ports /\ on' = on
  BY <1>4
<1>11. LastDecides'
  <2> SUFFICES ASSUME NEW p \in Port, NEW e \in BOOLEAN, Final(r, p, e)
               PROVE  /\ ports[p].enable \/ ~e
                      /\ Undisturbed => (e <=> Wanted(p)')
    BY <1>6, <1>9, <1>10 DEF LastDecides
  <2>1. CASE p = d
    BY <1>3, <1>5, <1>9, <2>1
  <2>2. CASE p # d
    BY <1>1, <1>5, <1>9, <2>2 DEF LastDecides
  <2>3. QED
    BY <2>1, <2>2
<1>12. SettledIsWanted'
  <2> SUFFICES ASSUME Undisturbed, NEW p \in Port
               PROVE  Has(r, p) \/ (p \in on <=> Wanted(p)')
    BY <1>6, <1>9, <1>10 DEF SettledIsWanted
  <2>1. QED
    BY <1>1, <1>3, <1>5, <1>9 DEF SettledIsWanted
<1>13. QED
  BY <1>7, <1>8, <1>11, <1>12 DEF Inv

(* A poll queues status commands only. *)
LEMMA PollStep == Inv /\ state_timeout_cb => Inv'
<1> SUFFICES ASSUME Inv, state_timeout_cb
             PROVE  Inv'
  OBVIOUS
<1> DEFINE n == (port_count + GroupSize - 1) \div GroupSize
           s == [k \in 1 .. n |-> StatusCmd(k - 1)]
           r == queue \o s
<1>1. TypeOK /\ QueuedInRange /\ LastDecides /\ SettledIsWanted
  BY DEF Inv
<1>2. port_count \in Nat /\ port_count <= MAX_PORT /\ n \in Nat /\ queue \in Seq(Command)
  BY <1>1 DEF TypeOK
<1>3. \A k \in 1 .. n : k - 1 \in Port
  <2> TAKE k \in 1 .. n
  <2>1. k - 1 \in 0 .. port_count - 1
    BY <1>2, GroupsBelow
  <2>2. QED
    BY <1>2, <2>1 DEF Port
<1>4. /\ queue' = r /\ UNCHANGED <<uci, port_count, ports, status, on, actual>>
      /\ UNCHANGED <<managedOff, dropped, garbled, restarts>>
      /\ status_old' = [p \in Port |-> IF p < port_count THEN status[p] ELSE status_old[p]]
  BY DEF state_timeout_cb, mcu, history
<1> HIDE DEF n
<1>5. s \in Seq(Command) /\ DOMAIN s = 1 .. n /\ \A k \in DOMAIN s : s[k].op # "enable"
  BY <1>2, <1>3, CommandFields
<1> HIDE DEF s
<1>6. /\ r \in Seq(Command)
      /\ \A k \in DOMAIN r : r[k].op = "enable" => \E j \in DOMAIN queue : r[k] = queue[j]
      /\ \A p \in Port : Has(queue, p) => Has(r, p)
      /\ \A p \in Port, e \in BOOLEAN : Final(r, p, e) => Final(queue, p, e)
  BY <1>2, <1>5, AfterOthers
<1> HIDE DEF r
<1>7. TypeOK'
  BY <1>1, <1>4, <1>6 DEF TypeOK
<1>8. QueuedInRange'
  BY <1>1, <1>4, <1>6 DEF QueuedInRange
<1>9. LastDecides'
  BY <1>1, <1>4, <1>6 DEF LastDecides, Wanted, Undisturbed
<1>10. SettledIsWanted'
  BY <1>1, <1>4, <1>6 DEF SettledIsWanted, Wanted, Undisturbed
<1>11. QED
  BY <1>7, <1>8, <1>9, <1>10 DEF Inv

(* The head of the queue is retired: executed, or aborted. *)
LEMMA RetireStep == Inv /\ (Retire \/ RetireGarbled \/ RetireAborted) => Inv'
<1> SUFFICES ASSUME Inv, Retire \/ RetireGarbled \/ RetireAborted
             PROVE  Inv'
  OBVIOUS
<1>1. TypeOK /\ QueuedInRange /\ LastDecides /\ SettledIsWanted
  BY DEF Inv
<1>2. PICK c : c = Head(queue)
  OBVIOUS
<1>3. /\ queue # <<>> /\ queue \in Seq(Command) /\ queue' = Tail(queue)
      /\ UNCHANGED <<uci, port_count, ports, status_old, managedOff, restarts>>
      /\ dropped' \in Nat /\ garbled' \in Nat /\ (Undisturbed' => Undisturbed)
  BY <1>1 DEF Retire, RetireGarbled, RetireAborted, TypeOK, daemon, history, mcu, Undisturbed
<1>4. /\ c \in Command /\ Tail(queue) \in Seq(Command)
      /\ \A k \in DOMAIN Tail(queue) : \E j \in DOMAIN queue : Tail(queue)[k] = queue[j]
      /\ \A p \in Port, e \in BOOLEAN : Final(Tail(queue), p, e) => Final(queue, p, e)
      /\ \A p \in Port : Has(queue, p) => Has(Tail(queue), p) \/ IsFor(c, p)
      /\ \A p \in Port : IsFor(c, p) /\ ~Has(Tail(queue), p) => Final(queue, p, c.on)
  BY <1>2, <1>3, AfterTail
<1>5. \/ c.op = "enable" /\ c.port \in Port /\ c.on \in BOOLEAN
      \/ c.op = "status" /\ c.group \in Port
  BY <1>4, CommandFields
<1>6. McuExecutes(c) \/ (UNCHANGED mcu /\ ~Undisturbed')
  BY <1>1, <1>2 DEF Retire, RetireGarbled, RetireAborted, Undisturbed, TypeOK
<1>7. TypeOK'
  <2>1. on' \subseteq Port /\ actual' \in [Port -> Status]
    <3>1. CASE UNCHANGED mcu
      BY <1>1, <3>1 DEF TypeOK, mcu
    <3>2. CASE McuExecutes(c) /\ c.op = "enable"
      <4>1. on' \subseteq Port
        BY <1>1, <1>5, <3>2 DEF McuExecutes, TypeOK
      <4>2. PICK x \in Status : actual' = [actual EXCEPT ![c.port] = x]
        BY <1>1, <1>5, <3>2 DEF McuExecutes, TypeOK, Status
      <4>3. QED
        BY <1>1, <4>1, <4>2 DEF TypeOK
    <3>3. QED
      BY <1>6, <3>1, <3>2 DEF McuExecutes
  <2>2. status' \in [Port -> Status]
    <3>1. CASE UNCHANGED status
      BY <1>1, <3>1 DEF TypeOK
    <3>2. CASE \E g : status' = poe_reply_4_port_status(g)
      BY <1>1, <3>2 DEF TypeOK, poe_reply_4_port_status
    <3>3. QED
      BY <3>1, <3>2 DEF Retire, RetireGarbled, RetireAborted, daemon
  <2>3. QED
    BY <1>1, <1>3, <1>4, <2>1, <2>2 DEF TypeOK
<1>8. QueuedInRange'
  BY <1>1, <1>3, <1>4 DEF QueuedInRange
<1>9. \A p \in Port : Wanted(p)' <=> Wanted(p)
  BY <1>3 DEF Wanted
<1>10. LastDecides'
  BY <1>1, <1>3, <1>4, <1>9 DEF LastDecides
<1>11. SettledIsWanted'
  <2> SUFFICES ASSUME Undisturbed', NEW p \in Port, ~Has(Tail(queue), p)
               PROVE  p \in on' <=> Wanted(p)
    BY <1>3, <1>9 DEF SettledIsWanted
  <2>1. Undisturbed /\ McuExecutes(c)
    BY <1>3, <1>6
  <2>2. CASE IsFor(c, p)
    <3>1. Final(queue, p, c.on) /\ c.on \in BOOLEAN
      BY <1>4, <1>5, <2>2 DEF IsFor
    <3>2. c.on <=> Wanted(p)
      BY <1>1, <2>1, <3>1 DEF LastDecides
    <3>3. p \in on' <=> c.on
      BY <1>5, <2>1, <2>2, <3>1 DEF McuExecutes, IsFor
    <3>4. QED
      BY <3>2, <3>3
  <2>3. CASE ~IsFor(c, p)
    <3>1. p \in on <=> Wanted(p)
      BY <1>1, <1>4, <2>1, <2>3 DEF SettledIsWanted
    <3>2. p \in on' <=> p \in on
      BY <1>5, <2>1, <2>3 DEF McuExecutes, IsFor, mcu
    <3>3. QED
      BY <3>1, <3>2
  <2>4. QED
    BY <2>2, <2>3
<1>12. QED
  BY <1>7, <1>8, <1>10, <1>11 DEF Inv

(* A device, the files, a restart of the daemon. *)
LEMMA OutsideSteps ==
  ASSUME Inv, (\E p \in Devices : Device(p)) \/ UciCommit \/ UNCHANGED vars
  PROVE  Inv'
<1>1. UNCHANGED <<port_count, ports, status, status_old, queue, on, managedOff, dropped, garbled, restarts>>
  BY DEF Device, UciCommit, vars, daemon, mcu, history
<1>2. uci' \in Configs /\ actual' \in [Port -> Status]
  <2>1. TypeOK
    BY DEF Inv
  <2>2. CASE \E p \in Devices : Device(p)
    <3>1. PICK p \in Devices, x \in {Searching, Delivering} : actual' = [actual EXCEPT ![p] = x]
      BY <2>2 DEF Device
    <3>2. QED
      BY <2>1, <2>2, <3>1 DEF TypeOK, Status, Device
  <2>3. CASE UciCommit \/ UNCHANGED vars
    BY <2>1, <2>3 DEF UciCommit, vars, mcu, TypeOK
  <2>4. QED
    BY <2>2, <2>3
<1>3. QED
  BY <1>1, <1>2 DEF Inv, TypeOK, QueuedInRange, LastDecides, SettledIsWanted, Wanted, Undisturbed

LEMMA RestartStep == Inv /\ Restart => Inv'
<1> SUFFICES ASSUME Inv, Restart
             PROVE  Inv'
  OBVIOUS
<1> DEFINE s == poe_port_setup(ports', port_count')
<1>1. TypeOK
  BY DEF Inv
<1>2. /\ ports' \in [Port -> PortConfig] /\ port_count' \in 0 .. MAX_PORT
  <2>1. 0 \in 0 .. MAX_PORT
    OBVIOUS
  <2>2. QED
    BY <1>1, <2>1, ConfigType, CountType DEF TypeOK, Restart
<1>3. /\ s \in Seq(Command) /\ Len(s) = port_count'
      /\ \A k \in 1 .. port_count' : s[k].port = k - 1 /\ s[k].on = ports'[k - 1].enable
  BY <1>2, SetupType
<1>4. queue' = s /\ ~Undisturbed' /\ restarts' \in Nat
  BY <1>1 DEF Restart, Undisturbed, TypeOK
<1>5. TypeOK'
  <2>1. [p \in Port |-> 0] \in [Port -> Status]
    BY DEF Status, Disabled
  <2> HIDE DEF s
  <2>2. QED
    BY <1>1, <1>2, <1>3, <1>4, <2>1 DEF Restart, TypeOK, mcu
<1> HIDE DEF s
<1>6. DOMAIN s = 1 .. port_count'
  BY <1>2, <1>3
<1>7. QueuedInRange'
  BY <1>2, <1>3, <1>4, <1>6 DEF QueuedInRange
<1>8. LastDecides'
  <2> SUFFICES ASSUME NEW p \in Port, NEW e \in BOOLEAN, Final(s, p, e)
               PROVE  ports'[p].enable \/ ~e
    BY <1>4 DEF LastDecides
  <2>1. PICK k \in 1 .. port_count' : s[k].port = p /\ s[k].on = e
    BY <1>6 DEF Final, IsFor
  <2>2. e = ports'[p].enable
    BY <1>3, <2>1
  <2>3. QED
    BY <2>2
<1>9. SettledIsWanted'
  BY <1>4 DEF SettledIsWanted
<1>10. QED
  BY <1>5, <1>7, <1>8, <1>9 DEF Inv

-----------------------------------------------------------------------------
(* Theorems *)

(* The types of the daemon's state, and where the queue leads (main.c).    *)
THEOREM Invariant == Spec => []Inv
<1>1. ASSUME Inv, [Next]_vars
      PROVE  Inv'
  BY <1>1, ReloadStep, ManageStep, PollStep, RetireStep, OutsideSteps, RestartStep DEF Next
<1>2. QED
  BY <1>1, InitInv, PTL DEF Spec

(* When the queue of realtek-poe has drained, exactly the ports are        *)
(* powered that the loaded configuration enables and manage has not turned *)
(* off, for every sequence of reload and manage calls, unless a command    *)
(* was aborted or the daemon restarted.                                    *)
THEOREM PowerFollowsConfigHolds == Spec => []PowerFollowsConfig
<1>1. Inv => PowerFollowsConfig
  <2> SUFFICES ASSUME Inv, Undisturbed, queue = <<>>, NEW p \in Port
               PROVE  p \in on <=> p < port_count /\ ports[p].enable /\ p \notin managedOff
    BY DEF PowerFollowsConfig
  <2>1. ~Has(queue, p)
    BY EmptyQueue
  <2>2. QED
    BY <2>1 DEF Inv, SettledIsWanted, Wanted
<1>2. QED
  BY <1>1, Invariant, PTL

(* What is queued for a port that the loaded configuration does not enable *)
(* turns it off in the end, aborted commands and restarts included.        *)
THEOREM DisabledEndsOffHolds == Spec => []DisabledEndsOff
<1>1. ASSUME Inv
      PROVE  DisabledEndsOff
  <2> SUFFICES ASSUME NEW p \in Port, ~ports[p].enable,
                      {k \in DOMAIN queue : queue[k].op = "enable" /\ queue[k].port = p} # {}
               PROVE  ~queue[Max({k \in DOMAIN queue : queue[k].op = "enable"
                                                         /\ queue[k].port = p})].on
    BY DEF DisabledEndsOff
  <2> DEFINE mine == {k \in DOMAIN queue : queue[k].op = "enable" /\ queue[k].port = p}
  <2>1. queue \in Seq(Command)
    BY <1>1 DEF Inv, TypeOK
  <2>2. Len(queue) \in Nat /\ mine \in SUBSET (0 .. Len(queue))
    BY <2>1
  <2>3. PICK m : m = Max(mine)
    OBVIOUS
  <2>4. m \in mine /\ \A k \in mine : k <= m
    BY <2>2, <2>3, MaxIsGreatest
  <2>5. m \in DOMAIN queue /\ IsFor(queue[m], p) /\ queue[m].on \in BOOLEAN
    BY <2>1, <2>4, CommandFields DEF IsFor
  <2>6. ASSUME NEW j \in DOMAIN queue, j > m
        PROVE  ~IsFor(queue[j], p)
    <3>1. ~(j <= m)
      BY <2>1, <2>5, <2>6
    <3>2. QED
      BY <2>4, <3>1 DEF IsFor
  <2>7. Final(queue, p, queue[m].on)
    BY <2>5, <2>6 DEF Final
  <2>8. ~queue[m].on
    BY <1>1, <2>5, <2>7 DEF Inv, LastDecides
  <2>9. QED
    BY <2>3, <2>8
<1>2. QED
  BY <1>1, Invariant, PTL
=============================================================================
