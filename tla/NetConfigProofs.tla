---------------------------- MODULE NetConfigProofs ----------------------------
(***************************************************************************)
(* Proofs about NetConfig, for every set of interfaces and zones, every    *)
(* complete configuration to start from and any number of edits.           *)
(***************************************************************************)
EXTENDS NetConfig, SequenceTheorems, FiniteSetTheorems, WellFoundedInduction, TLAPS

USE NetAssumption

-----------------------------------------------------------------------------
(* Configurations *)

(* What the pages need of a configuration to keep its references. *)
Sound(c) == c \in Config /\ c.dev \subseteq c.net /\ ZonesResolve(c) /\ RulesResolve(c)

(* Only the firewall differs. *)
SameNetwork(c, d) == d.net = c.net /\ d.dev = c.dev /\ d.refs = c.refs /\ d.wifi = c.wifi

(* The zones have the same names at the same positions. *)
SameNames(c, d) ==
  /\ Len(d.zones) = Len(c.zones)
  /\ \A i \in 1 .. Len(c.zones) : d.zones[i].name = c.zones[i].name

Names(c) == {c.zones[i].name : i \in DOMAIN c.zones}

(* A non-empty set of naturals has a least element, and Min is it. *)
LEMMA MinIsLeast ==
  ASSUME NEW S \in SUBSET Nat, S # {}
  PROVE  Min(S) \in S /\ \A y \in S : Min(S) <= y
<1>1. \E x \in S : \A y \in S : ~(<<y, x>> \in OpToRel(<, Nat))
  BY NatLessThanWellFounded, WFMin
<1>2. PICK x \in S : \A y \in S : ~(<<y, x>> \in OpToRel(<, Nat))
  BY <1>1
<1>3. ASSUME NEW y \in S, y < x
      PROVE  FALSE
  <2> DEFINE R == {ss \in Nat \X Nat : ss[1] < ss[2]}
  <2>1. OpToRel(<, Nat) = R
    BY Zenon DEF OpToRel
  <2>2. <<y, x>> \in R
    BY <1>3
  <2>3. QED
    BY <1>2, <2>1, <2>2, Zenon
<1>4. \A y \in S : x <= y
  <2> TAKE y \in S
  <2>1. ~(y < x) /\ x \in Nat /\ y \in Nat
    BY <1>3
  <2>2. QED
    BY <2>1
<1>5. QED
  BY <1>4 DEF Min

(* The fields of a configuration. *)
LEMMA Fields ==
  ASSUME NEW c \in Config
  PROVE  /\ c.net \subseteq Nets /\ c.dev \subseteq Nets /\ c.refs \subseteq Refs
         /\ DOMAIN c.wifi \subseteq Wifis /\ c.wifi \in [DOMAIN c.wifi -> SUBSET Nets]
         /\ c.zones \in Seq(Zones) /\ c.rules \subseteq Rules
         /\ Len(c.zones) \in Nat /\ DOMAIN c.zones = 1 .. Len(c.zones)
         /\ \A i \in 1 .. Len(c.zones) :
              c.zones[i] \in Zones /\ c.zones[i].name \in ZoneNames /\ c.zones[i].nets \subseteq Nets
<1>1. /\ c.net \subseteq Nets /\ c.dev \subseteq Nets /\ c.refs \subseteq Refs
      /\ c.wifi \in UNION {[on -> SUBSET Nets] : on \in SUBSET Wifis}
      /\ c.zones \in Seq(Zones) /\ c.rules \subseteq Rules
  BY DEF Config
<1>2. PICK on \in SUBSET Wifis : c.wifi \in [on -> SUBSET Nets]
  BY <1>1
<1>3. DOMAIN c.wifi \subseteq Wifis /\ c.wifi \in [DOMAIN c.wifi -> SUBSET Nets]
  BY <1>2
<1>4. Len(c.zones) \in Nat /\ DOMAIN c.zones = 1 .. Len(c.zones)
  BY <1>1
<1>5. \A i \in 1 .. Len(c.zones) : c.zones[i] \in Zones
  BY <1>1
<1>6. \A z \in Zones : z.name \in ZoneNames /\ z.nets \subseteq Nets
  BY DEF Zones
<1>7. QED
  BY <1>1, <1>3, <1>4, <1>5, <1>6

(* New values for the fields. *)
LEMMA PutZones ==
  ASSUME NEW c \in Config, NEW z \in Seq(Zones)
  PROVE  /\ [c EXCEPT !.zones = z] \in Config /\ [c EXCEPT !.zones = z].zones = z
         /\ SameNetwork(c, [c EXCEPT !.zones = z])
         /\ [c EXCEPT !.zones = z].rules = c.rules
BY DEF Config, SameNetwork

LEMMA PutRules ==
  ASSUME NEW c \in Config, NEW r \in SUBSET Rules
  PROVE  /\ [c EXCEPT !.rules = r] \in Config /\ [c EXCEPT !.rules = r].rules = r
         /\ SameNetwork(c, [c EXCEPT !.rules = r])
         /\ [c EXCEPT !.rules = r].zones = c.zones
BY DEF Config, SameNetwork

LEMMA PutRefs ==
  ASSUME NEW c \in Config, NEW r \in SUBSET Refs
  PROVE  LET d == [c EXCEPT !.refs = r]
         IN  /\ d \in Config /\ d.refs = r /\ d.net = c.net /\ d.dev = c.dev /\ d.wifi = c.wifi
             /\ d.zones = c.zones /\ d.rules = c.rules
BY DEF Config

LEMMA PutWifi ==
  ASSUME NEW c \in Config, NEW on \in SUBSET Wifis, NEW f \in [on -> SUBSET Nets]
  PROVE  LET d == [c EXCEPT !.wifi = f]
         IN  /\ d \in Config /\ d.wifi = f /\ d.net = c.net /\ d.dev = c.dev /\ d.refs = c.refs
             /\ d.zones = c.zones /\ d.rules = c.rules
<1>1. f \in UNION {[g -> SUBSET Nets] : g \in SUBSET Wifis}
  OBVIOUS
<1>2. QED
  BY <1>1 DEF Config

LEMMA PutNets ==
  ASSUME NEW c \in Config, NEW ns \in SUBSET Nets, NEW ds \in SUBSET Nets
  PROVE  /\ LET d == [c EXCEPT !.net = ns, !.dev = ds]
            IN  /\ d \in Config /\ d.net = ns /\ d.dev = ds /\ d.refs = c.refs /\ d.wifi = c.wifi
                /\ d.zones = c.zones /\ d.rules = c.rules
         /\ LET d == [c EXCEPT !.net = ns]
            IN  /\ d \in Config /\ d.net = ns /\ d.dev = c.dev /\ d.refs = c.refs
                /\ d.wifi = c.wifi /\ d.zones = c.zones /\ d.rules = c.rules
BY DEF Config

(* A function on 1 .. n is a sequence of length n. *)
LEMMA FunIsSeq ==
  ASSUME NEW S, NEW n \in Nat, NEW f \in [1 .. n -> S]
  PROVE  f \in Seq(S) /\ Len(f) = n /\ DOMAIN f = 1 .. n
OBVIOUS

(* What is attached. *)
LEMMA AttachedIs ==
  ASSUME NEW c
  PROVE  \A x : x \in Attached(c) <=>
            \/ \E w \in DOMAIN c.wifi : x \in c.wifi[w]
            \/ \E r \in c.refs : r.net = x
BY DEF Attached

-----------------------------------------------------------------------------
(* The operations on zones *)

(* lookupZone finds the first zone of a name, if there is one. *)
LEMMA LookupZone ==
  ASSUME NEW c \in Config, NEW name
  PROVE  /\ lookupZone(c, name) \in 0 .. Len(c.zones)
         /\ lookupZone(c, name) # 0 => c.zones[lookupZone(c, name)].name = name
         /\ lookupZone(c, name) = 0 <=> name \notin Names(c)
         /\ \A i \in 1 .. Len(c.zones) : c.zones[i].name = name =>
              lookupZone(c, name) # 0 /\ lookupZone(c, name) <= i
<1> DEFINE named == {i \in DOMAIN c.zones : c.zones[i].name = name}
<1>1. Len(c.zones) \in Nat /\ DOMAIN c.zones = 1 .. Len(c.zones)
  BY Fields
<1>2. lookupZone(c, name) = IF named = {} THEN 0 ELSE Min(named)
  BY DEF lookupZone
<1>3. name \in Names(c) <=> named # {}
  BY DEF Names
<1>4. CASE named = {}
  BY <1>1, <1>2, <1>3, <1>4
<1>5. CASE named # {}
  <2>1. named \in SUBSET Nat
    BY <1>1
  <2>2. Min(named) \in named /\ \A y \in named : Min(named) <= y
    BY <1>5, <2>1, MinIsLeast
  <2>3. PICK m \in named : m = lookupZone(c, name) /\ \A y \in named : m <= y
    BY <1>2, <1>5, <2>2
  <2>4. m \in 1 .. Len(c.zones) /\ c.zones[m].name = name
    BY <1>1
  <2>5. \A i \in 1 .. Len(c.zones) : c.zones[i].name = name => m <= i
    BY <1>1, <2>3
  <2>6. m # 0 /\ m \in 0 .. Len(c.zones)
    BY <1>1, <2>4
  <2>7. QED
    BY <1>3, <1>5, <2>3, <2>4, <2>5, <2>6
<1>6. QED
  BY <1>4, <1>5

(* getZoneByNetwork finds the first zone that covers a network. *)
LEMMA ZoneByNetwork ==
  ASSUME NEW c \in Config, NEW n
  PROVE  /\ getZoneByNetwork(c, n) \in 0 .. Len(c.zones)
         /\ getZoneByNetwork(c, n) # 0 => n \in c.zones[getZoneByNetwork(c, n)].nets
         /\ getZoneByNetwork(c, n) = 0 => Covering(c, n) = {}
<1>1. Len(c.zones) \in Nat /\ DOMAIN c.zones = 1 .. Len(c.zones)
  BY Fields
<1>2. getZoneByNetwork(c, n) = IF Covering(c, n) = {} THEN 0 ELSE Min(Covering(c, n))
  BY DEF getZoneByNetwork, Covering
<1>3. CASE Covering(c, n) = {}
  BY <1>1, <1>2, <1>3
<1>4. CASE Covering(c, n) # {}
  <2>1. Covering(c, n) \in SUBSET Nat
    BY <1>1 DEF Covering
  <2>2. Min(Covering(c, n)) \in Covering(c, n)
    BY <1>4, <2>1, MinIsLeast
  <2>3. /\ Min(Covering(c, n)) \in 1 .. Len(c.zones)
        /\ n \in c.zones[Min(Covering(c, n))].nets
    BY <1>1, <2>2 DEF Covering
  <2>4. QED
    BY <1>1, <1>2, <1>4, <2>3
<1>5. QED
  BY <1>3, <1>4

(* The networks that some zones are given. *)
LEMMA CoveredEffect ==
  ASSUME NEW c \in Config, NEW D \in SUBSET (1 .. Len(c.zones)), NEW nets \in [D -> SUBSET Nets]
  PROVE  LET d == WithCovered(c, nets)
         IN  /\ d \in Config /\ SameNetwork(c, d) /\ SameNames(c, d) /\ d.rules = c.rules
             /\ \A i \in 1 .. Len(c.zones) :
                  /\ i \in D => d.zones[i].nets = nets[i]
                  /\ i \notin D => d.zones[i].nets = c.zones[i].nets
<1> DEFINE z == [i \in DOMAIN c.zones |->
                   IF i \in DOMAIN nets THEN [name |-> c.zones[i].name, nets |-> nets[i]]
                                        ELSE c.zones[i]]
           n == Len(c.zones)
<1>1. /\ n \in Nat /\ DOMAIN c.zones = 1 .. n /\ DOMAIN nets = D
      /\ \A i \in 1 .. n : c.zones[i] \in Zones /\ c.zones[i].name \in ZoneNames
  BY Fields
<1>2. \A i \in 1 .. n :
        /\ z[i] = IF i \in D THEN [name |-> c.zones[i].name, nets |-> nets[i]] ELSE c.zones[i]
        /\ z[i] \in Zones
  BY <1>1 DEF Zones
<1>3. \A i \in 1 .. n :
        /\ z[i].name = c.zones[i].name
        /\ z[i].nets = IF i \in D THEN nets[i] ELSE c.zones[i].nets
  BY <1>1, <1>2
<1>4. z \in [1 .. n -> Zones]
  BY <1>1, <1>2
<1>5. WithCovered(c, nets) = [c EXCEPT !.zones = z]
  BY DEF WithCovered
<1> HIDE DEF z
<1>6. z \in Seq(Zones) /\ Len(z) = n
  BY <1>1, <1>4, FunIsSeq
<1> HIDE DEF n
<1>7. PICK d : d = WithCovered(c, nets)
  OBVIOUS
<1>8. d \in Config /\ d.zones = z /\ SameNetwork(c, d) /\ d.rules = c.rules
  BY <1>5, <1>6, <1>7, PutZones
<1>9. QED
  BY <1>3, <1>6, <1>7, <1>8 DEF SameNames, n

(* What depends on the names and on the networks alone. *)
LEMMA SameNamesResolve ==
  ASSUME NEW c \in Config, NEW d \in Config, SameNames(c, d)
  PROVE  Names(d) = Names(c)
<1>1. DOMAIN c.zones = 1 .. Len(c.zones) /\ DOMAIN d.zones = 1 .. Len(c.zones)
  BY Fields DEF SameNames
<1>2. QED
  BY <1>1 DEF SameNames, Names

(* Covering existing interfaces keeps a configuration sound. *)
LEMMA CoveredSound ==
  ASSUME NEW c, Sound(c), NEW D \in SUBSET (1 .. Len(c.zones)), NEW nets \in [D -> SUBSET c.net]
  PROVE  Sound(WithCovered(c, nets))
<1>1. c \in Config /\ c.dev \subseteq c.net /\ ZonesResolve(c) /\ RulesResolve(c)
  BY DEF Sound
<1>2. nets \in [D -> SUBSET Nets]
  BY <1>1, Fields
<1>3. PICK d : d = WithCovered(c, nets)
  OBVIOUS
<1>4. /\ d \in Config /\ SameNetwork(c, d) /\ SameNames(c, d) /\ d.rules = c.rules
      /\ \A i \in 1 .. Len(c.zones) :
           /\ i \in D => d.zones[i].nets = nets[i]
           /\ i \notin D => d.zones[i].nets = c.zones[i].nets
  BY <1>1, <1>2, <1>3, CoveredEffect
<1>5. DOMAIN d.zones = 1 .. Len(c.zones) /\ DOMAIN c.zones = 1 .. Len(c.zones)
  BY <1>1, <1>4, Fields DEF SameNames
<1>6. ZonesResolve(d)
  <2> SUFFICES ASSUME NEW i \in 1 .. Len(c.zones)
               PROVE  d.zones[i].nets \subseteq c.net
    BY <1>4, <1>5 DEF ZonesResolve, SameNetwork
  <2>1. CASE i \in D
    BY <1>4, <2>1
  <2>2. CASE i \notin D
    BY <1>1, <1>4, <1>5, <2>2 DEF ZonesResolve
  <2>3. QED
    BY <2>1, <2>2
<1>7. RulesResolve(d)
  <2>1. Names(d) = Names(c)
    BY <1>1, <1>4, SameNamesResolve
  <2>2. QED
    BY <1>1, <1>4, <2>1 DEF RulesResolve, Names
<1>8. QED
  BY <1>1, <1>3, <1>4, <1>6, <1>7 DEF Sound, SameNetwork

(* A zone is appended to those that are there. *)
LEMMA AppendZone ==
  ASSUME NEW c, Sound(c), NEW name \in ZoneNames
  PROVE  LET d == [c EXCEPT !.zones = Append(@, [name |-> name, nets |-> {}])]
         IN  /\ Sound(d) /\ SameNetwork(c, d) /\ d.rules = c.rules
             /\ Len(d.zones) = Len(c.zones) + 1
             /\ \A i \in 1 .. Len(c.zones) : d.zones[i] = c.zones[i]
             /\ d.zones[Len(c.zones) + 1] = [name |-> name, nets |-> {}]
<1> DEFINE zone == [name |-> name, nets |-> {}]
           z == Append(c.zones, zone)
<1>1. c \in Config /\ c.dev \subseteq c.net /\ ZonesResolve(c) /\ RulesResolve(c)
  BY DEF Sound
<1>2. c.zones \in Seq(Zones) /\ Len(c.zones) \in Nat /\ DOMAIN c.zones = 1 .. Len(c.zones)
  BY <1>1, Fields
<1>3. zone \in Zones /\ zone.nets = {}
  BY DEF Zones
<1> HIDE DEF zone
<1>4. /\ z \in Seq(Zones) /\ Len(z) = Len(c.zones) + 1
      /\ \A i \in 1 .. Len(c.zones) : z[i] = c.zones[i]
      /\ z[Len(c.zones) + 1] = zone
  BY <1>2, <1>3, AppendProperties
<1>5. PICK d : d = [c EXCEPT !.zones = z]
  OBVIOUS
<1> HIDE DEF z
<1>6. d \in Config /\ d.zones = z /\ SameNetwork(c, d) /\ d.rules = c.rules
  BY <1>1, <1>4, <1>5, PutZones
<1>7. DOMAIN d.zones = 1 .. Len(c.zones) + 1
  BY <1>4, <1>6, Fields
<1>8. \A i \in 1 .. Len(c.zones) + 1 : i \in 1 .. Len(c.zones) \/ i = Len(c.zones) + 1
  BY <1>2
<1>9. ZonesResolve(d)
  BY <1>1, <1>2, <1>3, <1>4, <1>6, <1>7, <1>8 DEF ZonesResolve, SameNetwork
<1>10. RulesResolve(d)
  <2>1. Names(c) \subseteq Names(d)
    <3> SUFFICES ASSUME NEW i \in 1 .. Len(c.zones)
                 PROVE  c.zones[i].name \in Names(d)
      BY <1>2 DEF Names
    <3>1. i \in 1 .. Len(c.zones) + 1 /\ d.zones[i].name = c.zones[i].name
      BY <1>2, <1>4, <1>6
    <3>2. QED
      BY <1>7, <3>1 DEF Names
  <2>2. \A r \in c.rules : {r.src, r.dest} \subseteq Names(c)
    BY <1>1 DEF RulesResolve, Names
  <2>3. QED
    BY <1>6, <2>1, <2>2 DEF RulesResolve, Names
<1>11. Sound(d)
  BY <1>1, <1>6, <1>9, <1>10 DEF Sound, SameNetwork
<1>12. QED
  BY <1>4, <1>5, <1>6, <1>11 DEF z, zone

(* After addZone a zone has the name. *)
LEMMA AddZoneEffect ==
  ASSUME NEW c, Sound(c), NEW name \in ZoneNames
  PROVE  LET d == addZone(c, name)
         IN  /\ Sound(d) /\ SameNetwork(c, d) /\ d.rules = c.rules
             /\ lookupZone(d, name) \in 1 .. Len(d.zones)
             /\ \A n : Covering(d, n) = Covering(c, n)
<1>1. c \in Config /\ Len(c.zones) \in Nat /\ DOMAIN c.zones = 1 .. Len(c.zones)
  BY Fields DEF Sound
<1>2. CASE lookupZone(c, name) # 0
  <2>1. addZone(c, name) = c
    BY <1>2 DEF addZone
  <2>2. lookupZone(c, name) \in 1 .. Len(c.zones)
    BY <1>1, <1>2, LookupZone
  <2>3. QED
    BY <2>1, <2>2 DEF SameNetwork
<1>3. CASE lookupZone(c, name) = 0
  <2>1. PICK d : d = [c EXCEPT !.zones = Append(@, [name |-> name, nets |-> {}])]
    OBVIOUS
  <2>2. /\ Sound(d) /\ SameNetwork(c, d) /\ d.rules = c.rules
        /\ Len(d.zones) = Len(c.zones) + 1
        /\ \A i \in 1 .. Len(c.zones) : d.zones[i] = c.zones[i]
        /\ d.zones[Len(c.zones) + 1] = [name |-> name, nets |-> {}]
    BY <2>1, AppendZone
  <2>3. d \in Config /\ DOMAIN d.zones = 1 .. Len(c.zones) + 1
    BY <2>2, Fields DEF Sound
  <2>4. Len(c.zones) + 1 \in 1 .. Len(d.zones) /\ d.zones[Len(c.zones) + 1].name = name
    BY <1>1, <2>2
  <2>5. lookupZone(d, name) \in 0 .. Len(d.zones) /\ lookupZone(d, name) # 0
    BY <2>3, <2>4, LookupZone
  <2>6. lookupZone(d, name) \in 1 .. Len(d.zones)
    BY <1>1, <2>2, <2>5
  <2>7. ASSUME NEW n PROVE Covering(d, n) = Covering(c, n)
    <3>1. d.zones[Len(c.zones) + 1].nets = {}
      BY <2>2
    <3>2. \A i : i \in 1 .. Len(c.zones) + 1 <=> i \in 1 .. Len(c.zones) \/ i = Len(c.zones) + 1
      BY <1>1
    <3>3. QED
      BY <1>1, <2>2, <2>3, <3>1, <3>2 DEF Covering
  <2>8. addZone(c, name) = d
    BY <1>3, <2>1 DEF addZone
  <2>9. QED
    BY <2>2, <2>6, <2>7, <2>8
<1>4. QED
  BY <1>2, <1>3

(* A sequence without its element at i. *)
LEMMA RemoveIndex ==
  ASSUME NEW S, NEW s \in Seq(S), NEW i \in 1 .. Len(s)
  PROVE  LET t == SubSeq(s, 1, i - 1) \o SubSeq(s, i + 1, Len(s))
         IN  /\ t \in Seq(S) /\ Len(t) = Len(s) - 1
             /\ \A k \in 1 .. Len(s) - 1 : t[k] = s[IF k < i THEN k ELSE k + 1]
<1> DEFINE a == SubSeq(s, 1, i - 1)
           b == SubSeq(s, i + 1, Len(s))
<1>1. Len(s) \in Nat /\ i - 1 \in Int /\ i + 1 \in Int /\ i \in Nat /\ i >= 1 /\ i <= Len(s)
  OBVIOUS
<1>2. /\ \A k \in 1 .. i - 1 : s[k] \in S
      /\ \A k \in i + 1 .. Len(s) : s[k] \in S
  BY <1>1
<1>3. /\ a \in Seq(S) /\ Len(a) = (IF 1 <= i - 1 THEN i - 1 - 1 + 1 ELSE 0)
      /\ \A k \in 1 .. i - 1 - 1 + 1 : a[k] = s[1 + k - 1]
  BY <1>1, <1>2, SubSeqProperties
<1>4. /\ b \in Seq(S) /\ Len(b) = (IF i + 1 <= Len(s) THEN Len(s) - (i + 1) + 1 ELSE 0)
      /\ \A k \in 1 .. Len(s) - (i + 1) + 1 : b[k] = s[(i + 1) + k - 1]
  BY <1>1, <1>2, SubSeqProperties
<1> HIDE DEF a, b
<1>5. Len(a) = i - 1 /\ Len(b) = Len(s) - i
  BY <1>1, <1>3, <1>4
<1>6. /\ a \o b \in Seq(S) /\ Len(a \o b) = Len(a) + Len(b)
      /\ \A k \in 1 .. Len(a) + Len(b) :
           (a \o b)[k] = IF k <= Len(a) THEN a[k] ELSE b[k - Len(a)]
  BY <1>3, <1>4, ConcatProperties
<1>7. Len(a) + Len(b) = Len(s) - 1
  BY <1>1, <1>5
<1>8. ASSUME NEW k \in 1 .. Len(s) - 1
      PROVE  (a \o b)[k] = s[IF k < i THEN k ELSE k + 1]
  <2>1. k \in Nat /\ k >= 1 /\ k <= Len(s) - 1
    BY <1>1
  <2>2. CASE k < i
    <3>1. k <= Len(a) /\ k \in 1 .. i - 1 - 1 + 1 /\ 1 + k - 1 = k
      BY <1>1, <1>5, <2>1, <2>2
    <3>2. QED
      BY <1>3, <1>6, <1>7, <2>2, <3>1
  <2>3. CASE ~(k < i)
    <3>1. /\ ~(k <= Len(a)) /\ k - Len(a) \in 1 .. Len(s) - (i + 1) + 1
          /\ (i + 1) + (k - Len(a)) - 1 = k + 1
      BY <1>1, <1>5, <2>1, <2>3
    <3>2. (a \o b)[k] = b[k - Len(a)]
      BY <1>6, <1>7, <3>1
    <3>3. b[k - Len(a)] = s[(i + 1) + (k - Len(a)) - 1]
      BY <1>4, <3>1
    <3>4. QED
      BY <2>3, <3>1, <3>2, <3>3
  <2>4. QED
    BY <2>2, <2>3
<1>9. QED
  BY <1>6, <1>7, <1>8 DEF a, b

(* Deleting a zone takes what names it along, and no other zone. *)
LEMMA DeleteZoneEffect ==
  ASSUME NEW c, Sound(c), NEW i \in 1 .. Len(c.zones)
  PROVE  LET d == deleteZone(c, i)
         IN  /\ Sound(d) /\ SameNetwork(c, d) /\ Len(d.zones) = Len(c.zones) - 1
             /\ \A k \in 1 .. Len(c.zones) - 1 :
                  d.zones[k] = c.zones[IF k < i THEN k ELSE k + 1]
<1> DEFINE z == SubSeq(c.zones, 1, i - 1) \o SubSeq(c.zones, i + 1, Len(c.zones))
           name == c.zones[i].name
           rules == {r \in c.rules : r.src # name /\ r.dest # name}
<1>1. c \in Config /\ c.dev \subseteq c.net /\ ZonesResolve(c) /\ RulesResolve(c)
  BY DEF Sound
<1>2. /\ c.zones \in Seq(Zones) /\ Len(c.zones) \in Nat /\ DOMAIN c.zones = 1 .. Len(c.zones)
      /\ c.rules \subseteq Rules
  BY <1>1, Fields
<1>3. /\ z \in Seq(Zones) /\ Len(z) = Len(c.zones) - 1
      /\ \A k \in 1 .. Len(c.zones) - 1 : z[k] = c.zones[IF k < i THEN k ELSE k + 1]
  BY <1>2, RemoveIndex
<1>4. deleteZone(c, i) = [c EXCEPT !.zones = z, !.rules = rules]
  BY DEF deleteZone
<1> HIDE DEF z
<1>5. PICK d : d = deleteZone(c, i)
  OBVIOUS
<1>6. d \in Config /\ d.zones = z /\ d.rules = rules /\ SameNetwork(c, d)
  <2>1. rules \in SUBSET Rules
    BY <1>2
  <2> HIDE DEF rules
  <2>2. c \in Config /\ z \in Seq(Zones) /\ d = [c EXCEPT !.zones = z, !.rules = rules]
    BY <1>1, <1>3, <1>4, <1>5
  <2>3. QED
    BY <2>1, <2>2 DEF Config, SameNetwork
<1>7. DOMAIN d.zones = 1 .. Len(c.zones) - 1
  BY <1>3, <1>6, Fields
<1>8. \A k \in 1 .. Len(c.zones) - 1 : (IF k < i THEN k ELSE k + 1) \in 1 .. Len(c.zones)
  BY <1>2
<1>9. ZonesResolve(d)
  BY <1>1, <1>2, <1>3, <1>6, <1>7, <1>8 DEF ZonesResolve, SameNetwork
<1>10. ASSUME NEW x \in Names(c), x # name
       PROVE  x \in Names(d)
  <2>1. PICK j \in 1 .. Len(c.zones) : c.zones[j].name = x
    BY <1>2 DEF Names
  <2>2. j # i
    BY <1>10, <2>1
  <2>3. PICK k \in 1 .. Len(c.zones) - 1 : (IF k < i THEN k ELSE k + 1) = j
    <3>1. CASE j < i
      <4>1. j \in 1 .. Len(c.zones) - 1
        BY <1>2, <3>1
      <4>2. QED
        BY <3>1, <4>1
    <3>2. CASE j > i
      <4>1. j - 1 \in 1 .. Len(c.zones) - 1 /\ ~(j - 1 < i) /\ j - 1 + 1 = j
        BY <1>2, <3>2
      <4>2. QED
        BY <4>1
    <3>3. QED
      BY <1>2, <2>2, <3>1, <3>2
  <2>4. d.zones[k].name = x
    BY <1>3, <1>6, <2>1, <2>3
  <2>5. QED
    BY <1>7, <2>4 DEF Names
<1>11. RulesResolve(d)
  <2> SUFFICES ASSUME NEW r \in rules
               PROVE  r.src \in Names(d) /\ r.dest \in Names(d)
    BY <1>6 DEF RulesResolve, Names
  <2>1. r.src \in Names(c) /\ r.dest \in Names(c)
    BY <1>1 DEF RulesResolve, Names
  <2>2. QED
    BY <1>10, <2>1
<1>12. Sound(d)
  BY <1>1, <1>6, <1>9, <1>11 DEF Sound, SameNetwork
<1>13. QED
  BY <1>3, <1>5, <1>6, <1>12

(* The name after a zone was renamed. *)
Renamed(name, old, new) == IF name = old THEN new ELSE name

(* A zone that can be renamed is renamed wherever it is named. *)
LEMMA RenameZoneEffect ==
  ASSUME NEW c, Sound(c), NEW old, NEW new \in ZoneNames, lookupZone(c, new) = 0
  PROVE  LET d == renameZone(c, old, new)
         IN  /\ Sound(d) /\ SameNetwork(c, d) /\ Len(d.zones) = Len(c.zones)
             /\ \A i \in 1 .. Len(c.zones) :
                  /\ d.zones[i].name = Renamed(c.zones[i].name, old, new)
                  /\ d.zones[i].nets = c.zones[i].nets
             /\ \A r \in Rules : r \in d.rules <=>
                  \E q \in c.rules : /\ r.kind = q.kind /\ r.src = Renamed(q.src, old, new)
                                     /\ r.dest = Renamed(q.dest, old, new)
<1> DEFINE To(name) == IF name = old THEN new ELSE name
           z == [i \in DOMAIN c.zones |-> [name |-> To(c.zones[i].name), nets |-> c.zones[i].nets]]
           Ren(r) == [r EXCEPT !.src = To(@), !.dest = To(@)]
           rules == {Ren(r) : r \in c.rules}
           n == Len(c.zones)
<1>1. c \in Config /\ c.dev \subseteq c.net /\ ZonesResolve(c) /\ RulesResolve(c)
  BY DEF Sound
<1>2. /\ n \in Nat /\ DOMAIN c.zones = 1 .. n /\ c.rules \subseteq Rules
      /\ \A i \in 1 .. n : c.zones[i].name \in ZoneNames /\ c.zones[i].nets \subseteq Nets
  BY <1>1, Fields
<1>3. \A i \in 1 .. n :
        /\ z[i] \in Zones /\ z[i].name = To(c.zones[i].name) /\ z[i].nets = c.zones[i].nets
  BY <1>2 DEF Zones
<1>4. z \in [1 .. n -> Zones]
  BY <1>2, <1>3
<1>5. \A q \in Rules :
        /\ Ren(q) \in Rules /\ Ren(q).kind = q.kind
        /\ Ren(q).src = To(q.src) /\ Ren(q).dest = To(q.dest)
  BY DEF Rules
<1>6. renameZone(c, old, new) = [c EXCEPT !.zones = z, !.rules = rules]
  BY DEF renameZone
<1> HIDE DEF z, Ren
<1>7. z \in Seq(Zones) /\ Len(z) = n
  BY <1>2, <1>4, FunIsSeq
<1> HIDE DEF n
<1>8. rules \in SUBSET Rules
  BY <1>2, <1>5
<1>9. PICK d : d = renameZone(c, old, new)
  OBVIOUS
<1>10. d \in Config /\ d.zones = z /\ d.rules = rules /\ SameNetwork(c, d)
  <2> HIDE DEF rules
  <2>1. c \in Config /\ z \in Seq(Zones) /\ d = [c EXCEPT !.zones = z, !.rules = rules]
    BY <1>1, <1>6, <1>7, <1>9
  <2>2. QED
    BY <1>8, <2>1 DEF Config, SameNetwork
<1>11. DOMAIN d.zones = 1 .. n
  BY <1>7, <1>10, Fields
<1>12. ZonesResolve(d)
  BY <1>1, <1>2, <1>3, <1>10, <1>11 DEF ZonesResolve, SameNetwork
<1>13. \A x \in Names(c) : To(x) \in Names(d)
  <2> SUFFICES ASSUME NEW i \in 1 .. n
               PROVE  To(c.zones[i].name) \in Names(d)
    BY <1>2 DEF Names
  <2>1. d.zones[i].name = To(c.zones[i].name)
    BY <1>3, <1>10
  <2> HIDE DEF To
  <2>2. QED
    BY <1>11, <2>1 DEF Names
<1> HIDE DEF To
<1>14. RulesResolve(d)
  <2> SUFFICES ASSUME NEW q \in c.rules
               PROVE  Ren(q).src \in Names(d) /\ Ren(q).dest \in Names(d)
    BY <1>10 DEF RulesResolve, Names
  <2>1. q.src \in Names(c) /\ q.dest \in Names(c) /\ q \in Rules
    BY <1>1, <1>2 DEF RulesResolve, Names
  <2>2. QED
    BY <1>5, <1>13, <2>1
<1>15. Sound(d)
  BY <1>1, <1>10, <1>12, <1>14 DEF Sound, SameNetwork
<1>16. ASSUME NEW r \in Rules
       PROVE  r \in rules <=> \E q \in c.rules : r.kind = q.kind /\ r.src = To(q.src) /\ r.dest = To(q.dest)
  <2>1. \A q \in c.rules : q \in Rules
    BY <1>2
  <2>2. \A s, t \in Rules : s.kind = t.kind /\ s.src = t.src /\ s.dest = t.dest => s = t
    BY DEF Rules
  <2>3. \A q \in c.rules : r.kind = q.kind /\ r.src = To(q.src) /\ r.dest = To(q.dest) => r = Ren(q)
    BY <1>5, <2>1, <2>2
  <2>4. \A q \in c.rules : r = Ren(q) => r.kind = q.kind /\ r.src = To(q.src) /\ r.dest = To(q.dest)
    BY <1>5, <2>1
  <2>5. QED
    BY <2>3, <2>4
<1>17. \A x : To(x) = Renamed(x, old, new)
  BY DEF To, Renamed
<1>18. QED
  BY <1>3, <1>7, <1>9, <1>10, <1>15, <1>16, <1>17 DEF n

(* The zones that cover a network, after some got other networks. *)
LEMMA CoveringAfter ==
  ASSUME NEW c \in Config, NEW D \in SUBSET (1 .. Len(c.zones)), NEW nets \in [D -> SUBSET Nets],
         NEW m
  PROVE  /\ Covering(WithCovered(c, nets), m) \subseteq 1 .. Len(c.zones)
         /\ \A i \in 1 .. Len(c.zones) :
              /\ i \in D => (i \in Covering(WithCovered(c, nets), m) <=> m \in nets[i])
              /\ i \notin D => (i \in Covering(WithCovered(c, nets), m) <=> m \in c.zones[i].nets)
<1>1. PICK d : d = WithCovered(c, nets)
  OBVIOUS
<1>2. /\ d \in Config /\ SameNames(c, d)
      /\ \A i \in 1 .. Len(c.zones) :
           /\ i \in D => d.zones[i].nets = nets[i]
           /\ i \notin D => d.zones[i].nets = c.zones[i].nets
  BY <1>1, CoveredEffect
<1>3. DOMAIN d.zones = 1 .. Len(c.zones)
  BY <1>2, Fields DEF SameNames
<1>4. Covering(d, m) = {i \in 1 .. Len(c.zones) : m \in d.zones[i].nets}
  BY <1>3 DEF Covering
<1>5. \A i \in 1 .. Len(c.zones) :
        m \in d.zones[i].nets <=> IF i \in D THEN m \in nets[i] ELSE m \in c.zones[i].nets
  BY <1>2
<1>6. QED
  BY <1>1, <1>4, <1>5

(* Zone.addNetwork. *)
LEMMA ZoneAddEffect ==
  ASSUME NEW c, Sound(c), NEW i \in 1 .. Len(c.zones), NEW n \in Nets
  PROVE  LET d == ZoneAddNetwork(c, i, n)
         IN  /\ Sound(d) /\ SameNetwork(c, d) /\ Len(d.zones) = Len(c.zones)
             /\ \A m : Covering(d, m) \subseteq
                         IF m = n THEN Covering(c, m) \cup {i} ELSE Covering(c, m)
<1>1. c \in Config /\ ZonesResolve(c)
  BY DEF Sound
<1>2. /\ DOMAIN c.zones = 1 .. Len(c.zones) /\ c.net \subseteq Nets
      /\ c.zones[i].nets \subseteq c.net
  BY <1>1, Fields DEF ZonesResolve
<1>3. CASE n \notin c.net
  BY <1>3 DEF ZoneAddNetwork, SameNetwork
<1>4. CASE n \in c.net
  <2>1. PICK nets : nets = [j \in {i} |-> c.zones[j].nets \cup {n}]
    OBVIOUS
  <2>2. /\ {i} \in SUBSET (1 .. Len(c.zones)) /\ nets \in [{i} -> SUBSET c.net]
        /\ nets \in [{i} -> SUBSET Nets] /\ nets[i] = c.zones[i].nets \cup {n}
    BY <1>2, <1>4, <2>1
  <2>3. PICK d : d = WithCovered(c, nets)
    OBVIOUS
  <2>4. Sound(d) /\ SameNetwork(c, d) /\ SameNames(c, d)
    BY <1>1, <2>2, <2>3, CoveredSound, CoveredEffect
  <2>5. ASSUME NEW m
        PROVE  Covering(d, m) \subseteq IF m = n THEN Covering(c, m) \cup {i} ELSE Covering(c, m)
    <3>1. /\ Covering(d, m) \subseteq 1 .. Len(c.zones)
          /\ \A k \in 1 .. Len(c.zones) :
               /\ k \in {i} => (k \in Covering(d, m) <=> m \in nets[k])
               /\ k \notin {i} => (k \in Covering(d, m) <=> m \in c.zones[k].nets)
      BY <1>1, <2>2, <2>3, CoveringAfter
    <3>2. Covering(c, m) = {k \in 1 .. Len(c.zones) : m \in c.zones[k].nets}
      BY <1>2 DEF Covering
    <3>3. CASE m = n
      BY <3>1, <3>2, <3>3
    <3>4. CASE m # n
      BY <2>2, <3>1, <3>2, <3>4
    <3>5. QED
      BY <3>3, <3>4
  <2>6. ZoneAddNetwork(c, i, n) = d
    BY <1>4, <2>1, <2>3 DEF ZoneAddNetwork
  <2>7. QED
    BY <2>4, <2>5, <2>6 DEF SameNames
<1>5. QED
  BY <1>3, <1>4

(* Zone.deleteNetwork. *)
LEMMA ZoneDeleteEffect ==
  ASSUME NEW c, Sound(c), NEW i \in 1 .. Len(c.zones), NEW n
  PROVE  LET d == ZoneDeleteNetwork(c, i, n)
         IN  /\ Sound(d) /\ SameNetwork(c, d) /\ Len(d.zones) = Len(c.zones)
             /\ \A m : Covering(d, m) = IF m = n THEN Covering(c, m) \ {i} ELSE Covering(c, m)
<1>1. c \in Config /\ ZonesResolve(c)
  BY DEF Sound
<1>2. /\ DOMAIN c.zones = 1 .. Len(c.zones) /\ c.net \subseteq Nets
      /\ c.zones[i].nets \subseteq c.net
  BY <1>1, Fields DEF ZonesResolve
<1>3. PICK nets : nets = [j \in {i} |-> c.zones[j].nets \ {n}]
  OBVIOUS
<1>4. /\ {i} \in SUBSET (1 .. Len(c.zones)) /\ nets \in [{i} -> SUBSET c.net]
      /\ nets \in [{i} -> SUBSET Nets] /\ nets[i] = c.zones[i].nets \ {n}
  BY <1>2, <1>3
<1>5. PICK d : d = WithCovered(c, nets)
  OBVIOUS
<1>6. Sound(d) /\ SameNetwork(c, d) /\ SameNames(c, d)
  BY <1>1, <1>4, <1>5, CoveredSound, CoveredEffect
<1>7. ASSUME NEW m
      PROVE  Covering(d, m) = IF m = n THEN Covering(c, m) \ {i} ELSE Covering(c, m)
  <2>1. /\ Covering(d, m) \subseteq 1 .. Len(c.zones)
        /\ \A k \in 1 .. Len(c.zones) :
             /\ k \in {i} => (k \in Covering(d, m) <=> m \in nets[k])
             /\ k \notin {i} => (k \in Covering(d, m) <=> m \in c.zones[k].nets)
    BY <1>1, <1>4, <1>5, CoveringAfter
  <2>2. Covering(c, m) = {k \in 1 .. Len(c.zones) : m \in c.zones[k].nets}
    BY <1>2 DEF Covering
  <2>3. CASE m = n
    BY <1>4, <2>1, <2>2, <2>3
  <2>4. CASE m # n
    BY <1>4, <2>1, <2>2, <2>4
  <2>5. QED
    BY <2>3, <2>4
<1>8. ZoneDeleteNetwork(c, i, n) = d
  BY <1>3, <1>5 DEF ZoneDeleteNetwork
<1>9. QED
  BY <1>6, <1>7, <1>8 DEF SameNames

(* Firewall.deleteNetwork: what is left is sound as soon as the other      *)
(* networks were.                                                          *)
LEMMA FirewallDeleteEffect ==
  ASSUME NEW c \in Config, c.dev \subseteq c.net, RulesResolve(c), NEW n,
         \A i \in 1 .. Len(c.zones) : c.zones[i].nets \ {n} \subseteq c.net
  PROVE  LET d == FirewallDeleteNetwork(c, n)
         IN  /\ Sound(d) /\ SameNetwork(c, d) /\ Len(d.zones) = Len(c.zones)
             /\ \A m : Covering(d, m) = IF m = n THEN {} ELSE Covering(c, m)
<1>1. /\ DOMAIN c.zones = 1 .. Len(c.zones) /\ c.net \subseteq Nets
      /\ \A i \in 1 .. Len(c.zones) : c.zones[i].nets \subseteq Nets
  BY Fields
<1>2. PICK nets : nets = [i \in DOMAIN c.zones |-> c.zones[i].nets \ {n}]
  OBVIOUS
<1>3. /\ nets \in [1 .. Len(c.zones) -> SUBSET Nets]
      /\ \A i \in 1 .. Len(c.zones) : nets[i] = c.zones[i].nets \ {n}
  BY <1>1, <1>2
<1>4. PICK d : d = WithCovered(c, nets)
  OBVIOUS
<1>5. 1 .. Len(c.zones) \in SUBSET (1 .. Len(c.zones))
  OBVIOUS
<1>6. /\ d \in Config /\ SameNetwork(c, d) /\ SameNames(c, d) /\ d.rules = c.rules
      /\ \A i \in 1 .. Len(c.zones) : d.zones[i].nets = nets[i]
  <2>1. PICK D \in SUBSET (1 .. Len(c.zones)) : D = 1 .. Len(c.zones)
    BY <1>5
  <2>2. nets \in [D -> SUBSET Nets]
    BY <1>3, <2>1
  <2>3. /\ d \in Config /\ SameNetwork(c, d) /\ SameNames(c, d) /\ d.rules = c.rules
        /\ \A i \in 1 .. Len(c.zones) :
             /\ i \in D => d.zones[i].nets = nets[i]
             /\ i \notin D => d.zones[i].nets = c.zones[i].nets
    BY <1>4, <2>2, CoveredEffect
  <2>4. QED
    BY <2>1, <2>3
<1>7. DOMAIN d.zones = 1 .. Len(c.zones)
  BY <1>6, Fields DEF SameNames
<1>8. ZonesResolve(d)
  BY <1>3, <1>6, <1>7 DEF ZonesResolve, SameNetwork
<1>9. RulesResolve(d)
  <2>1. Names(d) = Names(c)
    BY <1>6, SameNamesResolve
  <2>2. QED
    BY <1>6, <2>1 DEF RulesResolve, Names
<1>10. Sound(d)
  BY <1>6, <1>8, <1>9 DEF Sound, SameNetwork
<1>11. ASSUME NEW m
       PROVE  Covering(d, m) = IF m = n THEN {} ELSE Covering(c, m)
  <2>1. Covering(d, m) = {k \in 1 .. Len(c.zones) : m \in nets[k]}
    BY <1>6, <1>7 DEF Covering
  <2>2. QED
    BY <1>1, <1>3, <2>1 DEF Covering
<1>12. FirewallDeleteNetwork(c, n) = d
  BY <1>2, <1>4 DEF FirewallDeleteNetwork
<1>13. QED
  BY <1>6, <1>10, <1>11, <1>12 DEF SameNames

-----------------------------------------------------------------------------
(* The operations on interfaces and wireless interfaces *)

(* A configuration is sound with more interfaces, or others attached. *)
LEMMA MoreNetsSound ==
  ASSUME NEW c, Sound(c), NEW d \in Config,
         c.net \subseteq d.net, d.dev \subseteq d.net, d.zones = c.zones, d.rules = c.rules
  PROVE  Sound(d)
<1>1. ZonesResolve(d)
  BY DEF Sound, ZonesResolve
<1>2. RulesResolve(d)
  BY DEF Sound, RulesResolve
<1>3. QED
  BY <1>1, <1>2 DEF Sound

(* What is attached changes with the wireless networks and the references. *)
LEMMA AttachedSame ==
  ASSUME NEW c, NEW d, d.wifi = c.wifi, d.refs = c.refs
  PROVE  Attached(d) = Attached(c)
BY DEF Attached

(* A deleted interface is attached nowhere and no zone covers it. *)
LEMMA DeleteNetworkEffect ==
  ASSUME NEW c, Sound(c), NEW n
  PROVE  LET d == deleteNetwork(c, n)
         IN  /\ Sound(d) /\ d.net = c.net \ {n} /\ Len(d.zones) = Len(c.zones)
             /\ Attached(d) \subseteq Attached(c) \ {n}
             /\ \A m : Covering(d, m) \subseteq Covering(c, m)
<1> DEFINE refs == {r \in c.refs : r.net # n}
           wifi == [w \in DOMAIN c.wifi |-> c.wifi[w] \ {n}]
<1>1. c \in Config /\ c.dev \subseteq c.net /\ ZonesResolve(c) /\ RulesResolve(c)
  BY DEF Sound
<1>2. /\ c.net \subseteq Nets /\ c.refs \subseteq Refs /\ DOMAIN c.wifi \in SUBSET Wifis
      /\ c.wifi \in [DOMAIN c.wifi -> SUBSET Nets] /\ DOMAIN c.zones = 1 .. Len(c.zones)
  BY <1>1, Fields
<1>3. /\ refs \in SUBSET Refs /\ wifi \in [DOMAIN c.wifi -> SUBSET Nets]
      /\ DOMAIN wifi = DOMAIN c.wifi
      /\ \A w \in DOMAIN c.wifi : wifi[w] = c.wifi[w] \ {n}
  BY <1>2
<1>4. wifi \in UNION {[on -> SUBSET Nets] : on \in SUBSET Wifis}
  BY <1>2, <1>3
<1>5. PICK e : e = [c EXCEPT !.net = @ \ {n}, !.dev = @ \ {n}, !.refs = refs, !.wifi = wifi]
  OBVIOUS
<1>6. deleteNetwork(c, n) = FirewallDeleteNetwork(e, n)
  BY <1>5 DEF deleteNetwork
<1>7. \A r : r \in refs <=> r \in c.refs /\ r.net # n
  OBVIOUS
<1> HIDE DEF refs, wifi
<1>8. /\ e \in Config /\ e.net = c.net \ {n} /\ e.dev = c.dev \ {n} /\ e.refs = refs
      /\ e.wifi = wifi /\ e.zones = c.zones /\ e.rules = c.rules
  BY <1>1, <1>3, <1>4, <1>5 DEF Config
<1>9. PICK d : d = FirewallDeleteNetwork(e, n)
  OBVIOUS
<1>10. /\ Sound(d) /\ SameNetwork(e, d) /\ Len(d.zones) = Len(e.zones)
       /\ \A m : Covering(d, m) = IF m = n THEN {} ELSE Covering(e, m)
  <2>1. RulesResolve(e)
    BY <1>1, <1>8 DEF RulesResolve
  <2>2. \A i \in 1 .. Len(e.zones) : e.zones[i].nets \ {n} \subseteq e.net
    BY <1>1, <1>2, <1>8 DEF ZonesResolve
  <2>3. e.dev \subseteq e.net
    BY <1>1, <1>8
  <2>4. QED
    BY <1>8, <1>9, <2>1, <2>2, <2>3, FirewallDeleteEffect
<1>11. Attached(d) \subseteq Attached(c) \ {n}
  <2> SUFFICES ASSUME NEW x \in Attached(d)
               PROVE  x \in Attached(c) /\ x # n
    OBVIOUS
  <2>1. \/ \E w \in DOMAIN wifi : x \in wifi[w]
        \/ \E r \in refs : r.net = x
    BY <1>8, <1>10, AttachedIs DEF SameNetwork
  <2>2. CASE \E w \in DOMAIN wifi : x \in wifi[w]
    <3>1. PICK w \in DOMAIN c.wifi : x \in c.wifi[w] \ {n}
      BY <1>3, <2>2
    <3>2. QED
      BY <3>1, AttachedIs
  <2>3. CASE \E r \in refs : r.net = x
    <3>1. PICK r \in c.refs : r.net = x /\ r.net # n
      BY <1>7, <2>3
    <3>2. QED
      BY <3>1, AttachedIs
  <2>4. QED
    BY <2>1, <2>2, <2>3
<1>12. \A m : Covering(d, m) \subseteq Covering(c, m)
  <2>1. \A m : Covering(e, m) = Covering(c, m)
    BY <1>8 DEF Covering
  <2>2. QED
    BY <1>10, <2>1
<1>13. QED
  BY <1>6, <1>8, <1>9, <1>10, <1>11, <1>12 DEF SameNetwork

(* The number for a new wireless interface. *)
LEMMA FreeSid ==
  ASSUME NEW c \in Config, NEW d \in Config
  PROVE  next_free_sid(d, Cardinality(DOMAIN c.wifi)) \in Nat
<1> DEFINE offset == Cardinality(DOMAIN c.wifi)
           free == {k \in offset .. MaxWifi + 1 : k \notin DOMAIN d.wifi}
<1>1. DOMAIN c.wifi \in SUBSET (0 .. MaxWifi) /\ DOMAIN d.wifi \in SUBSET (0 .. MaxWifi)
  BY Fields DEF Wifis
<1>2. offset \in Nat /\ offset <= MaxWifi + 1
  <2>1. DOMAIN c.wifi \in SUBSET Nat /\ \A k \in DOMAIN c.wifi : k <= MaxWifi
    BY <1>1
  <2>2. IsFiniteSet(DOMAIN c.wifi) /\ offset <= MaxWifi + 1
    BY <2>1, FS_BoundedSetOfNaturals
  <2>3. QED
    BY <2>2, FS_CardinalityType
<1>3. next_free_sid(d, offset) = Min(free)
  BY DEF next_free_sid
<1> HIDE DEF offset
<1>4. free \in SUBSET Nat
  BY <1>2
<1>5. MaxWifi + 1 \in free
  BY <1>1, <1>2
<1>6. Min(free) \in free
  BY <1>4, <1>5, MinIsLeast
<1>7. QED
  BY <1>3, <1>4, <1>6 DEF offset

(* A wireless interface is added. *)
LEMMA WithWifiEffect ==
  ASSUME NEW c \in Config, NEW w \in Wifis, NEW ns \in SUBSET Nets
  PROVE  LET d == WithWifi(c, w, ns)
         IN  /\ d \in Config /\ d.net = c.net /\ d.dev = c.dev /\ d.refs = c.refs
             /\ d.zones = c.zones /\ d.rules = c.rules
             /\ Attached(d) \subseteq Attached(c) \cup ns
<1> DEFINE on == DOMAIN c.wifi \cup {w}
           f == [v \in on |-> IF v = w THEN ns ELSE c.wifi[v]]
<1>1. DOMAIN c.wifi \subseteq Wifis /\ c.wifi \in [DOMAIN c.wifi -> SUBSET Nets]
  BY Fields
<1>2. /\ on \in SUBSET Wifis /\ f \in [on -> SUBSET Nets]
      /\ \A v \in on : f[v] = ns \/ (v \in DOMAIN c.wifi /\ f[v] = c.wifi[v])
  BY <1>1
<1>3. WithWifi(c, w, ns) = [c EXCEPT !.wifi = f]
  BY DEF WithWifi
<1> HIDE DEF f, on
<1>4. PICK d : d = WithWifi(c, w, ns)
  OBVIOUS
<1>5. /\ d \in Config /\ d.wifi = f /\ d.net = c.net /\ d.dev = c.dev /\ d.refs = c.refs
      /\ d.zones = c.zones /\ d.rules = c.rules
  BY <1>2, <1>3, <1>4, PutWifi
<1>6. ASSUME NEW x \in Attached(d) PROVE x \in Attached(c) \cup ns
  <2>1. \/ \E v \in DOMAIN f : x \in f[v]
        \/ \E r \in c.refs : r.net = x
    BY <1>5, AttachedIs
  <2>2. CASE \E v \in DOMAIN f : x \in f[v]
    <3>1. PICK v \in on : x \in f[v]
      BY <1>2, <2>2
    <3>2. QED
      BY <1>2, <3>1, AttachedIs
  <2>3. QED
    BY <2>1, <2>2, AttachedIs
<1>7. QED
  BY <1>4, <1>5, <1>6

(* Other networks for a wireless interface. *)
LEMMA SetWifiEffect ==
  ASSUME NEW c \in Config, NEW w \in DOMAIN c.wifi, NEW ns \in SUBSET Nets
  PROVE  LET d == [c EXCEPT !.wifi[w] = ns]
         IN  /\ d \in Config /\ d.net = c.net /\ d.dev = c.dev /\ d.refs = c.refs
             /\ d.zones = c.zones /\ d.rules = c.rules
             /\ w \in DOMAIN d.wifi /\ d.wifi[w] = ns
             /\ Attached(d) \subseteq Attached(c) \cup ns
<1> DEFINE f == [c.wifi EXCEPT ![w] = ns]
<1>1. DOMAIN c.wifi \in SUBSET Wifis /\ c.wifi \in [DOMAIN c.wifi -> SUBSET Nets]
  BY Fields
<1>2. /\ f \in [DOMAIN c.wifi -> SUBSET Nets] /\ DOMAIN f = DOMAIN c.wifi /\ f[w] = ns
      /\ \A v \in DOMAIN c.wifi : f[v] = ns \/ f[v] = c.wifi[v]
  BY <1>1
<1>3. [c EXCEPT !.wifi[w] = ns] = [c EXCEPT !.wifi = f]
  OBVIOUS
<1> HIDE DEF f
<1>4. PICK d : d = [c EXCEPT !.wifi = f]
  OBVIOUS
<1>5. /\ d \in Config /\ d.wifi = f /\ d.net = c.net /\ d.dev = c.dev /\ d.refs = c.refs
      /\ d.zones = c.zones /\ d.rules = c.rules
  BY <1>1, <1>2, <1>4, PutWifi
<1>6. ASSUME NEW x \in Attached(d) PROVE x \in Attached(c) \cup ns
  <2>1. \/ \E v \in DOMAIN f : x \in f[v]
        \/ \E r \in c.refs : r.net = x
    BY <1>5, AttachedIs
  <2>2. CASE \E v \in DOMAIN f : x \in f[v]
    <3>1. PICK v \in DOMAIN c.wifi : x \in f[v]
      BY <1>2, <2>2
    <3>2. QED
      BY <1>2, <3>1, AttachedIs
  <2>3. QED
    BY <2>1, <2>2, AttachedIs
<1>7. QED
  BY <1>2, <1>3, <1>4, <1>5, <1>6

(* The networks of the wireless dialog: what is attached anew has a        *)
(* section, unless netifd still runs it.                                   *)
LEMMA WriteNetworksEffect ==
  ASSUME NEW c, Sound(c), NEW w \in DOMAIN c.wifi, NEW ns \in SUBSET Nets
  PROVE  LET d == WriteNetworks(c, w, ns)
         IN  /\ Sound(d) /\ c.net \subseteq d.net /\ d.zones = c.zones
             /\ Attached(d) \subseteq d.net \cup run.nets \cup Attached(c)
<1>1. c \in Config /\ c.dev \subseteq c.net
  BY DEF Sound
<1>2. c.net \subseteq Nets /\ c.wifi \in [DOMAIN c.wifi -> SUBSET Nets]
  BY <1>1, Fields
<1>3. c.wifi[w] \subseteq Attached(c) /\ c.wifi[w] \subseteq Nets
  BY <1>2, AttachedIs
<1>4. CASE ns = {}
  <2>1. PICK none \in SUBSET Nets : none = c.wifi[w] \ c.wifi[w]
    OBVIOUS
  <2>2. PICK d : d = [c EXCEPT !.wifi[w] = none]
    OBVIOUS
  <2>3. WriteNetworks(c, w, ns) = d
    BY <1>4, <2>1, <2>2 DEF WriteNetworks, deleteDevice
  <2>4. /\ d \in Config /\ d.net = c.net /\ d.dev = c.dev /\ d.zones = c.zones
        /\ d.rules = c.rules /\ Attached(d) \subseteq Attached(c) \cup none
    BY <1>1, <2>2, SetWifiEffect
  <2>5. Sound(d)
    BY <1>1, <2>4, MoreNetsSound
  <2>6. QED
    BY <2>1, <2>3, <2>4, <2>5
<1>5. CASE ns # {}
  <2>1. PICK old : old = getNetworks(c, w)
    OBVIOUS
  <2>2. PICK new \in SUBSET Nets : new = {n \in ns \ old : ~getNetwork(c, n)}
    OBVIOUS
  <2>3. PICK nets \in SUBSET Nets : nets = c.net \cup new
    BY <1>2
  <2>4. PICK made : made = [c EXCEPT !.net = nets]
    OBVIOUS
  <2>5. /\ made \in Config /\ made.net = nets /\ made.dev = c.dev /\ made.refs = c.refs
        /\ made.wifi = c.wifi /\ made.zones = c.zones /\ made.rules = c.rules
    BY <1>1, <2>4 DEF Config
  <2>6. PICK more \in SUBSET Nets : more = made.wifi[w] \cup (ns \ old)
    BY <1>3, <2>5
  <2>7. PICK e : e = [made EXCEPT !.wifi[w] = more]
    OBVIOUS
  <2>8. w \in DOMAIN made.wifi
    BY <2>5
  <2>9. /\ e \in Config /\ e.net = nets /\ e.dev = c.dev
        /\ e.zones = c.zones /\ e.rules = c.rules
        /\ w \in DOMAIN e.wifi /\ e.wifi[w] = more
        /\ Attached(e) \subseteq Attached(made) \cup more
    BY <2>5, <2>7, <2>8, SetWifiEffect
  <2>10. PICK less \in SUBSET Nets : less = e.wifi[w] \ (old \ ns)
    BY <2>9
  <2>11. PICK d : d = [e EXCEPT !.wifi[w] = less]
    OBVIOUS
  <2>12. /\ d \in Config /\ d.net = nets /\ d.dev = c.dev
         /\ d.zones = c.zones /\ d.rules = c.rules
         /\ Attached(d) \subseteq Attached(e) \cup less
    BY <2>9, <2>11, SetWifiEffect
  <2>13. WriteNetworks(c, w, ns) = d
    <3>1. c.net \cup {n \in ns \ old : ~getNetwork(c, n)} = nets
      BY <2>2, <2>3
    <3>2. made = [c EXCEPT !.net = @ \cup {n \in ns \ old : ~getNetwork(c, n)}]
      BY <2>4, <3>1
    <3>3. e = [made EXCEPT !.wifi[w] = @ \cup (ns \ old)]
      BY <2>6, <2>7
    <3>4. d = deleteDevice(e, w, old \ ns)
      BY <2>10, <2>11 DEF deleteDevice
    <3>5. QED
      BY <1>5, <2>1, <3>2, <3>3, <3>4 DEF WriteNetworks
  <2>14. Sound(d)
    <3>1. c.net \subseteq d.net /\ d.dev \subseteq d.net
      BY <1>1, <2>3, <2>12
    <3>2. QED
      BY <2>12, <3>1, MoreNetsSound
  <2>15. ns \ old \subseteq nets \cup run.nets
    BY <2>2, <2>3 DEF getNetwork
  <2>16. Attached(made) = Attached(c)
    BY <2>5, AttachedSame
  <2>17. less \subseteq more /\ more \subseteq Attached(c) \cup (ns \ old)
    BY <1>3, <2>5, <2>6, <2>9, <2>10
  <2>18. QED
    BY <2>3, <2>9, <2>12, <2>13, <2>14, <2>15, <2>16, <2>17
<1>6. QED
  BY <1>4, <1>5

(* addNetwork: afterwards getNetwork finds it. *)
LEMMA AddNetworkEffect ==
  ASSUME NEW c, Sound(c), NEW n \in Nets
  PROVE  LET d == addNetwork(c, n)
         IN  /\ Sound(d) /\ c.net \subseteq d.net /\ n \in d.net \cup run.nets
             /\ d.zones = c.zones /\ d.rules = c.rules /\ d.wifi = c.wifi /\ d.refs = c.refs
<1>1. c \in Config /\ c.net \subseteq Nets /\ c.dev \subseteq c.net
  BY Fields DEF Sound
<1>2. CASE getNetwork(c, n)
  BY <1>2 DEF addNetwork, getNetwork
<1>3. CASE ~getNetwork(c, n)
  <2>1. PICK nets \in SUBSET Nets : nets = c.net \cup {n}
    BY <1>1
  <2>2. PICK d : d = [c EXCEPT !.net = nets]
    OBVIOUS
  <2>3. /\ d \in Config /\ d.net = nets /\ d.dev = c.dev /\ d.refs = c.refs
        /\ d.wifi = c.wifi /\ d.zones = c.zones /\ d.rules = c.rules
    BY <1>1, <2>2 DEF Config
  <2>4. addNetwork(c, n) = d
    BY <1>3, <2>1, <2>2 DEF addNetwork
  <2>5. c.net \subseteq d.net /\ d.dev \subseteq d.net /\ n \in d.net
    BY <1>1, <2>1, <2>3
  <2>6. QED
    BY <2>3, <2>4, <2>5, MoreNetsSound
<1>4. QED
  BY <1>2, <1>3

(* A wireless network is joined: the interface is in one zone at most. *)
LEMMA JoinEffect ==
  ASSUME NEW c, Sound(c), NEW n \in Nets, NEW z \in ZoneNames \cup {None},
         NEW replace \in BOOLEAN, JoinSid(c, replace) <= MaxWifi
  PROVE  LET d == handleJoinConfirm(c, n, z, replace)
         IN  /\ Sound(d) /\ c.net \subseteq d.net
             /\ Attached(d) \subseteq d.net \cup run.nets \cup Attached(c)
             /\ \A m : m # n => Covering(d, m) \subseteq Covering(c, m)
             /\ \E j : Covering(d, n) \subseteq {j}
<1>1. c \in Config /\ c.dev \subseteq c.net
  BY DEF Sound
<1>2. PICK r : r = Replaced(c, replace)
  OBVIOUS
<1>3. /\ r \in Config /\ r.net = c.net /\ r.dev = c.dev /\ r.zones = c.zones
      /\ r.rules = c.rules /\ Attached(r) \subseteq Attached(c)
  <2>1. CASE ~replace
    BY <1>1, <1>2, <2>1 DEF Replaced
  <2>2. CASE replace
    <3>1. PICK none : none = <<>>
      OBVIOUS
    <3>2. none \in [{} -> SUBSET Nets] /\ {} \in SUBSET Wifis /\ DOMAIN none = {}
      BY <3>1
    <3>3. r = [c EXCEPT !.wifi = none]
      BY <1>2, <2>2, <3>1 DEF Replaced
    <3>4. /\ r \in Config /\ r.wifi = none /\ r.net = c.net /\ r.dev = c.dev
          /\ r.refs = c.refs /\ r.zones = c.zones /\ r.rules = c.rules
      <4>1. PICK on \in SUBSET Wifis : none \in [on -> SUBSET Nets]
        BY <3>2
      <4>2. QED
        BY <1>1, <3>3, <4>1, PutWifi
    <3>5. Attached(r) \subseteq Attached(c)
      BY <3>2, <3>4, AttachedIs
    <3>6. QED
      BY <3>4, <3>5
  <2>3. QED
    BY <2>1, <2>2
<1>4. PICK w \in Wifis : w = JoinSid(c, replace)
  <2>1. JoinSid(c, replace) \in Nat
    BY <1>1, <1>2, <1>3, FreeSid DEF JoinSid
  <2>2. QED
    BY <2>1 DEF Wifis
<1>5. PICK one \in SUBSET Nets : one = {n}
  OBVIOUS
<1>6. PICK a : a = WithWifi(r, w, one)
  OBVIOUS
<1>7. /\ a \in Config /\ a.net = c.net /\ a.dev = c.dev /\ a.zones = c.zones
      /\ a.rules = c.rules /\ Attached(a) \subseteq Attached(c) \cup {n}
  BY <1>3, <1>5, <1>6, WithWifiEffect
<1>8. Sound(a)
  BY <1>1, <1>7, MoreNetsSound
<1>9. PICK b : b = addNetwork(a, n)
  OBVIOUS
<1>10. /\ Sound(b) /\ c.net \subseteq b.net /\ n \in b.net \cup run.nets
       /\ b.zones = c.zones /\ Attached(b) = Attached(a)
  BY <1>7, <1>8, <1>9, AddNetworkEffect, AttachedSame
<1>11. PICK e : e = FirewallDeleteNetwork(b, n)
  OBVIOUS
<1>12. /\ Sound(e) /\ SameNetwork(b, e) /\ \A m : Covering(e, m) = IF m = n THEN {} ELSE Covering(b, m)
  <2>1. b \in Config /\ b.dev \subseteq b.net /\ RulesResolve(b)
    BY <1>10 DEF Sound
  <2>2. \A i \in 1 .. Len(b.zones) : b.zones[i].nets \ {n} \subseteq b.net
    BY <1>10, <2>1, Fields DEF Sound, ZonesResolve
  <2>3. QED
    BY <1>11, <2>1, <2>2, FirewallDeleteEffect
<1>13. \A m : Covering(b, m) = Covering(c, m)
  BY <1>10 DEF Covering
<1>14. CASE z = None
  <2>1. handleJoinConfirm(c, n, z, replace) = e
    BY <1>2, <1>4, <1>5, <1>6, <1>9, <1>11, <1>14 DEF handleJoinConfirm
  <2>2. Attached(e) = Attached(b)
    BY <1>12, AttachedSame DEF SameNetwork
  <2>3. QED
    BY <1>7, <1>10, <1>12, <1>13, <2>1, <2>2 DEF SameNetwork
<1>15. CASE z # None
  <2>1. z \in ZoneNames
    BY <1>15
  <2>2. PICK f : f = addZone(e, z)
    OBVIOUS
  <2>3. /\ Sound(f) /\ SameNetwork(e, f) /\ lookupZone(f, z) \in 1 .. Len(f.zones)
        /\ \A m : Covering(f, m) = Covering(e, m)
    BY <1>12, <2>1, <2>2, AddZoneEffect
  <2>4. PICK j \in 1 .. Len(f.zones) : j = lookupZone(f, z)
    BY <2>3
  <2>5. PICK d : d = ZoneAddNetwork(f, j, n)
    OBVIOUS
  <2>6. /\ Sound(d) /\ SameNetwork(f, d)
        /\ \A m : Covering(d, m) \subseteq IF m = n THEN Covering(f, m) \cup {j} ELSE Covering(f, m)
    BY <2>3, <2>5, ZoneAddEffect
  <2>7. handleJoinConfirm(c, n, z, replace) = d
    BY <1>2, <1>4, <1>5, <1>6, <1>9, <1>11, <1>15, <2>2, <2>4, <2>5 DEF handleJoinConfirm
  <2>8. d.net = b.net /\ Attached(d) = Attached(b)
    BY <1>12, <2>3, <2>6, AttachedSame DEF SameNetwork
  <2>9. Covering(d, n) \subseteq {j} /\ \A m : m # n => Covering(d, m) \subseteq Covering(c, m)
    BY <1>12, <1>13, <2>3, <2>6
  <2>10. QED
    BY <1>7, <1>10, <2>6, <2>7, <2>8, <2>9
<1>16. QED
  BY <1>14, <1>15

-----------------------------------------------------------------------------
(* The dialogs of interfaces and zones *)

(* The zone of the interface dialog: the interface leaves a zone before it *)
(* enters another.                                                         *)
LEMMA WriteZoneEffect ==
  ASSUME NEW c, Sound(c), NEW n \in Nets, NEW z \in ZoneNames \cup {None}
  PROVE  LET d == WriteZone(c, n, z)
         IN  /\ Sound(d) /\ SameNetwork(c, d)
             /\ \A m : m # n => Covering(d, m) \subseteq Covering(c, m)
             /\ \/ Covering(d, n) \subseteq Covering(c, n)
                \/ \E i, j : /\ Covering(d, n) \subseteq (Covering(c, n) \ {i}) \cup {j}
                             /\ i \in Covering(c, n) \/ Covering(c, n) = {}
<1>1. c \in Config /\ Len(c.zones) \in Nat /\ DOMAIN c.zones = 1 .. Len(c.zones)
  BY Fields DEF Sound
<1>2. PICK old \in 0 .. Len(c.zones) :
        /\ old = getZoneByNetwork(c, n)
        /\ old # 0 => n \in c.zones[old].nets
        /\ old = 0 => Covering(c, n) = {}
  BY <1>1, ZoneByNetwork
<1>3. PICK left : left = IF old = 0 THEN c ELSE ZoneDeleteNetwork(c, old, n)
  OBVIOUS
<1>4. /\ Sound(left) /\ SameNetwork(c, left)
      /\ \A m : m # n => Covering(left, m) = Covering(c, m)
      /\ Covering(left, n) = Covering(c, n) \ {old}
  <2>1. CASE old = 0
    BY <1>2, <1>3, <2>1 DEF SameNetwork
  <2>2. CASE old # 0
    <3>1. old \in 1 .. Len(c.zones)
      BY <1>1, <2>2
    <3>2. left = ZoneDeleteNetwork(c, old, n)
      BY <1>3, <2>2
    <3>3. /\ Sound(left) /\ SameNetwork(c, left)
          /\ \A m : Covering(left, m) = IF m = n THEN Covering(c, m) \ {old} ELSE Covering(c, m)
      BY <3>1, <3>2, ZoneDeleteEffect
    <3>4. QED
      BY <3>3
  <2>3. QED
    BY <2>1, <2>2
<1>5. old \in Covering(c, n) \/ Covering(c, n) = {}
  BY <1>1, <1>2 DEF Covering
<1>6. \/ WriteZone(c, n, z) = c
      \/ z = None /\ WriteZone(c, n, z) = left
      \/ /\ z # None
         /\ WriteZone(c, n, z) = ZoneAddNetwork(addZone(left, z), lookupZone(addZone(left, z), z), n)
  BY <1>2, <1>3 DEF WriteZone
<1>7. CASE WriteZone(c, n, z) = c
  BY <1>7 DEF SameNetwork
<1>8. CASE z = None /\ WriteZone(c, n, z) = left
  BY <1>4, <1>8
<1>9. CASE /\ z # None
           /\ WriteZone(c, n, z) = ZoneAddNetwork(addZone(left, z), lookupZone(addZone(left, z), z), n)
  <2>1. z \in ZoneNames
    BY <1>9
  <2>2. PICK made : made = addZone(left, z)
    OBVIOUS
  <2>3. /\ Sound(made) /\ SameNetwork(left, made) /\ lookupZone(made, z) \in 1 .. Len(made.zones)
        /\ \A m : Covering(made, m) = Covering(left, m)
    BY <1>4, <2>1, <2>2, AddZoneEffect
  <2>4. PICK j \in 1 .. Len(made.zones) : j = lookupZone(made, z)
    BY <2>3
  <2>5. PICK d : d = ZoneAddNetwork(made, j, n)
    OBVIOUS
  <2>6. /\ Sound(d) /\ SameNetwork(made, d)
        /\ \A m : Covering(d, m)
                    \subseteq IF m = n THEN Covering(made, m) \cup {j} ELSE Covering(made, m)
    BY <2>3, <2>5, ZoneAddEffect
  <2>7. WriteZone(c, n, z) = d
    BY <1>9, <2>2, <2>4, <2>5
  <2>8. SameNetwork(c, d)
    BY <1>4, <2>3, <2>6 DEF SameNetwork
  <2>9. /\ \A m : m # n => Covering(d, m) \subseteq Covering(c, m)
        /\ Covering(d, n) \subseteq (Covering(c, n) \ {old}) \cup {j}
    BY <1>4, <2>3, <2>6
  <2>10. QED
    BY <1>5, <2>6, <2>7, <2>8, <2>9
<1>10. QED
  BY <1>6, <1>7, <1>8, <1>9

(* Forwardings are rules. *)
LEMMA ForwardingIs ==
  ASSUME NEW s \in ZoneNames, NEW d \in ZoneNames
  PROVE  /\ Forwarding(s, d) \in Rules /\ Forwarding(s, d).kind = "forwarding"
         /\ Forwarding(s, d).src = s /\ Forwarding(s, d).dest = d
BY DEF Forwarding, Rules

LEMMA ForwardingsBy ==
  ASSUME NEW c, NEW name
  PROVE  /\ \A r : r \in getForwardingsBy(c, "src", name)
                     <=> r \in c.rules /\ r.kind = "forwarding" /\ r.src = name
         /\ \A r : r \in getForwardingsBy(c, "dest", name)
                     <=> r \in c.rules /\ r.kind = "forwarding" /\ r.dest = name
BY DEF getForwardingsBy

(* One direction of the forwardings of a zone is written. *)
LEMMA ForwardTo ==
  ASSUME NEW c, Sound(c), NEW name \in Names(c), NEW out \in SUBSET ZoneNames
  PROVE  LET d == [c EXCEPT !.rules = (@ \ getForwardingsBy(c, "src", name))
                                      \cup (getForwardingsBy(c, "src", name)
                                               \cap {Forwarding(name, e) : e \in out})
                                      \cup addForwardingTo(c, name, out)]
         IN  /\ Sound(d) /\ SameNetwork(c, d) /\ d.zones = c.zones
             /\ \A r \in Rules : ~(r.kind = "forwarding" /\ r.src = name)
                                   => (r \in d.rules <=> r \in c.rules)
             /\ out \subseteq Names(c) \ {name} =>
                  \A r \in Rules : r.kind = "forwarding" /\ r.src = name
                                     => (r \in d.rules <=> r.dest \in out)
<1> DEFINE F == getForwardingsBy(c, "src", name)
           G == {Forwarding(name, e) : e \in out}
           A == addForwardingTo(c, name, out)
           rules == (c.rules \ F) \cup (F \cap G) \cup A
<1>1. c \in Config /\ RulesResolve(c)
  BY DEF Sound
<1>2. /\ c.rules \subseteq Rules /\ Names(c) \subseteq ZoneNames
  BY <1>1, Fields DEF Names
<1>3. \A e : lookupZone(c, e) # 0 <=> e \in Names(c)
  BY <1>1, LookupZone
<1>4. \A r : r \in A <=> \E e \in out : e # name /\ e \in Names(c) /\ r = Forwarding(name, e)
  BY <1>3 DEF addForwardingTo
<1>5. \A r \in Rules : r.kind = "forwarding" /\ r.src = name => r = Forwarding(name, r.dest)
  BY DEF Rules, Forwarding
<1>6. \A e \in out : /\ Forwarding(name, e) \in Rules /\ Forwarding(name, e).kind = "forwarding"
                     /\ Forwarding(name, e).src = name /\ Forwarding(name, e).dest = e
  BY <1>2, ForwardingIs
<1>7. \A r : r \in F <=> r \in c.rules /\ r.kind = "forwarding" /\ r.src = name
  BY ForwardingsBy
<1>8. \A r : r \in G <=> \E e \in out : r = Forwarding(name, e)
  OBVIOUS
<1> HIDE DEF F, G, A
<1>9. \A r \in A : /\ r \in Rules /\ r.kind = "forwarding" /\ r.src = name
                   /\ r.dest \in Names(c) /\ r.dest \in out
  <2> SUFFICES ASSUME NEW r \in A
               PROVE  /\ r \in Rules /\ r.kind = "forwarding" /\ r.src = name
                      /\ r.dest \in Names(c) /\ r.dest \in out
    OBVIOUS
  <2>1. PICK e \in out : e \in Names(c) /\ r = Forwarding(name, e)
    BY <1>4
  <2>2. QED
    BY <1>6, <2>1
<1>10. rules \in SUBSET Rules
  BY <1>2, <1>7, <1>9
<1>11. PICK d : d = [c EXCEPT !.rules = rules]
  OBVIOUS
<1>12. /\ d \in Config /\ d.rules = rules /\ SameNetwork(c, d) /\ d.zones = c.zones
  <2> HIDE DEF rules
  <2>1. QED
    BY <1>1, <1>10, <1>11, PutRules
<1>13. Sound(d)
  <2>1. Names(d) = Names(c)
    BY <1>12 DEF Names
  <2>2. \A r \in rules : r.src \in Names(c) /\ r.dest \in Names(c)
    <3>1. \A r \in c.rules : r.src \in Names(c) /\ r.dest \in Names(c)
      BY <1>1 DEF RulesResolve, Names
    <3>2. \A r \in rules : r \in c.rules \/ r \in A
      BY <1>7
    <3>3. QED
      BY <1>9, <3>1, <3>2
  <2>3. RulesResolve(d)
    BY <1>12, <2>1, <2>2 DEF RulesResolve, Names
  <2>4. QED
    BY <1>12, <2>3 DEF Sound, ZonesResolve, SameNetwork
<1>14. ASSUME NEW r \in Rules, ~(r.kind = "forwarding" /\ r.src = name)
       PROVE  r \in rules <=> r \in c.rules
  BY <1>7, <1>9, <1>14
<1>15. ASSUME NEW r \in Rules, r.kind = "forwarding", r.src = name,
              out \subseteq Names(c) \ {name}
       PROVE  r \in rules <=> r.dest \in out
  <2>1. r \in rules => r.dest \in out
    <3> SUFFICES ASSUME r \in rules PROVE r.dest \in out
      OBVIOUS
    <3>1. r \in F \cap G \/ r \in A
      BY <1>7, <1>15
    <3>2. QED
      BY <1>6, <1>8, <1>9, <3>1
  <2>2. r.dest \in out => r \in A
    BY <1>4, <1>5, <1>15
  <2>3. QED
    BY <2>1, <2>2
<1>16. QED
  BY <1>11, <1>12, <1>13, <1>14, <1>15 DEF F, G, A

(* The other direction of the forwardings of a zone is written. *)
LEMMA ForwardFrom ==
  ASSUME NEW c, Sound(c), NEW name \in Names(c), NEW inn \in SUBSET ZoneNames
  PROVE  LET d == [c EXCEPT !.rules = (@ \ getForwardingsBy(c, "dest", name))
                                      \cup (getForwardingsBy(c, "dest", name)
                                               \cap {Forwarding(e, name) : e \in inn})
                                      \cup addForwardingFrom(c, name, inn)]
         IN  /\ Sound(d) /\ SameNetwork(c, d) /\ d.zones = c.zones
             /\ \A r \in Rules : ~(r.kind = "forwarding" /\ r.dest = name)
                                   => (r \in d.rules <=> r \in c.rules)
             /\ inn \subseteq Names(c) \ {name} =>
                  \A r \in Rules : r.kind = "forwarding" /\ r.dest = name
                                     => (r \in d.rules <=> r.src \in inn)
<1> DEFINE F == getForwardingsBy(c, "dest", name)
           G == {Forwarding(e, name) : e \in inn}
           A == addForwardingFrom(c, name, inn)
           rules == (c.rules \ F) \cup (F \cap G) \cup A
<1>1. c \in Config /\ RulesResolve(c)
  BY DEF Sound
<1>2. /\ c.rules \subseteq Rules /\ Names(c) \subseteq ZoneNames
  BY <1>1, Fields DEF Names
<1>3. \A e : lookupZone(c, e) # 0 <=> e \in Names(c)
  BY <1>1, LookupZone
<1>4. \A r : r \in A <=> \E e \in inn : e # name /\ e \in Names(c) /\ r = Forwarding(e, name)
  BY <1>3 DEF addForwardingFrom
<1>5. \A r \in Rules : r.kind = "forwarding" /\ r.dest = name => r = Forwarding(r.src, name)
  BY DEF Rules, Forwarding
<1>6. \A e \in inn : /\ Forwarding(e, name) \in Rules /\ Forwarding(e, name).kind = "forwarding"
                     /\ Forwarding(e, name).src = e /\ Forwarding(e, name).dest = name
  BY <1>2, ForwardingIs
<1>7. \A r : r \in F <=> r \in c.rules /\ r.kind = "forwarding" /\ r.dest = name
  BY ForwardingsBy
<1>8. \A r : r \in G <=> \E e \in inn : r = Forwarding(e, name)
  OBVIOUS
<1> HIDE DEF F, G, A
<1>9. \A r \in A : /\ r \in Rules /\ r.kind = "forwarding" /\ r.dest = name
                   /\ r.src \in Names(c) /\ r.src \in inn
  <2> SUFFICES ASSUME NEW r \in A
               PROVE  /\ r \in Rules /\ r.kind = "forwarding" /\ r.dest = name
                      /\ r.src \in Names(c) /\ r.src \in inn
    OBVIOUS
  <2>1. PICK e \in inn : e \in Names(c) /\ r = Forwarding(e, name)
    BY <1>4
  <2>2. QED
    BY <1>6, <2>1
<1>10. rules \in SUBSET Rules
  BY <1>2, <1>7, <1>9
<1>11. PICK d : d = [c EXCEPT !.rules = rules]
  OBVIOUS
<1>12. /\ d \in Config /\ d.rules = rules /\ SameNetwork(c, d) /\ d.zones = c.zones
  <2> HIDE DEF rules
  <2>1. QED
    BY <1>1, <1>10, <1>11, PutRules
<1>13. Sound(d)
  <2>1. Names(d) = Names(c)
    BY <1>12 DEF Names
  <2>2. \A r \in rules : r.dest \in Names(c) /\ r.src \in Names(c)
    <3>1. \A r \in c.rules : r.dest \in Names(c) /\ r.src \in Names(c)
      BY <1>1 DEF RulesResolve, Names
    <3>2. \A r \in rules : r \in c.rules \/ r \in A
      BY <1>7
    <3>3. QED
      BY <1>9, <3>1, <3>2
  <2>3. RulesResolve(d)
    BY <1>12, <2>1, <2>2 DEF RulesResolve, Names
  <2>4. QED
    BY <1>12, <2>3 DEF Sound, ZonesResolve, SameNetwork
<1>14. ASSUME NEW r \in Rules, ~(r.kind = "forwarding" /\ r.dest = name)
       PROVE  r \in rules <=> r \in c.rules
  BY <1>7, <1>9, <1>14
<1>15. ASSUME NEW r \in Rules, r.kind = "forwarding", r.dest = name,
              inn \subseteq Names(c) \ {name}
       PROVE  r \in rules <=> r.src \in inn
  <2>1. r \in rules => r.src \in inn
    <3> SUFFICES ASSUME r \in rules PROVE r.src \in inn
      OBVIOUS
    <3>1. r \in F \cap G \/ r \in A
      BY <1>7, <1>15
    <3>2. QED
      BY <1>6, <1>8, <1>9, <3>1
  <2>2. r.src \in inn => r \in A
    BY <1>4, <1>5, <1>15
  <2>3. QED
    BY <2>1, <2>2
<1>16. QED
  BY <1>11, <1>12, <1>13, <1>14, <1>15 DEF F, G, A

(* The forwardings of a zone are the chosen ones. *)
Forwards(c, name, out, inn) ==
  \A r \in Rules : r.kind = "forwarding" =>
     /\ r.src = name => (r \in c.rules <=> r.dest \in out)
     /\ r.dest = name => (r \in c.rules <=> r.src \in inn)

LEMMA ForwardsRead ==
  ASSUME NEW c \in Config, NEW name \in ZoneNames,
         NEW out \in SUBSET ZoneNames, NEW inn \in SUBSET ZoneNames,
         Forwards(c, name, out, inn)
  PROVE  Dests(c, name) = out /\ Sources(c, name) = inn
<1>1. c.rules \subseteq Rules
  BY Fields
<1>2. \A e \in ZoneNames :
        /\ Forwarding(name, e) \in Rules /\ Forwarding(name, e).kind = "forwarding"
        /\ Forwarding(name, e).src = name /\ Forwarding(name, e).dest = e
        /\ Forwarding(e, name) \in Rules /\ Forwarding(e, name).kind = "forwarding"
        /\ Forwarding(e, name).src = e /\ Forwarding(e, name).dest = name
  BY ForwardingIs
<1>3. /\ \A x : x \in Dests(c, name) <=>
              \E r \in c.rules : r.kind = "forwarding" /\ r.src = name /\ r.dest = x
      /\ \A x : x \in Sources(c, name) <=>
              \E r \in c.rules : r.kind = "forwarding" /\ r.dest = name /\ r.src = x
  BY ForwardingsBy DEF Dests, Sources
<1>4. ASSUME NEW x PROVE x \in Dests(c, name) <=> x \in out
  <2>1. x \in Dests(c, name) => x \in out
    BY <1>1, <1>3 DEF Forwards
  <2>2. ASSUME x \in out PROVE x \in Dests(c, name)
    <3>1. x \in ZoneNames
      BY <2>2
    <3>2. Forwarding(name, x) \in c.rules
      BY <1>2, <2>2, <3>1 DEF Forwards
    <3>3. QED
      BY <1>2, <1>3, <3>1, <3>2
  <2>3. QED
    BY <2>1, <2>2
<1>5. ASSUME NEW x PROVE x \in Sources(c, name) <=> x \in inn
  <2>1. x \in Sources(c, name) => x \in inn
    BY <1>1, <1>3 DEF Forwards
  <2>2. ASSUME x \in inn PROVE x \in Sources(c, name)
    <3>1. x \in ZoneNames
      BY <2>2
    <3>2. Forwarding(x, name) \in c.rules
      BY <1>2, <2>2, <3>1 DEF Forwards
    <3>3. QED
      BY <1>2, <1>3, <3>1, <3>2
  <2>3. QED
    BY <2>1, <2>2
<1>6. QED
  BY <1>4, <1>5

LEMMA WriteForwardingsEffect ==
  ASSUME NEW c, Sound(c), NEW name \in Names(c),
         NEW out \in SUBSET ZoneNames, NEW inn \in SUBSET ZoneNames
  PROVE  LET d == WriteForwardings(c, name, out, inn)
         IN  /\ Sound(d) /\ SameNetwork(c, d) /\ d.zones = c.zones
             /\ out \subseteq Names(c) \ {name} /\ inn \subseteq Names(c) \ {name}
                  => Forwards(d, name, out, inn)
<1>1. PICK e : e = [c EXCEPT !.rules = (@ \ getForwardingsBy(c, "src", name))
                                       \cup (getForwardingsBy(c, "src", name)
                                                \cap {Forwarding(name, x) : x \in out})
                                       \cup addForwardingTo(c, name, out)]
  OBVIOUS
<1>2. /\ Sound(e) /\ SameNetwork(c, e) /\ e.zones = c.zones
      /\ out \subseteq Names(c) \ {name} =>
           \A r \in Rules : r.kind = "forwarding" /\ r.src = name
                              => (r \in e.rules <=> r.dest \in out)
  BY <1>1, ForwardTo
<1>3. Names(e) = Names(c)
  BY <1>2 DEF Names
<1>4. PICK d : d = [e EXCEPT !.rules = (@ \ getForwardingsBy(e, "dest", name))
                                       \cup (getForwardingsBy(e, "dest", name)
                                                \cap {Forwarding(x, name) : x \in inn})
                                       \cup addForwardingFrom(e, name, inn)]
  OBVIOUS
<1>5. /\ Sound(d) /\ SameNetwork(e, d) /\ d.zones = e.zones
      /\ \A r \in Rules : ~(r.kind = "forwarding" /\ r.dest = name)
                            => (r \in d.rules <=> r \in e.rules)
      /\ inn \subseteq Names(e) \ {name} =>
           \A r \in Rules : r.kind = "forwarding" /\ r.dest = name
                              => (r \in d.rules <=> r.src \in inn)
  <2>1. name \in Names(e)
    BY <1>3
  <2>2. QED
    BY <1>2, <1>4, <2>1, ForwardFrom
<1>6. WriteForwardings(c, name, out, inn) = d
  BY <1>1, <1>4 DEF WriteForwardings
<1>7. SameNetwork(c, d)
  BY <1>2, <1>5 DEF SameNetwork
<1>8. ASSUME out \subseteq Names(c) \ {name}, inn \subseteq Names(c) \ {name}
      PROVE  Forwards(d, name, out, inn)
  <2> SUFFICES ASSUME NEW r \in Rules, r.kind = "forwarding"
               PROVE  /\ r.src = name => (r \in d.rules <=> r.dest \in out)
                      /\ r.dest = name => (r \in d.rules <=> r.src \in inn)
    BY DEF Forwards
  <2>1. r.dest = name => (r \in d.rules <=> r.src \in inn)
    BY <1>3, <1>5, <1>8
  <2>2. r.src = name => (r \in d.rules <=> r.dest \in out)
    <3>1. CASE r.dest = name
      BY <1>8, <2>1, <3>1
    <3>2. CASE r.dest # name
      BY <1>2, <1>5, <1>8, <3>2
    <3>3. QED
      BY <3>1, <3>2
  <2>3. QED
    BY <2>1, <2>2
<1>9. QED
  BY <1>2, <1>5, <1>6, <1>7, <1>8

(* Renaming a zone takes its forwardings along. *)
LEMMA ForwardsRenamed ==
  ASSUME NEW c, Sound(c), NEW old \in ZoneNames, NEW new \in ZoneNames \ Names(c),
         NEW out \in SUBSET (Names(c) \ {old}), NEW inn \in SUBSET (Names(c) \ {old}),
         Forwards(c, old, out, inn)
  PROVE  Forwards(renameZone(c, old, new), new, out, inn)
<1>1. c \in Config /\ c.rules \subseteq Rules /\ RulesResolve(c) /\ Names(c) \subseteq ZoneNames
  BY Fields DEF Sound, Names
<1>2. lookupZone(c, new) = 0
  BY <1>1, LookupZone
<1>3. PICK d : d = renameZone(c, old, new)
  OBVIOUS
<1>4. \A r \in Rules : r \in d.rules <=>
        \E q \in c.rules : /\ r.kind = q.kind /\ r.src = Renamed(q.src, old, new)
                           /\ r.dest = Renamed(q.dest, old, new)
  BY <1>2, <1>3, RenameZoneEffect
<1>5. \A q \in c.rules : q \in Rules /\ q.src \in Names(c) /\ q.dest \in Names(c)
  BY <1>1 DEF RulesResolve, Names
<1>6. /\ \A x \in Names(c) : Renamed(x, old, new) = new => x = old
      /\ \A x \in Names(c) : x # old => Renamed(x, old, new) = x
      /\ Renamed(old, old, new) = new
  BY DEF Renamed
<1>7. \A x \in ZoneNames :
        /\ Forwarding(old, x) \in Rules /\ Forwarding(old, x).kind = "forwarding"
        /\ Forwarding(old, x).src = old /\ Forwarding(old, x).dest = x
        /\ Forwarding(x, old) \in Rules /\ Forwarding(x, old).kind = "forwarding"
        /\ Forwarding(x, old).src = x /\ Forwarding(x, old).dest = old
  BY ForwardingIs
<1> SUFFICES ASSUME NEW r \in Rules, r.kind = "forwarding"
             PROVE  /\ r.src = new => (r \in d.rules <=> r.dest \in out)
                    /\ r.dest = new => (r \in d.rules <=> r.src \in inn)
  BY <1>3 DEF Forwards
<1>8. ASSUME r.src = new, r \in d.rules PROVE r.dest \in out
  <2>1. PICK q \in c.rules : /\ q.kind = "forwarding" /\ new = Renamed(q.src, old, new)
                             /\ r.dest = Renamed(q.dest, old, new)
    BY <1>4, <1>8
  <2>2. q.src = old
    BY <1>5, <1>6, <2>1
  <2>3. q.dest \in out
    BY <1>5, <2>1, <2>2 DEF Forwards
  <2>4. QED
    BY <1>6, <2>1, <2>3
<1>9. ASSUME r.src = new, r.dest \in out PROVE r \in d.rules
  <2>1. r.dest \in Names(c) /\ r.dest # old /\ r.dest \in ZoneNames
    BY <1>1, <1>9
  <2>2. PICK q : q = Forwarding(old, r.dest)
    OBVIOUS
  <2>3. q \in Rules /\ q.kind = "forwarding" /\ q.src = old /\ q.dest = r.dest
    BY <1>7, <2>1, <2>2
  <2>4. q \in c.rules
    BY <1>9, <2>3 DEF Forwards
  <2>5. r.src = Renamed(q.src, old, new) /\ r.dest = Renamed(q.dest, old, new)
    BY <1>6, <1>9, <2>1, <2>3
  <2>6. QED
    BY <1>4, <2>3, <2>4, <2>5
<1>10. ASSUME r.dest = new, r \in d.rules PROVE r.src \in inn
  <2>1. PICK q \in c.rules : /\ q.kind = "forwarding" /\ new = Renamed(q.dest, old, new)
                             /\ r.src = Renamed(q.src, old, new)
    BY <1>4, <1>10
  <2>2. q.dest = old
    BY <1>5, <1>6, <2>1
  <2>3. q.src \in inn
    BY <1>5, <2>1, <2>2 DEF Forwards
  <2>4. QED
    BY <1>6, <2>1, <2>3
<1>11. ASSUME r.dest = new, r.src \in inn PROVE r \in d.rules
  <2>1. r.src \in Names(c) /\ r.src # old /\ r.src \in ZoneNames
    BY <1>1, <1>11
  <2>2. PICK q : q = Forwarding(r.src, old)
    OBVIOUS
  <2>3. q \in Rules /\ q.kind = "forwarding" /\ q.dest = old /\ q.src = r.src
    BY <1>7, <2>1, <2>2
  <2>4. q \in c.rules
    BY <1>11, <2>3 DEF Forwards
  <2>5. r.dest = Renamed(q.dest, old, new) /\ r.src = Renamed(q.src, old, new)
    BY <1>6, <1>11, <2>1, <2>3
  <2>6. QED
    BY <1>4, <2>3, <2>4, <2>5
<1>12. QED
  BY <1>8, <1>9, <1>10, <1>11

(* The covered networks are those chosen, for a zone that is found by its  *)
(* name and networks that have a section or are not known.                 *)
LEMMA WriteCoveredEffect ==
  ASSUME NEW c, Sound(c), NEW i \in 1 .. Len(c.zones), NEW name, NEW ns \in SUBSET Nets
  PROVE  LET d == WriteCovered(c, i, name, ns)
         IN  /\ Sound(d) /\ c.net \subseteq d.net /\ d.wifi = c.wifi /\ d.refs = c.refs
             /\ SameNames(c, d) /\ d.rules = c.rules
             /\ \/ ns \in {c.zones[i].nets, {}}
                \/ lookupZone(c, name) = i /\ ns \cap run.nets \subseteq c.net
                => d.zones[i].nets = ns
<1>1. c \in Config /\ c.dev \subseteq c.net
  BY DEF Sound
<1>2. c.net \subseteq Nets /\ Len(c.zones) \in Nat /\ DOMAIN c.zones = 1 .. Len(c.zones)
  BY <1>1, Fields
<1>3. PICK j \in 0 .. Len(c.zones) : j = lookupZone(c, name)
  BY <1>1, LookupZone
<1>4. PICK nets \in SUBSET Nets : nets = c.net \cup {n \in ns : ~getNetwork(c, n)}
  BY <1>2
<1>5. PICK made : made = [c EXCEPT !.net = nets]
  OBVIOUS
<1>6. /\ made \in Config /\ made.net = nets /\ made.dev = c.dev /\ made.refs = c.refs
      /\ made.wifi = c.wifi /\ made.zones = c.zones /\ made.rules = c.rules
  BY <1>1, <1>5 DEF Config
<1>7. c.net \subseteq made.net /\ made.dev \subseteq made.net
  BY <1>1, <1>4, <1>6
<1>8. Sound(made)
  BY <1>6, <1>7, MoreNetsSound
<1>9. made = [c EXCEPT !.net = @ \cup {n \in ns : ~getNetwork(c, n)}]
  BY <1>4, <1>5
<1>10. CASE ns = c.zones[i].nets
  BY <1>10 DEF WriteCovered, SameNames
<1>11. CASE ns # c.zones[i].nets /\ ns = {}
  <2>1. PICK f : f = [k \in {i} |-> {}]
    OBVIOUS
  <2>2. /\ {i} \in SUBSET (1 .. Len(c.zones)) /\ f \in [{i} -> SUBSET c.net]
        /\ f \in [{i} -> SUBSET Nets] /\ f[i] = {}
    BY <2>1
  <2>3. PICK d : d = WithCovered(c, f)
    OBVIOUS
  <2>4. Sound(d) /\ SameNetwork(c, d) /\ SameNames(c, d) /\ d.rules = c.rules
    BY <1>1, <2>2, <2>3, CoveredSound, CoveredEffect
  <2>5. d.zones[i].nets = f[i]
    BY <1>1, <2>2, <2>3, CoveredEffect
  <2>6. WriteCovered(c, i, name, ns) = d
    BY <1>11, <2>1, <2>3 DEF WriteCovered
  <2>7. QED
    BY <1>11, <2>2, <2>4, <2>5, <2>6 DEF SameNetwork
<1>12. CASE ns # c.zones[i].nets /\ ns # {} /\ j = 0
  <2>1. WriteCovered(c, i, name, ns) = made
    BY <1>3, <1>9, <1>12 DEF WriteCovered
  <2>2. SameNames(c, made)
    BY <1>6 DEF SameNames
  <2>3. j # i
    BY <1>2, <1>12
  <2>4. QED
    BY <1>3, <1>6, <1>7, <1>8, <1>12, <2>1, <2>2, <2>3
<1>13. CASE ns # c.zones[i].nets /\ ns # {} /\ j # 0
  <2>1. PICK f : f = [k \in {j} |-> ns \cap made.net]
    OBVIOUS
  <2>2. /\ {j} \in SUBSET (1 .. Len(made.zones)) /\ f \in [{j} -> SUBSET made.net]
        /\ f \in [{j} -> SUBSET Nets] /\ f[j] = ns \cap made.net
    BY <1>2, <1>6, <1>13, <2>1
  <2>3. PICK d : d = WithCovered(made, f)
    OBVIOUS
  <2>4. Sound(d) /\ SameNetwork(made, d) /\ SameNames(made, d) /\ d.rules = made.rules
    BY <1>6, <1>8, <2>2, <2>3, CoveredSound, CoveredEffect
  <2>5. d.zones[j].nets = f[j]
    <3>1. j \in 1 .. Len(made.zones) /\ j \in {j}
      BY <2>2
    <3>2. PICK D \in SUBSET (1 .. Len(made.zones)) : D = {j}
      BY <2>2
    <3>3. f \in [D -> SUBSET Nets]
      BY <2>2, <3>2
    <3>4. \A k \in 1 .. Len(made.zones) : k \in D => d.zones[k].nets = f[k]
      BY <1>6, <2>3, <3>3, CoveredEffect
    <3>5. QED
      BY <3>1, <3>2, <3>4
  <2>6. WriteCovered(c, i, name, ns) = d
    <3>1. made.net = nets
      BY <1>6
    <3>2. QED
      BY <1>3, <1>9, <1>13, <2>1, <2>3 DEF WriteCovered
  <2>7. SameNames(c, d)
    BY <1>6, <2>4 DEF SameNames
  <2>8. ASSUME lookupZone(c, name) = i, ns \cap run.nets \subseteq c.net
        PROVE  d.zones[i].nets = ns
    <3>1. ns \subseteq made.net
      BY <1>4, <1>6, <2>8 DEF getNetwork
    <3>2. QED
      BY <1>3, <2>2, <2>5, <2>8, <3>1
  <2>9. QED
    BY <1>6, <1>7, <1>13, <2>4, <2>6, <2>7, <2>8 DEF SameNetwork
<1>14. QED
  BY <1>10, <1>11, <1>12, <1>13

(* The fields of the zone dialog. *)
ZoneFields(name, ns, out, inn) ==
  name \in ZoneNames /\ ns \in SUBSET Nets /\ out \in SUBSET ZoneNames /\ inn \in SUBSET ZoneNames

(* The dialog of an existing zone keeps the configuration sound, and does  *)
(* as asked when the zone has a name of its own.                           *)
LEMMA EditZoneEffect ==
  ASSUME NEW c, Sound(c), NEW i \in 1 .. Len(c.zones), NEW name, NEW ns, NEW out, NEW inn,
         ZoneFields(name, ns, out, inn)
  PROVE  LET d == EditZone(c, i, name, ns, out, inn)
         IN  /\ Sound(d) /\ c.net \subseteq d.net /\ d.wifi = c.wifi /\ d.refs = c.refs
             /\ Len(d.zones) = Len(c.zones)
             /\ /\ out \subseteq Names(c) \ {c.zones[i].name}
                /\ inn \subseteq Names(c) \ {c.zones[i].name}
                /\ \A j \in (1 .. Len(c.zones)) \ {i} :
                     c.zones[j].name # name /\ c.zones[j].name # c.zones[i].name
                /\ ns \cap run.nets \subseteq c.net
                /\ c.zones[i].name = name \/ ns \in {c.zones[i].nets, {}}
                => /\ d.zones[i].name = name /\ d.zones[i].nets = ns
                   /\ Dests(d, name) = out /\ Sources(d, name) = inn
<1>0. name \in ZoneNames /\ ns \in SUBSET Nets /\ out \in SUBSET ZoneNames /\ inn \in SUBSET ZoneNames
  BY DEF ZoneFields
<1> USE <1>0
<1>1. c \in Config /\ Len(c.zones) \in Nat /\ DOMAIN c.zones = 1 .. Len(c.zones)
  BY Fields DEF Sound
<1>2. PICK old \in ZoneNames : old = c.zones[i].name
  BY <1>1, Fields
<1>3. old \in Names(c) /\ Names(c) \subseteq ZoneNames
  BY <1>1, <1>2, Fields DEF Names
<1>4. PICK f : f = WriteForwardings(c, old, out, inn)
  OBVIOUS
<1>5. /\ Sound(f) /\ SameNetwork(c, f) /\ f.zones = c.zones
      /\ out \subseteq Names(c) \ {old} /\ inn \subseteq Names(c) \ {old} => Forwards(f, old, out, inn)
  BY <1>3, <1>4, WriteForwardingsEffect
<1>6. f \in Config /\ Names(f) = Names(c)
  BY <1>5 DEF Sound, Names
<1>7. PICK g : g = IF name = old THEN f ELSE renameZone(f, old, name)
  OBVIOUS
<1>8. EditZone(c, i, name, ns, out, inn) = WriteCovered(g, i, old, ns)
  BY <1>2, <1>4, <1>7 DEF EditZone
<1>9. /\ Sound(g) /\ SameNetwork(c, g) /\ Len(g.zones) = Len(c.zones)
      /\ \A j \in 1 .. Len(c.zones) : g.zones[j].nets = c.zones[j].nets
  <2>1. CASE name = old
    BY <1>5, <1>7, <2>1
  <2>2. CASE name # old /\ lookupZone(f, name) = 0
    <3>1. g = renameZone(f, old, name)
      BY <1>7, <2>2
    <3>2. /\ Sound(g) /\ SameNetwork(f, g) /\ Len(g.zones) = Len(f.zones)
          /\ \A j \in 1 .. Len(f.zones) : g.zones[j].nets = f.zones[j].nets
      BY <1>5, <2>2, <3>1, RenameZoneEffect
    <3>3. QED
      BY <1>5, <3>2 DEF SameNetwork
  <2>3. CASE name # old /\ lookupZone(f, name) # 0
    <3>1. g = f
      BY <1>7, <2>3 DEF renameZone
    <3>2. QED
      BY <1>5, <3>1
  <2>4. QED
    BY <2>1, <2>2, <2>3
<1>10. PICK d : d = WriteCovered(g, i, old, ns)
  OBVIOUS
<1>11. i \in 1 .. Len(g.zones)
  BY <1>9
<1>12. /\ Sound(d) /\ g.net \subseteq d.net /\ d.wifi = g.wifi /\ d.refs = g.refs
       /\ SameNames(g, d) /\ d.rules = g.rules
       /\ \/ ns \in {g.zones[i].nets, {}}
          \/ lookupZone(g, old) = i /\ ns \cap run.nets \subseteq g.net
          => d.zones[i].nets = ns
  BY <1>9, <1>10, <1>11, WriteCoveredEffect
<1>13. ASSUME out \subseteq Names(c) \ {old}, inn \subseteq Names(c) \ {old},
              \A j \in (1 .. Len(c.zones)) \ {i} : c.zones[j].name # name /\ c.zones[j].name # old,
              ns \cap run.nets \subseteq c.net,
              old = name \/ ns \in {c.zones[i].nets, {}}
       PROVE  /\ d.zones[i].name = name /\ d.zones[i].nets = ns
              /\ Dests(d, name) = out /\ Sources(d, name) = inn
  <2>1. Forwards(f, old, out, inn)
    BY <1>5, <1>13
  <2>2. g.zones[i].name = name /\ Forwards(g, name, out, inn)
    <3>1. CASE name = old
      BY <1>2, <1>5, <1>7, <2>1, <3>1
    <3>2. CASE name # old
      <4>1. name \notin Names(c)
        BY <1>1, <1>2, <1>13, <3>2 DEF Names
      <4>2. lookupZone(f, name) = 0
        BY <1>6, <4>1, LookupZone
      <4>3. g = renameZone(f, old, name)
        BY <1>7, <3>2
      <4>4. g.zones[i].name = Renamed(f.zones[i].name, old, name)
        BY <1>5, <4>2, <4>3, RenameZoneEffect
      <4>5. Forwards(g, name, out, inn)
        <5>1. /\ out \in SUBSET (Names(f) \ {old}) /\ inn \in SUBSET (Names(f) \ {old})
              /\ name \in ZoneNames \ Names(f)
          BY <1>6, <1>13, <4>1
        <5>2. QED
          BY <1>5, <2>1, <4>3, <5>1, ForwardsRenamed
      <4>6. QED
        BY <1>2, <1>5, <4>4, <4>5 DEF Renamed
    <3>3. QED
      BY <3>1, <3>2
  <2>3. d.zones[i].name = name
    BY <1>11, <1>12, <2>2 DEF SameNames
  <2>4. d.zones[i].nets = ns
    <3>1. CASE ns \in {c.zones[i].nets, {}}
      BY <1>9, <1>12, <3>1
    <3>2. CASE old = name
      <4>1. g = f /\ g.zones = c.zones /\ g.net = c.net
        BY <1>5, <1>7, <3>2 DEF SameNetwork
      <4>2. g \in Config
        BY <1>9 DEF Sound
      <4>3. PICK k \in 0 .. Len(g.zones) : k = lookupZone(g, old)
        BY <4>2, LookupZone
      <4>4. k # 0 /\ g.zones[k].name = old
        BY <1>2, <1>11, <4>1, <4>2, <4>3, LookupZone
      <4>5. k \in 1 .. Len(c.zones)
        BY <1>1, <4>1, <4>3, <4>4
      <4>6. k = i
        BY <1>13, <4>1, <4>4, <4>5
      <4>7. QED
        BY <1>12, <1>13, <4>1, <4>3, <4>6
    <3>3. QED
      BY <1>13, <3>1, <3>2
  <2>5. Forwards(d, name, out, inn)
    BY <1>12, <2>2 DEF Forwards
  <2>6. d \in Config
    BY <1>12 DEF Sound
  <2>7. QED
    BY <2>3, <2>4, <2>5, <2>6, ForwardsRead
<1>14. Len(d.zones) = Len(c.zones) /\ c.net \subseteq d.net /\ d.wifi = c.wifi /\ d.refs = c.refs
  BY <1>9, <1>12 DEF SameNames, SameNetwork
<1>15. QED
  BY <1>2, <1>8, <1>10, <1>12, <1>13, <1>14

(* The dialog of a new zone. *)
LEMMA NewZoneEffect ==
  ASSUME NEW c, Sound(c), NEW name, NEW ns, NEW out, NEW inn,
         ZoneFields(name, ns, out, inn)
  PROVE  LET d == NewZone(c, name, ns, out, inn)
         IN  /\ Sound(d) /\ c.net \subseteq d.net /\ d.wifi = c.wifi /\ d.refs = c.refs
             /\ Len(d.zones) = Len(c.zones) + 1
             /\ /\ out \subseteq Names(c) /\ inn \subseteq Names(c)
                /\ \A j \in 1 .. Len(c.zones) : c.zones[j].name # name
                /\ ns \cap run.nets \subseteq c.net
                => /\ d.zones[Len(c.zones) + 1].name = name /\ d.zones[Len(c.zones) + 1].nets = ns
                   /\ Dests(d, name) = out /\ Sources(d, name) = inn
<1>0. name \in ZoneNames /\ ns \in SUBSET Nets /\ out \in SUBSET ZoneNames /\ inn \in SUBSET ZoneNames
  BY DEF ZoneFields
<1> USE <1>0
<1>1. c \in Config /\ Len(c.zones) \in Nat /\ DOMAIN c.zones = 1 .. Len(c.zones)
  BY Fields DEF Sound
<1>2. PICK e : e = [c EXCEPT !.zones = Append(@, [name |-> name, nets |-> {}])]
  OBVIOUS
<1>3. PICK i \in Nat : i = Len(c.zones) + 1
  BY <1>1
<1>4. /\ Sound(e) /\ SameNetwork(c, e) /\ Len(e.zones) = i
      /\ \A j \in 1 .. Len(c.zones) : e.zones[j] = c.zones[j]
      /\ e.zones[i] = [name |-> name, nets |-> {}]
  BY <1>2, <1>3, AppendZone
<1>5. e \in Config /\ DOMAIN e.zones = 1 .. i /\ i \in 1 .. i /\ e.zones[i].name = name
  BY <1>1, <1>3, <1>4, Fields DEF Sound
<1>6. name \in Names(e) /\ Names(c) \subseteq Names(e)
  <2>1. \A j \in 1 .. Len(c.zones) : j \in 1 .. i /\ e.zones[j].name = c.zones[j].name
    BY <1>1, <1>3, <1>4
  <2>2. QED
    BY <1>1, <1>5, <2>1 DEF Names
<1>7. PICK f : f = WriteForwardings(e, name, out, inn)
  OBVIOUS
<1>8. /\ Sound(f) /\ SameNetwork(e, f) /\ f.zones = e.zones
      /\ out \subseteq Names(e) \ {name} /\ inn \subseteq Names(e) \ {name}
           => Forwards(f, name, out, inn)
  BY <1>4, <1>6, <1>7, WriteForwardingsEffect
<1>9. PICK d : d = WriteCovered(f, i, name, ns)
  OBVIOUS
<1>10. NewZone(c, name, ns, out, inn) = d
  BY <1>2, <1>4, <1>7, <1>9 DEF NewZone
<1>11. i \in 1 .. Len(f.zones)
  BY <1>4, <1>5, <1>8
<1>12. /\ Sound(d) /\ f.net \subseteq d.net /\ d.wifi = f.wifi /\ d.refs = f.refs
       /\ SameNames(f, d) /\ d.rules = f.rules
       /\ lookupZone(f, name) = i /\ ns \cap run.nets \subseteq f.net => d.zones[i].nets = ns
  BY <1>8, <1>9, <1>11, WriteCoveredEffect
<1>13. ASSUME out \subseteq Names(c), inn \subseteq Names(c),
              \A j \in 1 .. Len(c.zones) : c.zones[j].name # name,
              ns \cap run.nets \subseteq c.net
       PROVE  /\ d.zones[i].name = name /\ d.zones[i].nets = ns
              /\ Dests(d, name) = out /\ Sources(d, name) = inn
  <2>1. name \notin Names(c)
    BY <1>1, <1>13 DEF Names
  <2>2. Forwards(d, name, out, inn)
    <3>1. Forwards(f, name, out, inn)
      BY <1>6, <1>8, <1>13, <2>1
    <3>2. QED
      BY <1>12, <3>1 DEF Forwards
  <2>3. d.zones[i].name = name
    BY <1>5, <1>8, <1>11, <1>12 DEF SameNames
  <2>4. lookupZone(f, name) = i
    <3>1. f \in Config
      BY <1>8 DEF Sound
    <3>2. PICK k \in 0 .. Len(f.zones) : k = lookupZone(f, name)
      BY <3>1, LookupZone
    <3>3. k # 0 /\ f.zones[k].name = name
      BY <1>5, <1>8, <1>11, <3>1, <3>2, LookupZone
    <3>4. k \in 1 .. Len(c.zones) \/ k = i
      BY <1>1, <1>3, <1>4, <1>8, <3>2, <3>3
    <3>5. k \notin 1 .. Len(c.zones)
      BY <1>4, <1>8, <1>13, <3>3
    <3>6. QED
      BY <3>2, <3>4, <3>5
  <2>5. d.zones[i].nets = ns
    BY <1>4, <1>8, <1>12, <1>13, <2>4 DEF SameNetwork
  <2>6. d \in Config
    BY <1>12 DEF Sound
  <2>7. QED
    BY <2>2, <2>3, <2>5, <2>6, ForwardsRead
<1>14. Len(d.zones) = Len(c.zones) + 1 /\ c.net \subseteq d.net /\ d.wifi = c.wifi /\ d.refs = c.refs
  BY <1>3, <1>4, <1>8, <1>12 DEF SameNames, SameNetwork
<1>15. QED
  BY <1>3, <1>10, <1>12, <1>13, <1>14

-----------------------------------------------------------------------------
(* How many zones cover a network *)

(* No network is covered by more zones than before, unless by one. *)
NoSecond(c, d) ==
  \A n \in Nets : Cardinality(Covering(d, n)) > 1
                    => Cardinality(Covering(d, n)) <= Cardinality(Covering(c, n))

LEMMA CoveringFinite ==
  ASSUME NEW c \in Config, NEW n
  PROVE  IsFiniteSet(Covering(c, n)) /\ Cardinality(Covering(c, n)) \in Nat
<1>1. Covering(c, n) \in SUBSET (1 .. Len(c.zones)) /\ Len(c.zones) \in Nat
  BY Fields DEF Covering
<1>2. IsFiniteSet(1 .. Len(c.zones))
  BY <1>1, FS_Interval
<1>3. QED
  BY <1>1, <1>2, FS_Subset, FS_CardinalityType

(* Fewer members, or one in the place of another. *)
LEMMA FewerOrSwapped ==
  ASSUME NEW S, IsFiniteSet(S), NEW T,
         \/ T \subseteq S
         \/ \E i, j : T \subseteq (S \ {i}) \cup {j} /\ (i \in S \/ S = {})
  PROVE  Cardinality(T) > 1 => Cardinality(T) <= Cardinality(S)
<1>1. CASE T \subseteq S
  BY <1>1, FS_Subset
<1>2. CASE \E i, j : T \subseteq (S \ {i}) \cup {j} /\ (i \in S \/ S = {})
  <2>1. PICK i, j : T \subseteq (S \ {i}) \cup {j} /\ (i \in S \/ S = {})
    BY <1>2
  <2>2. PICK U : U = S \ {i}
    OBVIOUS
  <2>3. /\ IsFiniteSet(U)
        /\ Cardinality(U) = IF i \in S THEN Cardinality(S) - 1 ELSE Cardinality(S)
    BY <2>2, FS_RemoveElement
  <2>4. PICK V : V = U \cup {j}
    OBVIOUS
  <2>5. /\ IsFiniteSet(V)
        /\ Cardinality(V) = IF j \in U THEN Cardinality(U) ELSE Cardinality(U) + 1
    BY <2>3, <2>4, FS_AddElement
  <2>6. IsFiniteSet(T) /\ Cardinality(T) <= Cardinality(V)
    BY <2>1, <2>2, <2>4, <2>5, FS_Subset
  <2>7. /\ Cardinality(S) \in Nat /\ Cardinality(U) \in Nat
        /\ Cardinality(V) \in Nat /\ Cardinality(T) \in Nat
    BY <2>3, <2>5, <2>6, FS_CardinalityType
  <2>8. CASE i \in S
    BY <2>3, <2>5, <2>6, <2>7, <2>8
  <2>9. CASE S = {}
    <3>1. Cardinality(S) = 0
      BY <2>9, FS_EmptySet
    <3>2. Cardinality(V) <= 1
      BY <2>3, <2>5, <2>7, <2>9, <3>1
    <3>3. QED
      BY <2>6, <2>7, <3>2
  <2>10. QED
    BY <2>1, <2>8, <2>9
<1>3. QED
  BY <1>1, <1>2

(* Zones that keep their networks at other positions count the same. *)
LEMMA RemovedZoneCount ==
  ASSUME NEW c, Sound(c), NEW i \in 1 .. Len(c.zones), NEW n
  PROVE  Cardinality(Covering(deleteZone(c, i), n)) <= Cardinality(Covering(c, n))
<1>1. c \in Config /\ Len(c.zones) \in Nat /\ DOMAIN c.zones = 1 .. Len(c.zones)
  BY Fields DEF Sound
<1>2. PICK d : d = deleteZone(c, i)
  OBVIOUS
<1>3. /\ Sound(d) /\ Len(d.zones) = Len(c.zones) - 1
      /\ \A k \in 1 .. Len(c.zones) - 1 : d.zones[k] = c.zones[IF k < i THEN k ELSE k + 1]
  BY <1>2, DeleteZoneEffect
<1>4. DOMAIN d.zones = 1 .. Len(c.zones) - 1
  BY <1>3, Fields DEF Sound
<1> DEFINE S == Covering(d, n)
           T == Covering(c, n)
           f == [k \in S |-> IF k < i THEN k ELSE k + 1]
<1>5. S = {k \in 1 .. Len(c.zones) - 1 : n \in d.zones[k].nets}
  BY <1>4 DEF Covering
<1>6. T = {k \in 1 .. Len(c.zones) : n \in c.zones[k].nets}
  BY <1>1 DEF Covering
<1> HIDE DEF S, T
<1>7. ASSUME NEW k \in S PROVE f[k] \in T
  <2>1. k \in 1 .. Len(c.zones) - 1 /\ n \in d.zones[k].nets
    BY <1>5
  <2>2. PICK m : m = IF k < i THEN k ELSE k + 1
    OBVIOUS
  <2>3. m \in 1 .. Len(c.zones)
    BY <1>1, <2>1, <2>2
  <2>4. d.zones[k] = c.zones[m]
    BY <1>3, <2>1, <2>2
  <2>5. m \in T
    BY <1>6, <2>1, <2>3, <2>4
  <2>6. QED
    BY <2>2, <2>5
<1>8. \A k, m \in S : f[k] = f[m] => k = m
  BY <1>1, <1>5
<1>9. f \in [S -> T]
  BY <1>7
<1>10. f \in Injection(S, T)
  BY <1>8, <1>9 DEF Injection, IsInjective
<1>11. IsFiniteSet(T)
  BY <1>1, CoveringFinite DEF T
<1> HIDE DEF f
<1>12. Cardinality(S) <= Cardinality(T)
  BY <1>10, <1>11, FS_Injection
<1>13. QED
  BY <1>2, <1>12 DEF S, T

-----------------------------------------------------------------------------
(* The invariant *)

Inv == TypeOK /\ ReferencesResolve /\ ZoneAsChosen

(* What KeepsOneZone says of one step. *)
OneZone ==
  \A n \in Nets :
     Cardinality(Covering(cfg', n)) > 1 =>
        \/ Cardinality(Covering(cfg', n)) <= Cardinality(Covering(cfg, n))
        \/ asked' # None

LEMMA InvUnfolds ==
  ASSUME Inv
  PROVE  /\ Sound(cfg) /\ cfg \in Config /\ Len(cfg.zones) \in Nat /\ Len(cfg.zones) <= MaxZones
         /\ DOMAIN cfg.zones = 1 .. Len(cfg.zones)
         /\ Attached(cfg) \subseteq cfg.net \cup ghosts
BY Fields DEF Inv, TypeOK, ReferencesResolve, Sound

Spent == edits' \in 0 .. MaxEdits

LEMMA SpendIs ==
  ASSUME Inv, NEW n \in Nat, Spend(n)
  PROVE  Spent
  BY DEF Inv, TypeOK, Spend, Spent

(* An edit keeps the invariant if what it makes is sound and it attaches   *)
(* only names that have a section or that netifd runs.                     *)
LEMMA EditKeeps ==
  ASSUME Inv, Spent, NEW c, NEW dialog \in Dialogs \cup {None}, Edit(c, dialog),
         Sound(c), Len(c.zones) <= MaxZones,
         Attached(c) \subseteq c.net \cup run.nets \cup Attached(cfg),
         (cfg.net \ c.net) \cap Attached(c) = {}
  PROVE  TypeOK' /\ ReferencesResolve'
<1>1. /\ cfg' = c /\ asked' = dialog /\ run' = run
      /\ ghosts' = (ghosts \cup ((Attached(c) \ Attached(cfg)) \cap run.nets)) \ c.net
  BY DEF Edit
<1>2. /\ c \in Config /\ c.dev \subseteq c.net /\ ZonesResolve(c) /\ RulesResolve(c)
  BY DEF Sound
<1>3. /\ run.nets \subseteq Nets /\ \A w \in DOMAIN run.on : run.on[w] \subseteq run.nets
      /\ ghosts \subseteq Nets
  BY DEF Inv, TypeOK
<1>4. edits' \in 0 .. MaxEdits
  BY DEF Spent
<1>5. TypeOK'
  BY <1>1, <1>2, <1>3, <1>4 DEF TypeOK
<1>6. Attached(c) \subseteq c.net \cup ghosts'
  <2> SUFFICES ASSUME NEW x \in Attached(c), x \notin c.net
               PROVE  x \in ghosts'
    OBVIOUS
  <2>1. CASE x \in Attached(cfg)
    <3>1. x \in cfg.net \cup ghosts
      BY <2>1, InvUnfolds
    <3>2. x \in ghosts
      BY <3>1
    <3>3. QED
      BY <1>1, <3>2
  <2>2. CASE x \notin Attached(cfg)
    BY <1>1, <2>2
  <2>3. QED
    BY <2>1, <2>2
<1>7. ReferencesResolve'
  BY <1>1, <1>2, <1>6 DEF ReferencesResolve
<1>8. QED
  BY <1>5, <1>7

(* An edit that is no zone dialog. *)
LEMMA PlainEdit ==
  ASSUME Inv, Spent, NEW c, Edit(c, None),
         Sound(c), Len(c.zones) <= MaxZones,
         Attached(c) \subseteq c.net \cup run.nets \cup Attached(cfg),
         (cfg.net \ c.net) \cap Attached(c) = {},
         \A n \in Nets : Cardinality(Covering(c, n)) > 1
                           => Cardinality(Covering(c, n)) <= Cardinality(Covering(cfg, n))
  PROVE  Inv' /\ OneZone
<1>1. TypeOK' /\ ReferencesResolve'
  BY EditKeeps
<1>2. cfg' = c /\ asked' = None
  BY DEF Edit
<1>3. ZoneAsChosen'
  BY <1>2 DEF ZoneAsChosen
<1>4. QED
  BY <1>1, <1>2, <1>3 DEF Inv, OneZone

(* The same when the zones are left alone. *)
LEMMA EditOutsideZones ==
  ASSUME Inv, Spent, NEW c, Edit(c, None),
         Sound(c), c.zones = cfg.zones, cfg.net \subseteq c.net,
         Attached(c) \subseteq c.net \cup run.nets \cup Attached(cfg)
  PROVE  Inv' /\ OneZone
<1>1. Len(c.zones) <= MaxZones
  BY InvUnfolds
<1>2. \A n : Covering(c, n) = Covering(cfg, n)
  BY DEF Covering
<1>3. \A n \in Nets : Cardinality(Covering(c, n)) > 1
                        => Cardinality(Covering(c, n)) <= Cardinality(Covering(cfg, n))
  BY <1>2, InvUnfolds, CoveringFinite
<1>4. (cfg.net \ c.net) \cap Attached(c) = {}
  OBVIOUS
<1>5. QED
  BY <1>1, <1>3, <1>4, PlainEdit

(* Interfaces. *)
LEMMA InterfaceSteps ==
  ASSUME Inv, Spent, NEW n \in Nets,
         \/ \E device \in BOOLEAN : AddInterface(n, device)
         \/ RemoveInterface(n)
         \/ \E z \in ZoneSelect(cfg, TRUE) : AssignZone(n, z)
  PROVE  Inv' /\ OneZone
<1>1. /\ Sound(cfg) /\ cfg \in Config /\ Len(cfg.zones) \in Nat /\ Len(cfg.zones) <= MaxZones
      /\ cfg.net \subseteq Nets /\ cfg.dev \subseteq cfg.net
  BY InvUnfolds, Fields DEF Sound
<1>2. ASSUME NEW device \in BOOLEAN, AddInterface(n, device) PROVE Inv' /\ OneZone
  <2>1. PICK ns \in SUBSET Nets : ns = cfg.net \cup {n}
    BY <1>1
  <2>2. PICK ds \in SUBSET Nets : ds = IF device THEN cfg.dev \cup {n} ELSE cfg.dev
    BY <1>1
  <2>3. PICK c : c = [cfg EXCEPT !.net = ns, !.dev = ds]
    OBVIOUS
  <2>4. /\ c \in Config /\ c.net = ns /\ c.dev = ds /\ c.refs = cfg.refs /\ c.wifi = cfg.wifi
        /\ c.zones = cfg.zones /\ c.rules = cfg.rules
    BY <1>1, <2>3 DEF Config
  <2>5. Edit(c, None)
    BY <1>2, <2>1, <2>2, <2>3 DEF AddInterface
  <2>6. cfg.net \subseteq c.net /\ c.dev \subseteq c.net
    BY <1>1, <2>1, <2>2, <2>4
  <2>7. Sound(c)
    BY <1>1, <2>4, <2>6, MoreNetsSound
  <2>8. Attached(c) \subseteq c.net \cup run.nets \cup Attached(cfg)
    BY <2>4, AttachedSame
  <2>9. QED
    BY <2>4, <2>5, <2>6, <2>7, <2>8, EditOutsideZones
<1>3. ASSUME RemoveInterface(n) PROVE Inv' /\ OneZone
  <2>1. PICK c : c = deleteNetwork(cfg, n)
    OBVIOUS
  <2>2. /\ Sound(c) /\ c.net = cfg.net \ {n} /\ Len(c.zones) = Len(cfg.zones)
        /\ Attached(c) \subseteq Attached(cfg) \ {n}
        /\ \A m : Covering(c, m) \subseteq Covering(cfg, m)
    BY <1>1, <2>1, DeleteNetworkEffect
  <2>3. Edit(c, None)
    BY <1>3, <2>1 DEF RemoveInterface
  <2>4. ASSUME NEW m \in Nets
        PROVE  Cardinality(Covering(c, m)) > 1
                 => Cardinality(Covering(c, m)) <= Cardinality(Covering(cfg, m))
    BY <1>1, <2>2, CoveringFinite, FewerOrSwapped
  <2>5. /\ Attached(c) \subseteq c.net \cup run.nets \cup Attached(cfg)
        /\ (cfg.net \ c.net) \cap Attached(c) = {} /\ Len(c.zones) <= MaxZones
    BY <1>1, <2>2
  <2>6. QED
    BY <2>2, <2>3, <2>4, <2>5, PlainEdit
<1>4. ASSUME NEW z \in ZoneSelect(cfg, TRUE), AssignZone(n, z) PROVE Inv' /\ OneZone
  <2>1. z \in ZoneNames \cup {None}
    BY DEF ZoneSelect
  <2>2. PICK c : c = WriteZone(cfg, n, z)
    OBVIOUS
  <2>3. Edit(c, None) /\ Len(c.zones) <= MaxZones
    BY <1>4, <2>2 DEF AssignZone
  <2>4. /\ Sound(c) /\ SameNetwork(cfg, c)
        /\ \A m : m # n => Covering(c, m) \subseteq Covering(cfg, m)
        /\ \/ Covering(c, n) \subseteq Covering(cfg, n)
           \/ \E i, j : /\ Covering(c, n) \subseteq (Covering(cfg, n) \ {i}) \cup {j}
                        /\ i \in Covering(cfg, n) \/ Covering(cfg, n) = {}
    BY <1>1, <2>1, <2>2, WriteZoneEffect
  <2>5. ASSUME NEW m \in Nets
        PROVE  Cardinality(Covering(c, m)) > 1
                 => Cardinality(Covering(c, m)) <= Cardinality(Covering(cfg, m))
    <3>1. IsFiniteSet(Covering(cfg, m))
      BY <1>1, CoveringFinite
    <3>2. CASE m = n
      BY <2>4, <3>1, <3>2, FewerOrSwapped
    <3>3. CASE m # n
      BY <2>4, <3>1, <3>3, FewerOrSwapped
    <3>4. QED
      BY <3>2, <3>3
  <2>6. /\ Attached(c) \subseteq c.net \cup run.nets \cup Attached(cfg)
        /\ (cfg.net \ c.net) \cap Attached(c) = {}
    BY <2>4, AttachedSame DEF SameNetwork
  <2>7. QED
    BY <2>3, <2>4, <2>5, <2>6, PlainEdit
<1>5. QED
  BY <1>2, <1>3, <1>4

(* What is set up for an interface and what names one of the list: a name  *)
(* that only netifd knows becomes a ghost.                                 *)
LEMMA ReferenceSteps ==
  ASSUME Inv, Spent, NEW n \in Nets, NEW kind \in Kinds,
         SetUp(kind, n) \/ AddRoute(kind, n)
  PROVE  Inv' /\ OneZone
<1>1. Sound(cfg) /\ cfg \in Config /\ cfg.refs \subseteq Refs /\ cfg.dev \subseteq cfg.net
  BY InvUnfolds, Fields DEF Sound
<1>2. PICK r \in Refs : r = [kind |-> kind, net |-> n] /\ r.net = n
  <2>1. [kind |-> kind, net |-> n] \in Refs /\ [kind |-> kind, net |-> n].net = n
    BY DEF Refs
  <2>2. QED
    BY <2>1
<1>3. PICK refs \in SUBSET Refs : refs = cfg.refs \cup {r}
  BY <1>1
<1>4. PICK c : c = [cfg EXCEPT !.refs = refs]
  OBVIOUS
<1>5. /\ c \in Config /\ c.refs = refs /\ c.net = cfg.net /\ c.dev = cfg.dev /\ c.wifi = cfg.wifi
      /\ c.zones = cfg.zones /\ c.rules = cfg.rules
  BY <1>1, <1>4, PutRefs
<1>6. Edit(c, None)
  BY <1>2, <1>3, <1>4 DEF SetUp, AddRoute
<1>7. n \in cfg.net \cup run.nets
  BY DEF SetUp, AddRoute, NetworkSelect, enumerateNetworks
<1>8. Sound(c)
  BY <1>1, <1>5, MoreNetsSound
<1>9. Attached(c) \subseteq c.net \cup run.nets \cup Attached(cfg)
  <2> SUFFICES ASSUME NEW x \in Attached(c)
               PROVE  x \in c.net \cup run.nets \cup Attached(cfg)
    OBVIOUS
  <2>1. \/ \E w \in DOMAIN cfg.wifi : x \in cfg.wifi[w]
        \/ \E q \in refs : q.net = x
    BY <1>5, AttachedIs
  <2>2. CASE \E w \in DOMAIN cfg.wifi : x \in cfg.wifi[w]
    BY <2>2, AttachedIs
  <2>3. CASE \E q \in refs : q.net = x
    <3>1. PICK q \in refs : q.net = x
      BY <2>3
    <3>2. q = r \/ q \in cfg.refs
      BY <1>3
    <3>3. QED
      BY <1>2, <1>5, <1>7, <3>1, <3>2, AttachedIs
  <2>4. QED
    BY <2>1, <2>2, <2>3
<1>10. QED
  BY <1>5, <1>6, <1>8, <1>9, EditOutsideZones

(* Wireless: interfaces are added and removed, and get other networks. *)
LEMMA WirelessSteps ==
  ASSUME Inv, Spent,
         \/ AddWifi
         \/ \E w \in Wifis : RemoveWifi(w) \/ \E ns \in SUBSET NetworkSelect(cfg, TRUE) : SaveWifi(w, ns)
  PROVE  Inv' /\ OneZone
<1>1. Sound(cfg) /\ cfg \in Config /\ cfg.dev \subseteq cfg.net
  BY InvUnfolds DEF Sound
<1>2. ASSUME AddWifi PROVE Inv' /\ OneZone
  <2>1. PICK w : w = next_free_sid(cfg, Cardinality(DOMAIN cfg.wifi))
    OBVIOUS
  <2>2. w \in Nat
    BY <1>1, <2>1, FreeSid
  <2>3. PICK none \in SUBSET Nets : none = {}
    OBVIOUS
  <2>4. PICK c : c = WithWifi(cfg, w, none)
    OBVIOUS
  <2>5. w <= MaxWifi /\ Edit(c, None)
    BY <1>2, <2>1, <2>3, <2>4 DEF AddWifi
  <2>6. w \in Wifis
    BY <2>2, <2>5 DEF Wifis
  <2>7. /\ c \in Config /\ c.net = cfg.net /\ c.dev = cfg.dev /\ c.refs = cfg.refs
        /\ c.zones = cfg.zones /\ c.rules = cfg.rules
        /\ Attached(c) \subseteq Attached(cfg) \cup none
    BY <1>1, <2>4, <2>6, WithWifiEffect
  <2>8. Sound(c)
    BY <1>1, <2>7, MoreNetsSound
  <2>9. Attached(c) \subseteq c.net \cup run.nets \cup Attached(cfg) /\ cfg.net \subseteq c.net
    BY <2>3, <2>7
  <2>10. QED
    BY <2>5, <2>7, <2>8, <2>9, EditOutsideZones
<1>3. ASSUME NEW w \in Wifis, RemoveWifi(w) PROVE Inv' /\ OneZone
  <2>1. PICK on \in SUBSET Wifis : on = DOMAIN cfg.wifi \ {w}
    BY <1>1, Fields
  <2>2. PICK f : f = [v \in on |-> cfg.wifi[v]]
    OBVIOUS
  <2>3. f \in [on -> SUBSET Nets] /\ \A v \in on : v \in DOMAIN cfg.wifi /\ f[v] = cfg.wifi[v]
    <3>1. cfg.wifi \in [DOMAIN cfg.wifi -> SUBSET Nets]
      BY <1>1, Fields
    <3>2. QED
      BY <2>1, <2>2, <3>1
  <2>4. PICK c : c = [cfg EXCEPT !.wifi = f]
    OBVIOUS
  <2>5. Edit(c, None)
    BY <1>3, <2>1, <2>2, <2>4 DEF RemoveWifi
  <2>6. /\ c \in Config /\ c.wifi = f /\ c.net = cfg.net /\ c.dev = cfg.dev /\ c.refs = cfg.refs
        /\ c.zones = cfg.zones /\ c.rules = cfg.rules
    BY <1>1, <2>3, <2>4, PutWifi
  <2>7. Sound(c)
    BY <1>1, <2>6, MoreNetsSound
  <2>8. Attached(c) \subseteq Attached(cfg)
    <3> SUFFICES ASSUME NEW x \in Attached(c) PROVE x \in Attached(cfg)
      OBVIOUS
    <3>1. \/ \E v \in on : x \in f[v]
          \/ \E r \in cfg.refs : r.net = x
      BY <2>3, <2>6, AttachedIs
    <3>2. QED
      BY <2>3, <3>1, AttachedIs
  <2>9. QED
    BY <2>5, <2>6, <2>7, <2>8, EditOutsideZones
<1>4. ASSUME NEW w \in Wifis, NEW ns \in SUBSET NetworkSelect(cfg, TRUE), SaveWifi(w, ns)
      PROVE  Inv' /\ OneZone
  <2>1. ns \in SUBSET Nets /\ w \in DOMAIN cfg.wifi
    BY <1>4 DEF NetworkSelect, SaveWifi
  <2>2. PICK c : c = WriteNetworks(cfg, w, ns)
    OBVIOUS
  <2>3. Edit(c, None)
    BY <1>4, <2>2 DEF SaveWifi
  <2>4. /\ Sound(c) /\ cfg.net \subseteq c.net /\ c.zones = cfg.zones
        /\ Attached(c) \subseteq c.net \cup run.nets \cup Attached(cfg)
    BY <1>1, <2>1, <2>2, WriteNetworksEffect
  <2>5. QED
    BY <2>3, <2>4, EditOutsideZones
<1>5. QED
  BY <1>2, <1>3, <1>4

(* A wireless network is joined. *)
LEMMA JoinStep ==
  ASSUME Inv, Spent, NEW n \in Nets, NEW z \in ZoneNames \cup {None},
         NEW replace \in BOOLEAN, Join(n, z, replace)
  PROVE  Inv' /\ OneZone
<1>1. Sound(cfg) /\ cfg \in Config
  BY InvUnfolds
<1>2. PICK c : c = handleJoinConfirm(cfg, n, z, replace)
  OBVIOUS
<1>3. JoinSid(cfg, replace) <= MaxWifi /\ Len(c.zones) <= MaxZones /\ Edit(c, None)
  BY <1>2 DEF Join
<1>4. /\ Sound(c) /\ cfg.net \subseteq c.net
      /\ Attached(c) \subseteq c.net \cup run.nets \cup Attached(cfg)
      /\ \A m : m # n => Covering(c, m) \subseteq Covering(cfg, m)
      /\ \E j : Covering(c, n) \subseteq {j}
  BY <1>1, <1>2, <1>3, JoinEffect
<1>5. ASSUME NEW m \in Nets
      PROVE  Cardinality(Covering(c, m)) > 1
               => Cardinality(Covering(c, m)) <= Cardinality(Covering(cfg, m))
  <2>1. CASE m = n
    <3>1. PICK j : Covering(c, n) \subseteq {j}
      BY <1>4
    <3>2. PICK S : S = {j}
      OBVIOUS
    <3>3. IsFiniteSet(S) /\ Cardinality(S) = 1
      BY <3>2, FS_Singleton
    <3>4. Cardinality(Covering(c, n)) <= 1
      BY <3>1, <3>2, <3>3, FS_Subset
    <3>5. Cardinality(Covering(c, n)) \in Nat
      BY <1>4, CoveringFinite DEF Sound
    <3>6. QED
      BY <2>1, <3>4, <3>5
  <2>2. CASE m # n
    <3>1. IsFiniteSet(Covering(cfg, m))
      BY <1>1, CoveringFinite
    <3>2. QED
      BY <1>4, <2>2, <3>1, FewerOrSwapped
  <2>3. QED
    BY <2>1, <2>2
<1>6. (cfg.net \ c.net) \cap Attached(c) = {}
  BY <1>4
<1>7. QED
  BY <1>3, <1>4, <1>5, <1>6, PlainEdit

(* Firewall: a zone is removed, a rule is added. *)
LEMMA FirewallSteps ==
  ASSUME Inv, Spent, NEW i \in 1 .. MaxZones,
         RemoveZone(i) \/ \E j \in 1 .. MaxZones : AddRule(i, j)
  PROVE  Inv' /\ OneZone
<1>1. /\ Sound(cfg) /\ cfg \in Config /\ Len(cfg.zones) \in Nat /\ Len(cfg.zones) <= MaxZones
      /\ DOMAIN cfg.zones = 1 .. Len(cfg.zones) /\ cfg.rules \subseteq Rules
  BY InvUnfolds, Fields
<1>2. ASSUME RemoveZone(i) PROVE Inv' /\ OneZone
  <2>1. PICK c : c = deleteZone(cfg, i)
    OBVIOUS
  <2>2. i \in 1 .. Len(cfg.zones) /\ Edit(c, None)
    BY <1>1, <1>2, <2>1 DEF RemoveZone
  <2>3. Sound(c) /\ SameNetwork(cfg, c) /\ Len(c.zones) = Len(cfg.zones) - 1
    BY <1>1, <2>1, <2>2, DeleteZoneEffect
  <2>4. Len(c.zones) <= MaxZones
    BY <1>1, <2>3
  <2>5. Attached(c) = Attached(cfg) /\ c.net = cfg.net
    BY <2>3, AttachedSame DEF SameNetwork
  <2>6. \A n \in Nets : Cardinality(Covering(c, n)) > 1
                          => Cardinality(Covering(c, n)) <= Cardinality(Covering(cfg, n))
    BY <1>1, <2>1, <2>2, RemovedZoneCount
  <2>7. /\ Attached(c) \subseteq c.net \cup run.nets \cup Attached(cfg)
        /\ (cfg.net \ c.net) \cap Attached(c) = {}
    BY <2>5
  <2>8. QED
    BY <2>2, <2>3, <2>4, <2>6, <2>7, PlainEdit
<1>3. ASSUME NEW j \in 1 .. MaxZones, AddRule(i, j) PROVE Inv' /\ OneZone
  <2>1. i \in DOMAIN cfg.zones /\ j \in DOMAIN cfg.zones
    BY <1>3 DEF AddRule
  <2>2. PICK a \in ZoneNames, b \in ZoneNames : a = cfg.zones[i].name /\ b = cfg.zones[j].name
    BY <1>1, <2>1, Fields
  <2>3. PICK r \in Rules : r = [kind |-> "rule", src |-> a, dest |-> b] /\ r.src = a /\ r.dest = b
    <3>1. PICK r : r = [kind |-> "rule", src |-> a, dest |-> b]
      OBVIOUS
    <3>2. r \in Rules /\ r.src = a /\ r.dest = b
      BY <3>1 DEF Rules
    <3>3. QED
      BY <3>1, <3>2
  <2>4. PICK rules \in SUBSET Rules : rules = cfg.rules \cup {r}
    BY <1>1
  <2>5. PICK c : c = [cfg EXCEPT !.rules = rules]
    OBVIOUS
  <2>6. Edit(c, None)
    BY <1>3, <2>2, <2>3, <2>4, <2>5 DEF AddRule
  <2>7. c \in Config /\ c.rules = rules /\ SameNetwork(cfg, c) /\ c.zones = cfg.zones
    BY <1>1, <2>5, PutRules
  <2>8. RulesResolve(c)
    <3> SUFFICES ASSUME NEW q \in rules
                 PROVE  {q.src, q.dest} \subseteq {cfg.zones[k].name : k \in DOMAIN cfg.zones}
      BY <2>7 DEF RulesResolve
    <3>1. q = r \/ q \in cfg.rules
      BY <2>4
    <3>2. CASE q = r
      BY <2>1, <2>2, <2>3, <3>2
    <3>3. CASE q \in cfg.rules
      BY <1>1, <3>3 DEF Sound, RulesResolve
    <3>4. QED
      BY <3>1, <3>2, <3>3
  <2>9. Sound(c)
    BY <1>1, <2>7, <2>8 DEF Sound, SameNetwork, ZonesResolve
  <2>10. Attached(c) \subseteq c.net \cup run.nets \cup Attached(cfg) /\ cfg.net \subseteq c.net
    BY <2>7, AttachedSame DEF SameNetwork
  <2>11. QED
    BY <2>6, <2>7, <2>9, <2>10, EditOutsideZones
<1>4. QED
  BY <1>2, <1>3

(* A dialog that says whether it can do what is asked. *)
LEMMA DialogIs ==
  ASSUME NEW i \in 1 .. MaxZones, NEW name, NEW ns, NEW out, NEW inn,
         ZoneFields(name, ns, out, inn)
  PROVE  LET dialog == Dialog(i, name, ns, out, inn)
         IN  /\ dialog \in Dialogs /\ dialog # None
             /\ dialog.at = i /\ dialog.name = name /\ dialog.nets = ns
             /\ dialog.out = out /\ dialog.inn = inn
             /\ dialog.plain <=> Plain(i, name, ns)
<1>0. name \in ZoneNames /\ ns \in SUBSET Nets /\ out \in SUBSET ZoneNames /\ inn \in SUBSET ZoneNames
  BY DEF ZoneFields
<1> USE <1>0
<1>1. PICK plain \in BOOLEAN : plain = Plain(i, name, ns)
  BY DEF Plain
<1>2. PICK dialog : dialog = [at |-> i, name |-> name, nets |-> ns, out |-> out, inn |-> inn,
                              plain |-> plain]
  OBVIOUS
<1>3. Dialog(i, name, ns, out, inn) = dialog
  BY <1>1, <1>2 DEF Dialog
<1>4. /\ dialog \in Dialogs /\ dialog.at = i /\ dialog.name = name /\ dialog.nets = ns
      /\ dialog.out = out /\ dialog.inn = inn /\ dialog.plain = plain
  BY <1>2 DEF Dialogs
<1>5. dialog # None
  BY <1>4, DialogAssumption
<1>6. QED
  BY <1>1, <1>3, <1>4, <1>5

(* A saved zone dialog keeps the invariant if the zone is as chosen. *)
LEMMA DialogEdit ==
  ASSUME Inv, Spent, NEW c, NEW dialog \in Dialogs, dialog # None, Edit(c, dialog),
         Sound(c), Len(c.zones) <= MaxZones, cfg.net \subseteq c.net,
         c.wifi = cfg.wifi, c.refs = cfg.refs,
         dialog.plain => /\ c.zones[dialog.at].name = dialog.name
                         /\ c.zones[dialog.at].nets = dialog.nets
                         /\ Dests(c, dialog.name) = dialog.out
                         /\ Sources(c, dialog.name) = dialog.inn
  PROVE  Inv' /\ OneZone
<1>1. Attached(c) = Attached(cfg)
  BY AttachedSame
<1>2. TypeOK' /\ ReferencesResolve'
  BY <1>1, EditKeeps
<1>3. cfg' = c /\ asked' = dialog
  BY DEF Edit
<1>4. ZoneAsChosen'
  BY <1>3 DEF ZoneAsChosen, Dests, Sources, getForwardingsBy
<1>5. OneZone
  BY <1>3 DEF OneZone
<1>6. QED
  BY <1>2, <1>4, <1>5 DEF Inv

LEMMA ZoneDialogSteps ==
  ASSUME Inv, Spent, NEW name \in ZoneNames, NEW ns \in SUBSET Nets,
         NEW out \in SUBSET ZoneNames, NEW inn \in SUBSET ZoneNames,
         \/ \E i \in 1 .. MaxZones : SaveZone(i, name, ns, out, inn)
         \/ CreateZone(name, ns, out, inn)
  PROVE  Inv' /\ OneZone
<1>0. ZoneFields(name, ns, out, inn)
  BY DEF ZoneFields
<1>1. /\ Sound(cfg) /\ cfg \in Config /\ Len(cfg.zones) \in Nat /\ Len(cfg.zones) <= MaxZones
      /\ DOMAIN cfg.zones = 1 .. Len(cfg.zones) /\ MaxZones \in Nat
  BY InvUnfolds, NetAssumption
<1>2. \A x : ZoneSelect(cfg, FALSE) \ {x, None} \subseteq Names(cfg) \ {x}
  BY DEF ZoneSelect, Names
<1>3. ASSUME NEW i \in 1 .. MaxZones, SaveZone(i, name, ns, out, inn) PROVE Inv' /\ OneZone
  <2>1. PICK c : c = EditZone(cfg, i, name, ns, out, inn)
    OBVIOUS
  <2>2. PICK dialog : dialog = Dialog(i, name, ns, out, inn)
    OBVIOUS
  <2>3. /\ dialog \in Dialogs /\ dialog # None
        /\ dialog.at = i /\ dialog.name = name /\ dialog.nets = ns
        /\ dialog.out = out /\ dialog.inn = inn
        /\ dialog.plain <=> Plain(i, name, ns)
    <3>1. LET e == Dialog(i, name, ns, out, inn)
          IN  /\ e \in Dialogs /\ e # None
              /\ e.at = i /\ e.name = name /\ e.nets = ns /\ e.out = out /\ e.inn = inn
              /\ e.plain <=> Plain(i, name, ns)
      BY <1>0, DialogIs
    <3>2. QED
      BY <2>2, <3>1
  <2>4. i \in 1 .. Len(cfg.zones) /\ Edit(c, dialog)
    BY <1>1, <1>3, <2>1, <2>2 DEF SaveZone
  <2>5. out \subseteq Names(cfg) \ {cfg.zones[i].name} /\ inn \subseteq Names(cfg) \ {cfg.zones[i].name}
    BY <1>2, <1>3 DEF SaveZone, ZoneChoices
  <2>6. /\ Sound(c) /\ cfg.net \subseteq c.net /\ c.wifi = cfg.wifi /\ c.refs = cfg.refs
        /\ Len(c.zones) = Len(cfg.zones)
        /\ /\ \A j \in (1 .. Len(cfg.zones)) \ {i} :
                cfg.zones[j].name # name /\ cfg.zones[j].name # cfg.zones[i].name
           /\ ns \cap run.nets \subseteq cfg.net
           /\ cfg.zones[i].name = name \/ ns \in {cfg.zones[i].nets, {}}
           => /\ c.zones[i].name = name /\ c.zones[i].nets = ns
              /\ Dests(c, name) = out /\ Sources(c, name) = inn
    <3>1. LET d == EditZone(cfg, i, name, ns, out, inn)
          IN  /\ Sound(d) /\ cfg.net \subseteq d.net /\ d.wifi = cfg.wifi /\ d.refs = cfg.refs
              /\ Len(d.zones) = Len(cfg.zones)
              /\ /\ out \subseteq Names(cfg) \ {cfg.zones[i].name}
                 /\ inn \subseteq Names(cfg) \ {cfg.zones[i].name}
                 /\ \A j \in (1 .. Len(cfg.zones)) \ {i} :
                      cfg.zones[j].name # name /\ cfg.zones[j].name # cfg.zones[i].name
                 /\ ns \cap run.nets \subseteq cfg.net
                 /\ cfg.zones[i].name = name \/ ns \in {cfg.zones[i].nets, {}}
                 => /\ d.zones[i].name = name /\ d.zones[i].nets = ns
                    /\ Dests(d, name) = out /\ Sources(d, name) = inn
      BY <1>0, <1>1, <2>4, EditZoneEffect
    <3>2. QED
      BY <2>1, <2>5, <3>1
  <2>7. Plain(i, name, ns)
          => /\ \A j \in (1 .. Len(cfg.zones)) \ {i} :
                  cfg.zones[j].name # name /\ cfg.zones[j].name # cfg.zones[i].name
             /\ ns \cap run.nets \subseteq cfg.net
             /\ cfg.zones[i].name = name \/ ns \in {cfg.zones[i].nets, {}}
    BY <1>1, <2>4 DEF Plain
  <2>8. dialog.plain => /\ c.zones[dialog.at].name = dialog.name
                        /\ c.zones[dialog.at].nets = dialog.nets
                        /\ Dests(c, dialog.name) = dialog.out
                        /\ Sources(c, dialog.name) = dialog.inn
    BY <2>3, <2>6, <2>7
  <2>9. Len(c.zones) <= MaxZones
    BY <1>1, <2>6
  <2>10. QED
    BY <2>3, <2>4, <2>6, <2>8, <2>9, DialogEdit
<1>4. ASSUME CreateZone(name, ns, out, inn) PROVE Inv' /\ OneZone
  <2>1. PICK i : i = Len(cfg.zones) + 1
    OBVIOUS
  <2>2. PICK c : c = NewZone(cfg, name, ns, out, inn)
    OBVIOUS
  <2>3. PICK dialog : dialog = Dialog(i, name, ns, out, inn)
    OBVIOUS
  <2>4. i <= MaxZones /\ Edit(c, dialog)
    BY <1>4, <2>1, <2>2, <2>3 DEF CreateZone
  <2>5. i \in 1 .. MaxZones
    BY <1>1, <2>1, <2>4
  <2>6. /\ dialog \in Dialogs /\ dialog # None
        /\ dialog.at = i /\ dialog.name = name /\ dialog.nets = ns
        /\ dialog.out = out /\ dialog.inn = inn
        /\ dialog.plain <=> Plain(i, name, ns)
    <3>1. LET e == Dialog(i, name, ns, out, inn)
          IN  /\ e \in Dialogs /\ e # None
              /\ e.at = i /\ e.name = name /\ e.nets = ns /\ e.out = out /\ e.inn = inn
              /\ e.plain <=> Plain(i, name, ns)
      BY <1>0, <2>5, DialogIs
    <3>2. QED
      BY <2>3, <3>1
  <2>7. out \subseteq Names(cfg) /\ inn \subseteq Names(cfg)
    BY <1>2, <1>4 DEF CreateZone, ZoneChoices
  <2>8. /\ Sound(c) /\ cfg.net \subseteq c.net /\ c.wifi = cfg.wifi /\ c.refs = cfg.refs
        /\ Len(c.zones) = i
        /\ /\ \A j \in 1 .. Len(cfg.zones) : cfg.zones[j].name # name
           /\ ns \cap run.nets \subseteq cfg.net
           => /\ c.zones[i].name = name /\ c.zones[i].nets = ns
              /\ Dests(c, name) = out /\ Sources(c, name) = inn
    <3>1. LET d == NewZone(cfg, name, ns, out, inn)
          IN  /\ Sound(d) /\ cfg.net \subseteq d.net /\ d.wifi = cfg.wifi /\ d.refs = cfg.refs
              /\ Len(d.zones) = Len(cfg.zones) + 1
              /\ /\ out \subseteq Names(cfg) /\ inn \subseteq Names(cfg)
                 /\ \A j \in 1 .. Len(cfg.zones) : cfg.zones[j].name # name
                 /\ ns \cap run.nets \subseteq cfg.net
                 => /\ d.zones[Len(cfg.zones) + 1].name = name
                    /\ d.zones[Len(cfg.zones) + 1].nets = ns
                    /\ Dests(d, name) = out /\ Sources(d, name) = inn
      BY <1>0, <1>1, NewZoneEffect
    <3>2. QED
      BY <2>1, <2>2, <2>7, <3>1
  <2>9. i \notin DOMAIN cfg.zones
    BY <1>1, <2>1
  <2>10. Plain(i, name, ns)
           => /\ \A j \in 1 .. Len(cfg.zones) : cfg.zones[j].name # name
              /\ ns \cap run.nets \subseteq cfg.net
    BY <1>1, <2>9 DEF Plain
  <2>11. dialog.plain => /\ c.zones[dialog.at].name = dialog.name
                         /\ c.zones[dialog.at].nets = dialog.nets
                         /\ Dests(c, dialog.name) = dialog.out
                         /\ Sources(c, dialog.name) = dialog.inn
    BY <2>6, <2>8, <2>10
  <2>12. Len(c.zones) <= MaxZones
    BY <2>4, <2>8
  <2>13. QED
    BY <2>4, <2>6, <2>8, <2>11, <2>12, DialogEdit
<1>5. QED
  BY <1>3, <1>4

(* netifd takes over the configuration: the ghosts stay ghosts. *)
LEMMA ApplyStep ==
  ASSUME Inv, Apply
  PROVE  Inv' /\ OneZone
<1>1. /\ cfg' = cfg /\ ghosts' = ghosts /\ edits' = edits /\ asked' = None
      /\ run' = [nets |-> cfg.net, on |-> RunsOn(cfg)]
  BY DEF Apply
<1>2. cfg \in Config /\ cfg.net \subseteq Nets
  BY InvUnfolds, Fields
<1>3. run'.nets = cfg.net /\ run'.on = RunsOn(cfg)
  BY <1>1
<1>4. \A w \in DOMAIN RunsOn(cfg) : RunsOn(cfg)[w] \subseteq cfg.net
  BY DEF RunsOn
<1>5. TypeOK'
  BY <1>1, <1>2, <1>3, <1>4 DEF Inv, TypeOK
<1>6. ReferencesResolve' /\ ZoneAsChosen'
  BY <1>1 DEF Inv, ReferencesResolve, ZoneAsChosen
<1>7. OneZone
  BY <1>1, <1>2, CoveringFinite DEF OneZone
<1>8. QED
  BY <1>5, <1>6, <1>7 DEF Inv

-----------------------------------------------------------------------------
(* Theorems *)

LEMMA StepKeeps ==
  ASSUME Inv, Next
  PROVE  Inv' /\ OneZone
<1>6. 1 \in Nat /\ \A i, ns, out, inn : Settings(i, ns, out, inn) \in Nat
  BY DEF Settings
<1>1. CASE Apply
  BY <1>1, ApplyStep
<1>2. ASSUME Spent, NEW n \in Nets,
             \/ \E device \in BOOLEAN : AddInterface(n, device)
             \/ RemoveInterface(n)
             \/ \E z \in ZoneSelect(cfg, TRUE) : AssignZone(n, z)
             \/ \E kind \in Kinds : SetUp(kind, n) \/ AddRoute(kind, n)
             \/ \E z \in ZoneNames \cup {None}, replace \in BOOLEAN : Join(n, z, replace)
      PROVE  Inv' /\ OneZone
  BY <1>2, InterfaceSteps, ReferenceSteps, JoinStep
<1>3. ASSUME Spent,
             \/ AddWifi
             \/ \E w \in Wifis : RemoveWifi(w)
                                   \/ \E ns \in SUBSET NetworkSelect(cfg, TRUE) : SaveWifi(w, ns)
      PROVE  Inv' /\ OneZone
  BY <1>3, WirelessSteps
<1>4. ASSUME Spent, NEW i \in 1 .. MaxZones,
             RemoveZone(i) \/ \E j \in 1 .. MaxZones : AddRule(i, j)
      PROVE  Inv' /\ OneZone
  BY <1>4, FirewallSteps
<1>5. ASSUME NEW name \in ZoneNames, NEW ns \in SUBSET Nets,
             NEW out \in SUBSET ZoneNames, NEW inn \in SUBSET ZoneNames,
             \/ \E i \in 1 .. MaxZones : SaveZone(i, name, ns, out, inn)
             \/ CreateZone(name, ns, out, inn)
      PROVE  Inv' /\ OneZone
  <2>1. \E i : Spend(Settings(i, ns, out, inn))
    BY <1>5 DEF SaveZone, CreateZone
  <2>2. QED
    BY <1>5, <1>6, <2>1, SpendIs, ZoneDialogSteps
<1>7. QED
  BY <1>1, <1>2, <1>3, <1>4, <1>5, <1>6, SpendIs DEF Next

LEMMA StartHolds == ASSUME Init PROVE Inv
<1>1. /\ cfg = Start /\ run = [nets |-> Start.net, on |-> RunsOn(Start)]
      /\ ghosts = {} /\ asked = None /\ edits = 0
  BY DEF Init
<1>2. /\ Start \in Config /\ Start.dev \subseteq Start.net /\ Len(Start.zones) <= MaxZones
      /\ ZonesResolve(Start) /\ RulesResolve(Start) /\ Attached(Start) \subseteq Start.net
  BY StartAssumption
<1>3. run.nets = Start.net /\ run.on = RunsOn(Start) /\ Start.net \subseteq Nets
  BY <1>1, <1>2, Fields
<1>4. \A w \in DOMAIN RunsOn(Start) : RunsOn(Start)[w] \subseteq Start.net
  BY DEF RunsOn
<1>5. edits \in 0 .. MaxEdits
  BY <1>1, NetAssumption
<1>6. TypeOK
  BY <1>1, <1>2, <1>3, <1>4, <1>5 DEF TypeOK
<1>7. ReferencesResolve /\ ZoneAsChosen
  BY <1>1, <1>2 DEF ReferencesResolve, ZoneAsChosen
<1>8. QED
  BY <1>6, <1>7 DEF Inv

(* The invariant of the three packages: for any number of interfaces,      *)
(* zones and wireless interfaces and any number of edits.                  *)
THEOREM Invariant == Spec => []Inv
<1>1. Init => Inv
  BY StartHolds
<1>2. Inv /\ [Next]_vars => Inv'
  <2>1. ASSUME Inv, UNCHANGED vars PROVE Inv'
    BY <2>1 DEF Inv, TypeOK, ReferencesResolve, ZonesResolve, RulesResolve, Attached,
                ZoneAsChosen, Dests, Sources, getForwardingsBy, vars
  <2>2. QED
    BY <2>1, StepKeeps
<1>3. QED
  BY <1>1, <1>2, PTL DEF Spec

(* No reference is left behind by what network.js and firewall.js do when  *)
(* an interface, a zone or a wireless interface is deleted, renamed, moved *)
(* or joined: zones, forwardings, rules, routes, DHCP servers, peers and   *)
(* wireless networks name what exists, but for the interfaces that are     *)
(* deleted and still run when they are chosen.                             *)
THEOREM ReferencesResolveHolds == Spec => []ReferencesResolve
<1>1. Inv => ReferencesResolve
  BY DEF Inv
<1>2. QED
  BY <1>1, Invariant, PTL

(* The zone dialog leaves the name, the covered networks and the           *)
(* forwardings in both directions that were chosen, although they are      *)
(* written before the zone is renamed and the networks after it under the  *)
(* name it had before, unless the dialog asks for what Plain leaves out.   *)
THEOREM ZoneAsChosenHolds == Spec => []ZoneAsChosen
<1>1. Inv => ZoneAsChosen
  BY DEF Inv
<1>2. QED
  BY <1>1, Invariant, PTL

(* No step but a saved zone dialog makes a network a member of a second    *)
(* zone: the interface dialog takes it out of the zone it was in, and      *)
(* joining a wireless network out of all.                                  *)
THEOREM KeepsOneZoneHolds == Spec => KeepsOneZone
<1>1. Inv /\ [Next]_vars => [OneZone]_vars
  BY StepKeeps
<1>2. QED
  BY <1>1, Invariant, PTL DEF Spec, KeepsOneZone, OneZone
=============================================================================
