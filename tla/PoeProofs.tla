------------------------------ MODULE PoeProofs ------------------------------
(***************************************************************************)
(* Proofs about realtek-poe, for every value of the constants: about its   *)
(* start, that is about close_map for every table and about poet_setup for *)
(* every choice of ports and every size of a group; then about the queue   *)
(* of commands, PoeQueue.                                                  *)
(***************************************************************************)
EXTENDS PoeStart, PoeQueue, SequenceTheorems, TLAPS

(* What a round writes: entry map[id] becomes id, unless map[id] is 0.         *)
LEMMA RoundEffect ==
  ASSUME MapTypeOK, close_map
  PROVE  /\ id \in Ids /\ id' = id + 1 /\ id' \in 0 .. Size /\ table' = table
         /\ map[id] \in Ids
         /\ \A y \in Ids : map'[y] = IF map[id] # 0 /\ y = map[id] THEN id ELSE map[y]
         /\ map' \in [Ids -> Ids]
         /\ map \in [Ids -> Ids] /\ table \in [Ids -> Ids]
<1>1. id \in Ids /\ id' = id + 1 /\ id' \in 0 .. Size /\ table' = table
  BY MapAssumption DEF MapTypeOK, close_map, Ids
<1>2. map \in [Ids -> Ids] /\ table \in [Ids -> Ids]
  BY MapAssumption DEF MapTypeOK
<1>3. map[id] \in Ids
  BY <1>1, <1>2
<1>4. map' = IF map[id] # 0 THEN [map EXCEPT ![map[id]] = id] ELSE map
  BY DEF close_map
<1>5. CASE map[id] # 0
  <2>1. map' = [map EXCEPT ![map[id]] = id]
    BY <1>4, <1>5
  <2>2. QED
    BY <1>1, <1>2, <1>3, <1>5, <2>1
<1>6. CASE map[id] = 0
  BY <1>1, <1>2, <1>3, <1>4, <1>6
<1>7. QED
  BY <1>5, <1>6

(* The loop stays within the table and the table within the byte range.     *)
THEOREM MapTypeCorrect == MapSpec => []MapTypeOK
<1>1. MapInit => MapTypeOK
  BY MapAssumption DEF MapInit, MapTypeOK
<1>2. MapTypeOK /\ [MapNext]_mapVars => MapTypeOK'
  <2> SUFFICES ASSUME MapTypeOK, [MapNext]_mapVars PROVE MapTypeOK'
    OBVIOUS
  <2>1. CASE close_map
    <3>1. map' \in [Ids -> Ids] /\ id' \in 0 .. Size /\ table' = table
      BY <2>1, RoundEffect
    <3>2. QED
      BY <3>1 DEF MapTypeOK
  <2>2. CASE UNCHANGED mapVars
    BY <2>2 DEF mapVars, MapTypeOK
  <2>3. QED
    BY <2>1, <2>2 DEF MapNext
<1>3. QED
  BY <1>1, <1>2, PTL DEF MapSpec

-----------------------------------------------------------------------------
(* On every table, close_map leaves the entries of all ids alone that are   *)
(* no RTL id themselves.                                                    *)
THEOREM UnsharedKeptHolds == MapSpec => []UnsharedKept
<1> DEFINE Inv == UnsharedKept /\ WrittenBack
<1>1. MapInit => Inv
  <2> SUFFICES ASSUME MapInit PROVE Inv
    OBVIOUS
  <2>1. map = table
    BY DEF MapInit
  <2>2. QED
    BY <2>1 DEF UnsharedKept, WrittenBack, UsedAsRtl, Translated
<1>2. MapTypeOK /\ Inv /\ [MapNext]_mapVars => Inv'
  <2> SUFFICES ASSUME MapTypeOK, Inv, [MapNext]_mapVars PROVE Inv'
    OBVIOUS
  <2>1. CASE UNCHANGED mapVars
    BY <2>1 DEF mapVars, UnsharedKept, WrittenBack, UsedAsRtl, Translated
  <2>2. CASE close_map
    <3>1. /\ id \in Ids /\ table' = table /\ map[id] \in Ids
          /\ \A y \in Ids : map'[y] = IF map[id] # 0 /\ y = map[id] THEN id ELSE map[y]
      BY <2>2, RoundEffect
    <3>2. \A x \in Ids : UsedAsRtl(x)' <=> UsedAsRtl(x)
      BY <3>1 DEF UsedAsRtl, Translated
    <3>3. ASSUME NEW x \in Ids, ~UsedAsRtl(x) PROVE map'[x] = table[x]
      <4>1. map[x] = table[x]
        BY <3>3 DEF UnsharedKept
      <4>2. map[id] # 0 /\ x = map[id] => table[x] = id
        BY <3>1, <3>3 DEF WrittenBack
      <4>3. QED
        BY <3>1, <4>1, <4>2
    <3>4. ASSUME NEW x \in Ids, NEW y \in Ids, x # 0, ~UsedAsRtl(x), map'[y] = x
          PROVE  table[x] = y
      <4>1. CASE map[id] # 0 /\ y = map[id]
        BY <3>1, <3>4, <4>1 DEF UnsharedKept
      <4>2. CASE ~(map[id] # 0 /\ y = map[id])
        BY <3>1, <3>4, <4>2 DEF WrittenBack
      <4>3. QED
        BY <4>1, <4>2
    <3>5. QED
      BY <3>1, <3>2, <3>3, <3>4 DEF UnsharedKept, WrittenBack
  <2>3. QED
    BY <2>1, <2>2 DEF MapNext
<1>3. QED
  BY <1>1, <1>2, MapTypeCorrect, PTL DEF MapSpec

-----------------------------------------------------------------------------
(* The comment above close_map is right about its assumption: a one-to-one  *)
(* table that reuses no id is closed by one pass.                           *)
THEOREM AssumptionSufficesHolds == MapSpec => []AssumptionSuffices
<1>1. MapInit => CloseInv
  <2> SUFFICES ASSUME MapInit PROVE CloseInv
    OBVIOUS
  <2>1. map = table /\ id = 0
    BY DEF MapInit
  <2>2. QED
    BY <2>1, MapAssumption DEF CloseInv, Translated, Ids
<1>2. MapTypeOK /\ CloseInv /\ [MapNext]_mapVars => CloseInv'
  <2> SUFFICES ASSUME MapTypeOK, CloseInv, [MapNext]_mapVars PROVE CloseInv'
    OBVIOUS
  <2>1. CASE UNCHANGED mapVars
    BY <2>1 DEF mapVars, CloseInv, Translated, NoReuse, OneToOne
  <2>2. CASE close_map
    <3>1. /\ id \in Ids /\ id' = id + 1 /\ table' = table /\ map[id] \in Ids
          /\ \A y \in Ids : map'[y] = IF map[id] # 0 /\ y = map[id] THEN id ELSE map[y]
          /\ \A x \in Ids : table[x] \in Ids /\ map[x] \in Ids
      BY <2>2, RoundEffect
    <3> SUFFICES ASSUME NoReuse, OneToOne
                 PROVE  /\ \A x \in Ids : table[x] # 0 => map'[x] = table[x]
                        /\ \A x \in Ids : table[x] # 0 /\ x < id' => map'[table[x]] = x
                        /\ \A y \in Ids : table[y] = 0 =>
                             map'[y] = 0 \/ (table[map'[y]] # 0 /\ table[map'[y]] = y)
      BY <3>1 DEF CloseInv, Translated, NoReuse, OneToOne
    <3>2. /\ \A x \in Ids : table[x] # 0 => map[x] = table[x]
          /\ \A x \in Ids : table[x] # 0 /\ x < id => map[table[x]] = x
          /\ \A y \in Ids : table[y] = 0 =>
               map[y] = 0 \/ (table[map[y]] # 0 /\ table[map[y]] = y)
          /\ \A x \in Ids : table[x] # 0 => table[table[x]] = 0
          /\ \A x, y \in Ids : table[x] # 0 /\ table[x] = table[y] => x = y
      BY DEF CloseInv, Translated, NoReuse, OneToOne
    <3>3. CASE table[id] # 0
      <4>1. map[id] = table[id] /\ table[table[id]] = 0
        BY <3>1, <3>2, <3>3
      <4>2. \A y \in Ids : map'[y] = IF y = table[id] THEN id ELSE map[y]
        BY <3>1, <3>3, <4>1
      <4>3. \A x \in Ids : table[x] # 0 => map'[x] = table[x]
        BY <3>2, <4>1, <4>2
      <4>4. \A x \in Ids : table[x] # 0 /\ x < id' => map'[table[x]] = x
        <5> TAKE x \in Ids
        <5> HAVE table[x] # 0 /\ x < id'
        <5>1. x < id \/ x = id
          BY <3>1 DEF Ids
        <5>2. CASE x = id
          BY <3>1, <4>2, <5>2
        <5>3. CASE x < id
          <6>1. x # id
            BY <3>1, <5>3 DEF Ids
          <6>2. table[x] # table[id]
            BY <3>1, <3>2, <6>1
          <6>3. map'[table[x]] = map[table[x]]
            BY <3>1, <4>2, <6>2
          <6>4. map[table[x]] = x
            BY <3>2, <5>3
          <6>5. QED
            BY <6>3, <6>4
        <5>4. QED
          BY <5>1, <5>2, <5>3
      <4>5. \A y \in Ids : table[y] = 0 =>
              map'[y] = 0 \/ (table[map'[y]] # 0 /\ table[map'[y]] = y)
        BY <3>2, <3>3, <4>2
      <4>6. QED
        BY <4>3, <4>4, <4>5
    <3>4. CASE table[id] = 0
      <4>1. \A y \in Ids : map'[y] = map[y]
        <5>1. map[id] # 0 => table[map[id]] = id /\ table[map[id]] # 0
          BY <3>1, <3>2, <3>4
        <5>2. map[id] # 0 => map[map[id]] = id
          BY <3>1, <3>2, <5>1
        <5>3. QED
          BY <3>1, <5>2
      <4>2. \A x \in Ids : table[x] # 0 /\ x < id' => x < id
        BY <3>1, <3>4 DEF Ids
      <4>3. \A x \in Ids : table[x] # 0 /\ x < id' => map'[table[x]] = x
        BY <3>1, <3>2, <4>1, <4>2
      <4>4. QED
        BY <3>2, <4>1, <4>3
    <3>5. QED
      BY <3>3, <3>4
  <2>3. QED
    BY <2>1, <2>2 DEF MapNext
<1>3. MapTypeOK /\ CloseInv => AssumptionSuffices
  <2> SUFFICES ASSUME MapTypeOK, CloseInv, Closed, NoReuse, OneToOne,
                      NEW x \in Ids, Translated(x)
               PROVE  /\ bcm_to_rtl_cmd_id(x) = table[x]
                      /\ x # 0 => rtl_to_bcm_cmd_id(table[x]) = x
    BY DEF AssumptionSuffices, BothWays
  <2>1. map[x] = table[x] /\ map[x] # 0
    BY DEF CloseInv, Translated
  <2>2. x < id
    BY MapAssumption DEF Closed, Ids
  <2>3. map[table[x]] = x
    BY <2>2 DEF CloseInv
  <2>4. QED
    BY <2>1, <2>3 DEF bcm_to_rtl_cmd_id, rtl_to_bcm_cmd_id
<1>4. QED
  BY <1>1, <1>2, <1>3, MapTypeCorrect, PTL DEF MapSpec


-----------------------------------------------------------------------------
(* Replies and their handlers *)

(* What the pass keeps of an id h with a handler, when the table sets it   *)
(* apart: only h leads to the RTL id of h, only that leads back to h, and  *)
(* it does once the loop has passed h.                                     *)
HandledInv ==
  \A h \in Handled :
    /\ map[h] = table[h]
    /\ \A y \in Ids : map[y] = table[h] => y = h
    /\ \A y \in Ids : map[y] = h => y = table[h]
    /\ map[table[h]] \in {0, h}
    /\ h < id => map[table[h]] = h

LEMMA HandledStep ==
  ASSUME MapTypeOK, HandledApart(table), HandledInv, close_map
  PROVE  HandledInv'
<1>1. /\ id \in Ids /\ id' = id + 1 /\ table' = table /\ map[id] \in Ids
      /\ \A y \in Ids : map'[y] = IF map[id] # 0 /\ y = map[id] THEN id ELSE map[y]
      /\ map \in [Ids -> Ids] /\ table \in [Ids -> Ids]
  BY RoundEffect
<1> SUFFICES ASSUME NEW h \in Handled
             PROVE  /\ map'[h] = table[h]
                    /\ \A y \in Ids : map'[y] = table[h] => y = h
                    /\ \A y \in Ids : map'[y] = h => y = table[h]
                    /\ map'[table[h]] \in {0, h}
                    /\ h < id + 1 => map'[table[h]] = h
  BY <1>1 DEF HandledInv
<1>2. h \in Ids /\ table[h] \in Ids /\ h \in Nat /\ id \in Nat
  BY <1>1, MapAssumption DEF Ids
<1>3. /\ h # 0 /\ table[h] # 0 /\ table[h] # h
  BY <1>2 DEF HandledApart
<1>4. /\ map[h] = table[h]
      /\ \A y \in Ids : map[y] = table[h] => y = h
      /\ \A y \in Ids : map[y] = h => y = table[h]
      /\ map[table[h]] \in {0, h}
      /\ h < id => map[table[h]] = h
  BY DEF HandledInv
<1>5. CASE map[id] = 0
  <2>1. \A y \in Ids : map'[y] = map[y]
    BY <1>1, <1>5
  <2>2. id # h
    BY <1>3, <1>4, <1>5
  <2>3. h < id + 1 => h < id
    BY <1>2, <2>2
  <2>4. QED
    BY <1>2, <1>4, <2>1, <2>3
<1>6. CASE map[id] # 0 /\ id = h
  <2>1. \A y \in Ids : map'[y] = IF y = table[h] THEN h ELSE map[y]
    BY <1>1, <1>4, <1>6
  <2>2. QED
    BY <1>2, <1>3, <1>4, <2>1
<1>7. CASE map[id] # 0 /\ id # h
  <2>1. map[id] # table[h]
    BY <1>1, <1>4, <1>7
  <2>2. \A y \in Ids : map'[y] = IF y = map[id] THEN id ELSE map[y]
    BY <1>1, <1>7
  <2>3. map[id] = h => id = table[h]
    BY <1>1, <1>4
  <2>4. map[id] # h => id # table[h]
    BY <1>4, <1>7
  <2>5. h < id + 1 => h < id
    BY <1>2, <1>7
  <2>6. QED
    BY <1>2, <1>3, <1>4, <1>7, <2>1, <2>2, <2>3, <2>4, <2>5
<1>8. QED
  BY <1>5, <1>6, <1>7

(* The start of the daemon contains the pass over the map. *)
LEMMA StartCloses == StartSpec => MapSpec
<1>1. StartInit => MapInit
  BY DEF StartInit
<1>2. [StartNext]_allVars => [MapNext]_mapVars
  BY DEF StartNext, MapNext, allVars
<1>3. QED
  BY <1>1, <1>2, PTL DEF StartSpec, MapSpec

(* On tables that set the handled ids apart, as that of the source does,   *)
(* every reply reaches the handler of its command, and a command without   *)
(* one reaches none, although close_map runs over ids both dialects use.   *)
THEOREM ReplyReachesItsHandlerHolds ==
  ASSUME \A t \in Tables : HandledApart(t)
  PROVE  StartSpec => []ReplyReachesItsHandler
<1>1. MapInit => HandledInv
  <2> SUFFICES ASSUME MapInit, NEW h \in Handled
               PROVE  /\ map[h] = table[h]
                      /\ \A y \in Ids : map[y] = table[h] => y = h
                      /\ \A y \in Ids : map[y] = h => y = table[h]
                      /\ map[table[h]] \in {0, h}
                      /\ ~(h < id)
    BY DEF HandledInv
  <2>1. table \in Tables /\ map = table /\ id = 0 /\ h \in Nat
    BY MapAssumption DEF MapInit, Ids
  <2>2. HandledApart(table)
    BY <2>1
  <2>3. QED
    BY <2>1, <2>2 DEF HandledApart
<1>2. MapTypeOK /\ HandledInv /\ [MapNext]_mapVars => HandledInv'
  <2> SUFFICES ASSUME MapTypeOK, HandledInv, [MapNext]_mapVars
               PROVE  HandledInv'
    OBVIOUS
  <2>1. HandledApart(table)
    BY DEF MapTypeOK
  <2>2. CASE close_map
    BY <2>1, <2>2, HandledStep
  <2>3. CASE UNCHANGED mapVars
    BY <2>3 DEF mapVars, HandledInv
  <2>4. QED
    BY <2>2, <2>3 DEF MapNext
<1>3. MapTypeOK /\ HandledInv => ReplyReachesItsHandler
  <2> SUFFICES ASSUME MapTypeOK, HandledInv, Closed, NEW x \in OwnIds
               PROVE  LET back == rtl_to_bcm_cmd_id(bcm_to_rtl_cmd_id(x)) IN
                        IF x \in Handled THEN back = x ELSE back \notin Handled
    BY DEF ReplyReachesItsHandler
  <2> DEFINE there == bcm_to_rtl_cmd_id(x)
             back  == rtl_to_bcm_cmd_id(there)
  <2>1. x \in Ids /\ map \in [Ids -> Ids] /\ HandledApart(table) /\ id = Size
    BY MapAssumption DEF MapTypeOK, Closed
  <2>2. \A h \in Handled : h \in Ids /\ h < id
    BY <2>1, MapAssumption DEF Ids
  <2>3. there \in Ids /\ there = IF map[x] # 0 THEN map[x] ELSE x
    BY <2>1 DEF bcm_to_rtl_cmd_id
  <2>4. back = IF map[there] # 0 THEN map[there] ELSE there
    BY DEF rtl_to_bcm_cmd_id, bcm_to_rtl_cmd_id
  <2> HIDE DEF there, back
  <2>5. CASE x \in Handled
    <3>1. there = table[x]
      BY <2>1, <2>3, <2>5 DEF HandledInv, HandledApart
    <3>2. map[there] = x /\ x # 0
      BY <2>1, <2>2, <2>5, <3>1 DEF HandledInv, HandledApart
    <3>3. back = x
      BY <2>4, <3>2
    <3>4. QED
      BY <2>5, <3>3 DEF back, there
  <2>6. CASE x \notin Handled
    <3>1. ASSUME NEW h \in Handled, back = h
          PROVE  FALSE
      <4>1. /\ map[h] = table[h] /\ table[h] # 0 /\ table[h] # h /\ h \in Ids
            /\ table[h] \notin OwnIds
        BY <2>1, <2>2 DEF HandledInv, HandledApart
      <4>2. map[there] = h
        BY <2>3, <2>4, <3>1, <4>1
      <4>3. there = table[h]
        BY <2>3, <4>2 DEF HandledInv
      <4>4. map[x] = table[h]
        BY <2>3, <4>1, <4>3
      <4>5. x = h
        BY <2>1, <4>4 DEF HandledInv
      <4>6. QED
        BY <2>6, <4>5
    <3>2. QED
      BY <2>6, <3>1 DEF back, there
  <2>7. QED
    BY <2>5, <2>6
<1>4. MapSpec => []ReplyReachesItsHandler
  BY <1>1, <1>2, <1>3, MapTypeCorrect, PTL DEF MapSpec
<1>5. QED
  BY <1>4, StartCloses, PTL

-----------------------------------------------------------------------------
(* The groups of poet_setup *)

Slots == 0 .. GroupSize - 1

(* The ports below this one have been looked at: port itself too, when the *)
(* loop was left by the break.                                             *)
Reached == IF pc = "emit" THEN port + 1 ELSE port

Group ==
  [port : [Slots -> enabled \cup {Unused}], data : [Slots -> enabled \cup {Unused}],
   enable : [Slots -> {1, Unused}]]

SetupType ==
  /\ num_ports \in 0 .. MaxPorts /\ enabled \subseteq 0 .. num_ports - 1
  /\ pc \in {"scan", "emit", "done"} /\ port \in Nat /\ num_okay \in 0 .. GroupSize
  /\ DOMAIN port_ids = Slots /\ DOMAIN data = Slots /\ DOMAIN enable_all = Slots
  /\ sent \in Seq(Group)

(* A group is left with room only behind the last port, so nothing has     *)
(* been blanked while there are groups to come.                            *)
LoopInv ==
  /\ pc = "scan" => num_okay < GroupSize
  /\ pc = "emit" => num_okay = GroupSize \/ port >= num_ports
  /\ pc = "done" => port >= num_ports /\ num_okay = 0
  /\ pc # "done" => \A k \in Slots : enable_all[k] = 1

(* The filled slots of the group at hand hold enabled ports that have been *)
(* reached, no port twice and none that was sent.                          *)
FilledInv ==
  /\ \A k \in Slots : k < num_okay =>
       port_ids[k] \in enabled /\ port_ids[k] < Reached /\ data[k] = port_ids[k]
  /\ \A k, l \in Slots : k < num_okay /\ l < num_okay /\ port_ids[k] = port_ids[l] => k = l
  /\ \A g \in 1 .. Len(sent), k, l \in Slots : l < num_okay => sent[g].port[k] # port_ids[l]

(* The same of the groups sent, whose messages agree. *)
SentInv ==
  /\ \A g \in 1 .. Len(sent), k \in Slots :
       /\ sent[g].port[k] = Unused
            \/ (sent[g].port[k] \in enabled /\ sent[g].port[k] < Reached)
       /\ sent[g].data[k] = sent[g].port[k]
       /\ sent[g].enable[k] = Unused <=> sent[g].port[k] = Unused
  /\ \A g, f \in 1 .. Len(sent), k, l \in Slots :
       sent[g].port[k] = sent[f].port[l] /\ sent[g].port[k] # Unused => g = f /\ k = l

(* No enabled port that was reached is missing. *)
NoneMissing ==
  \A p \in enabled : p < Reached =>
    \/ \E g \in 1 .. Len(sent), k \in Slots : sent[g].port[k] = p
    \/ \E k \in Slots : k < num_okay /\ port_ids[k] = p

SetupInv == SetupType /\ LoopInv /\ FilledInv /\ SentInv /\ NoneMissing

LEMMA SetupInit == Setup!Init => SetupInv
<1> SUFFICES ASSUME Setup!Init
             PROVE  SetupInv
  OBVIOUS
<1>1. SetupType
  <2>1. <<>> \in Seq(Group)
    OBVIOUS
  <2>2. QED
    BY <2>1, StartAssumption DEF Setup!Init, Setup!Slots, SetupType, Slots
<1>2. Len(sent) = 0 /\ num_okay = 0 /\ port = 0 /\ pc = "scan"
  BY DEF Setup!Init
<1>3. LoopInv
  BY <1>2, StartAssumption DEF LoopInv, Setup!Init, Setup!Slots, Slots
<1>4. FilledInv /\ SentInv
  BY <1>2 DEF FilledInv, SentInv, Slots
<1>5. NoneMissing
  BY <1>1, <1>2 DEF NoneMissing, SetupType, Reached
<1>6. QED
  BY <1>1, <1>3, <1>4, <1>5 DEF SetupInv

(* A port that is not enabled is passed over. *)
LEMMA SkipStep == SetupInv /\ (Setup!Skip \/ Setup!LeaveLoop) => SetupInv'
<1> SUFFICES ASSUME SetupInv, Setup!Skip \/ Setup!LeaveLoop
             PROVE  SetupInv'
  OBVIOUS
<1>1. UNCHANGED <<num_ports, enabled, num_okay, port_ids, data, enable_all, sent>>
  BY DEF Setup!Skip, Setup!LeaveLoop
<1>2. /\ pc = "scan" /\ port \in Nat /\ num_ports \in Nat
      /\ \A p \in enabled : p \in Nat /\ p < num_ports
  <2>1. num_ports \in 0 .. MaxPorts /\ enabled \subseteq 0 .. num_ports - 1 /\ port \in Nat
    BY DEF SetupInv, SetupType
  <2>2. num_ports \in Nat /\ pc = "scan"
    BY <2>1, StartAssumption DEF Setup!Skip, Setup!LeaveLoop
  <2>3. QED
    BY <2>1, <2>2
<1>3. \/ pc' = "scan" /\ port' = port + 1 /\ port \notin enabled
      \/ pc' = "emit" /\ port' = port /\ port >= num_ports
  BY <1>2 DEF Setup!Skip, Setup!LeaveLoop
<1>4. Reached = port /\ Reached' = port + 1
  BY <1>2, <1>3 DEF Reached
<1>5. \A p \in enabled : p < port + 1 <=> p < port
  BY <1>2, <1>3
<1>6. SetupType'
  BY <1>1, <1>2, <1>3 DEF SetupInv, SetupType, Group
<1>7. LoopInv'
  BY <1>1, <1>2, <1>3 DEF SetupInv, LoopInv
<1>8. FilledInv'
  BY <1>1, <1>4, <1>5 DEF SetupInv, FilledInv
<1>9. SentInv'
  BY <1>1, <1>4, <1>5 DEF SetupInv, SentInv
<1>10. NoneMissing'
  BY <1>1, <1>4, <1>5 DEF SetupInv, NoneMissing
<1>11. QED
  BY <1>6, <1>7, <1>8, <1>9, <1>10 DEF SetupInv

(* An enabled port enters the next slot. *)
LEMMA TakeStep == SetupInv /\ Setup!Take => SetupInv'
<1> SUFFICES ASSUME SetupInv, Setup!Take
             PROVE  SetupInv'
  OBVIOUS
<1>1. SetupType /\ LoopInv /\ FilledInv /\ SentInv /\ NoneMissing
  BY DEF SetupInv
<1>2. /\ pc = "scan" /\ port < num_ports /\ port \in enabled
      /\ port_ids' = [port_ids EXCEPT ![num_okay] = port]
      /\ data' = [data EXCEPT ![num_okay] = port]
      /\ num_okay' = num_okay + 1
      /\ UNCHANGED <<num_ports, enabled, enable_all, sent>>
  BY DEF Setup!Take
<1>3. /\ port \in Nat /\ num_okay \in Nat /\ num_okay \in Slots /\ GroupSize \in Nat
      /\ \A p \in enabled : p \in Nat
      /\ \A k \in Slots : k \in Nat
  BY <1>1, <1>2, StartAssumption DEF SetupType, LoopInv, Slots
<1>4. \/ num_okay + 1 = GroupSize /\ pc' = "emit" /\ port' = port
      \/ num_okay + 1 # GroupSize /\ pc' = "scan" /\ port' = port + 1
  BY <1>2 DEF Setup!Take
<1>5. Reached = port /\ Reached' = port + 1
  BY <1>2, <1>4 DEF Reached
<1>6. /\ DOMAIN port_ids' = Slots /\ DOMAIN data' = Slots
      /\ \A k \in Slots : /\ port_ids'[k] = IF k = num_okay THEN port ELSE port_ids[k]
                          /\ data'[k] = IF k = num_okay THEN port ELSE data[k]
  BY <1>1, <1>2, <1>3 DEF SetupType
<1>7. SetupType'
  <2>1. num_okay' \in 0 .. GroupSize
    BY <1>1, <1>2, <1>3 DEF LoopInv
  <2>2. QED
    BY <1>1, <1>2, <1>3, <1>4, <1>6, <2>1 DEF SetupType, Group
<1>8. LoopInv'
  BY <1>1, <1>2, <1>3, <1>4 DEF LoopInv
<1>9. \A k \in Slots : k < num_okay + 1 <=> k < num_okay \/ k = num_okay
  BY <1>3
<1>10. \A p \in enabled : p < port => p < port + 1 /\ p # port
  BY <1>3
<1>11. port # Unused
  <2>1. port \in 0 .. MaxPorts
    BY <1>1, <1>2, StartAssumption DEF SetupType
  <2>2. QED
    BY <2>1, StartAssumption
<1>12. \A g \in 1 .. Len(sent), k \in Slots : sent[g].port[k] # port
  BY <1>1, <1>5, <1>10, <1>11 DEF SentInv
<1>13. \A k \in Slots : k < num_okay => port_ids[k] # port
  BY <1>1, <1>5, <1>10 DEF FilledInv
<1>14. FilledInv'
  <2>1. \A k \in Slots : k < num_okay' =>
           port_ids'[k] \in enabled /\ port_ids'[k] < port + 1 /\ data'[k] = port_ids'[k]
    <3> TAKE k \in Slots
    <3>1. CASE k = num_okay
      <4>1. port_ids'[k] = port /\ data'[k] = port
        BY <1>6, <3>1
      <4>2. QED
        BY <1>2, <1>3, <4>1
    <3>2. CASE k < num_okay
      <4>1. /\ port_ids'[k] = port_ids[k] /\ data'[k] = data[k] /\ data[k] = port_ids[k]
            /\ port_ids[k] \in enabled /\ port_ids[k] < port
        BY <1>1, <1>3, <1>5, <1>6, <3>2 DEF FilledInv
      <4>2. QED
        BY <1>10, <4>1
    <3>3. QED
      BY <1>2, <1>9, <3>1, <3>2
  <2>2. \A k, l \in Slots : k < num_okay' /\ l < num_okay' /\ port_ids'[k] = port_ids'[l] => k = l
    BY <1>1, <1>2, <1>6, <1>9, <1>13 DEF FilledInv
  <2>3. \A g \in 1 .. Len(sent), k, l \in Slots : l < num_okay' => sent[g].port[k] # port_ids'[l]
    BY <1>1, <1>2, <1>6, <1>9, <1>12 DEF FilledInv
  <2>4. QED
    BY <1>2, <1>5, <2>1, <2>2, <2>3 DEF FilledInv
<1>15. SentInv'
  BY <1>1, <1>2, <1>5, <1>10 DEF SentInv
<1>16. NoneMissing'
  <2> SUFFICES ASSUME NEW p \in enabled, p < port + 1
               PROVE  \/ \E g \in 1 .. Len(sent), k \in Slots : sent[g].port[k] = p
                      \/ \E k \in Slots : k < num_okay' /\ port_ids'[k] = p
    BY <1>2, <1>5 DEF NoneMissing
  <2>1. CASE p = port
    BY <1>2, <1>3, <1>6, <1>9, <2>1
  <2>2. CASE p < port
    <3>1. \/ \E g \in 1 .. Len(sent), k \in Slots : sent[g].port[k] = p
          \/ \E k \in Slots : k < num_okay /\ port_ids[k] = p
      BY <1>1, <1>5, <2>2 DEF NoneMissing
    <3>2. \A k \in Slots : k < num_okay => k < num_okay' /\ port_ids'[k] = port_ids[k]
      BY <1>2, <1>3, <1>6
    <3>3. QED
      BY <3>1, <3>2
  <2>3. QED
    BY <1>3, <2>1, <2>2
<1>17. QED
  BY <1>7, <1>8, <1>14, <1>15, <1>16 DEF SetupInv

(* A group is sent, its empty slots blanked. *)
LEMMA EmitStep == SetupInv /\ Setup!Emit => SetupInv'
<1> SUFFICES ASSUME SetupInv, Setup!Emit
             PROVE  SetupInv'
  OBVIOUS
<1>1. SetupType /\ LoopInv /\ FilledInv /\ SentInv /\ NoneMissing
  BY DEF SetupInv
<1>2. /\ pc = "emit" /\ num_okay' = 0 /\ port' = port + 1
      /\ pc' = (IF port + 1 < num_ports THEN "scan" ELSE "done")
      /\ UNCHANGED <<num_ports, enabled>>
  BY DEF Setup!Emit
<1>3. /\ port \in Nat /\ num_okay \in Nat /\ GroupSize \in Nat \ {0} /\ num_ports \in Nat
      /\ Len(sent) \in Nat
      /\ \A p \in enabled : p \in 0 .. MaxPorts /\ p # Unused
      /\ \A k \in Slots : k \in Nat /\ k < GroupSize
  BY <1>1, StartAssumption DEF SetupType, Slots
<1>4. Reached = port + 1 /\ Reached' = port + 1
  BY <1>2 DEF Reached
<1>5. /\ DOMAIN port_ids' = Slots /\ DOMAIN data' = Slots /\ DOMAIN enable_all' = Slots
      /\ \A k \in Slots : /\ port_ids'[k] = IF k >= num_okay THEN Unused ELSE port_ids[k]
                          /\ data'[k] = IF k >= num_okay THEN Unused ELSE data[k]
                          /\ enable_all'[k] = IF k >= num_okay THEN Unused ELSE enable_all[k]
  BY DEF Setup!Emit, Setup!Blank, Setup!Slots, Slots
<1> DEFINE group == [port |-> port_ids', data |-> data', enable |-> enable_all']
<1>6. sent' = Append(sent, group)
  BY DEF Setup!Emit
<1>7. group.port = port_ids' /\ group.data = data' /\ group.enable = enable_all'
  OBVIOUS
<1> HIDE DEF group
<1>8. group \in Group
  <2>1. \A k \in Slots : /\ port_ids'[k] \in enabled \cup {Unused}
                         /\ data'[k] \in enabled \cup {Unused}
                         /\ enable_all'[k] \in {1, Unused}
    <3> TAKE k \in Slots
    <3>1. CASE k >= num_okay
      BY <1>5, <3>1
    <3>2. CASE k < num_okay
      BY <1>1, <1>2, <1>3, <1>5, <3>2 DEF FilledInv, LoopInv
    <3>3. QED
      BY <1>3, <3>1, <3>2
  <2>2. /\ port_ids' = [k \in Slots |-> port_ids'[k]]
        /\ data' = [k \in Slots |-> data'[k]]
        /\ enable_all' = [k \in Slots |-> enable_all'[k]]
    BY DEF Setup!Emit, Setup!Blank, Setup!Slots, Slots
  <2>3. QED
    BY <2>1, <2>2 DEF group, Group
<1>9. /\ sent' \in Seq(Group) /\ Len(sent') = Len(sent) + 1
      /\ \A g \in 1 .. Len(sent) : sent'[g] = sent[g]
      /\ sent'[Len(sent) + 1] = group
  BY <1>1, <1>6, <1>8, AppendProperties DEF SetupType
<1>10. /\ \A g \in 1 .. Len(sent') : g \in 1 .. Len(sent) \/ g = Len(sent) + 1
       /\ Len(sent) + 1 \in 1 .. Len(sent') /\ Len(sent) + 1 \notin 1 .. Len(sent)
       /\ 1 .. Len(sent) \subseteq 1 .. Len(sent')
  BY <1>3, <1>9
<1>11. SetupType'
  BY <1>1, <1>2, <1>3, <1>5, <1>9 DEF SetupType, Group
<1>12. LoopInv'
  <2>1. pc' = "scan" => \A k \in Slots : enable_all'[k] = 1
    <3> SUFFICES ASSUME pc' = "scan", NEW k \in Slots
                 PROVE  enable_all'[k] = 1
      OBVIOUS
    <3>1. num_okay = GroupSize
      BY <1>1, <1>2, <1>3 DEF LoopInv
    <3>2. ~(k >= num_okay)
      BY <1>3, <3>1
    <3>3. QED
      BY <1>1, <1>2, <1>5, <3>2 DEF LoopInv
  <2>2. QED
    BY <1>2, <1>3, <2>1 DEF LoopInv
<1>13. FilledInv'
  BY <1>2, <1>3 DEF FilledInv
(* What a slot of the new group holds. *)
<1>14. ASSUME NEW k \in Slots
       PROVE  /\ group.data[k] = group.port[k]
              /\ group.enable[k] = Unused <=> group.port[k] = Unused
              /\ \/ group.port[k] = Unused
                 \/ /\ group.port[k] \in enabled /\ group.port[k] < Reached
                    /\ k < num_okay /\ group.port[k] = port_ids[k]
  <2>1. CASE k >= num_okay
    BY <1>5, <1>7, <2>1
  <2>2. CASE k < num_okay
    <3>1. /\ group.port[k] = port_ids[k] /\ group.data[k] = data[k]
          /\ group.enable[k] = enable_all[k]
      BY <1>3, <1>5, <1>7, <2>2
    <3>2. port_ids[k] \in enabled /\ port_ids[k] < Reached /\ data[k] = port_ids[k]
      BY <1>1, <2>2 DEF FilledInv
    <3>3. enable_all[k] = 1 /\ 1 # Unused
      BY <1>1, <1>2, StartAssumption DEF LoopInv
    <3>4. QED
      BY <1>3, <2>2, <3>1, <3>2, <3>3
  <2>3. QED
    BY <1>3, <2>1, <2>2
<1>15. SentInv'
  <2>1. \A g \in 1 .. Len(sent'), k \in Slots :
          /\ sent'[g].port[k] = Unused
               \/ (sent'[g].port[k] \in enabled /\ sent'[g].port[k] < Reached)
          /\ sent'[g].data[k] = sent'[g].port[k]
          /\ sent'[g].enable[k] = Unused <=> sent'[g].port[k] = Unused
    <3> TAKE g \in 1 .. Len(sent'), k \in Slots
    <3>1. CASE g \in 1 .. Len(sent)
      BY <1>1, <1>9, <3>1 DEF SentInv
    <3>2. CASE g = Len(sent) + 1
      BY <1>9, <1>14, <3>2
    <3>3. QED
      BY <1>10, <3>1, <3>2
  <2>2. ASSUME NEW g \in 1 .. Len(sent), NEW k \in Slots, NEW l \in Slots,
               group.port[l] # Unused
        PROVE  sent[g].port[k] # group.port[l]
    BY <1>1, <1>14, <2>2 DEF FilledInv
  <2>3. ASSUME NEW k \in Slots, NEW l \in Slots,
               group.port[k] = group.port[l], group.port[k] # Unused
        PROVE  k = l
    BY <1>1, <1>14, <2>3 DEF FilledInv
  <2>4. ASSUME NEW g \in 1 .. Len(sent'), NEW f \in 1 .. Len(sent'), NEW k \in Slots, NEW l \in Slots,
               sent'[g].port[k] = sent'[f].port[l], sent'[g].port[k] # Unused
        PROVE  g = f /\ k = l
    <3>1. CASE g \in 1 .. Len(sent) /\ f \in 1 .. Len(sent)
      BY <1>1, <1>9, <2>4, <3>1 DEF SentInv
    <3>2. CASE g \in 1 .. Len(sent) /\ f = Len(sent) + 1
      BY <1>9, <2>2, <2>4, <3>2
    <3>3. CASE g = Len(sent) + 1 /\ f \in 1 .. Len(sent)
      BY <1>9, <2>2, <2>4, <3>3
    <3>4. CASE g = Len(sent) + 1 /\ f = Len(sent) + 1
      BY <1>9, <2>3, <2>4, <3>4
    <3>5. QED
      BY <1>10, <3>1, <3>2, <3>3, <3>4
  <2>5. QED
    BY <1>2, <1>4, <2>1, <2>4 DEF SentInv
<1>16. NoneMissing'
  <2> SUFFICES ASSUME NEW p \in enabled, p < Reached
               PROVE  \E g \in 1 .. Len(sent'), k \in Slots : sent'[g].port[k] = p
    BY <1>2, <1>4 DEF NoneMissing
  <2>1. CASE \E g \in 1 .. Len(sent), k \in Slots : sent[g].port[k] = p
    BY <1>9, <1>10, <2>1
  <2>2. CASE \E k \in Slots : k < num_okay /\ port_ids[k] = p
    <3>1. PICK k \in Slots : k < num_okay /\ port_ids[k] = p
      BY <2>2
    <3>2. group.port[k] = p
      BY <1>3, <1>5, <1>7, <3>1
    <3>3. QED
      BY <1>9, <1>10, <3>2
  <2>3. QED
    BY <1>1, <2>1, <2>2 DEF NoneMissing
<1>17. QED
  BY <1>11, <1>12, <1>13, <1>15, <1>16 DEF SetupInv

(* The groups of poet_setup are complete and consistent throughout the      *)
(* start of the daemon.                                                     *)
THEOREM SetupInvariant == StartSpec => []SetupInv
<1>1. StartInit => SetupInv
  BY SetupInit DEF StartInit
<1>2. SetupInv /\ [StartNext]_allVars => SetupInv'
  <2> SUFFICES ASSUME SetupInv, [StartNext]_allVars
               PROVE  SetupInv'
    OBVIOUS
  <2>1. CASE UNCHANGED setupVars
    BY <2>1 DEF setupVars, SetupInv, SetupType, Group, LoopInv, FilledInv, SentInv, NoneMissing, Reached
  <2>2. CASE Setup!Next
    BY <2>2, SkipStep, TakeStep, EmitStep DEF Setup!Next
  <2>3. QED
    BY <2>1, <2>2 DEF StartNext, allVars
<1>3. QED
  BY <1>1, <1>2, PTL DEF StartSpec

(* When poet_setup returns, every enabled port is in exactly one slot and   *)
(* no other port in any, and the messages of a group agree on every slot,   *)
(* for every set of enabled ports and whatever the arrays held before.      *)
THEOREM SetupIsExactHolds == StartSpec => []SetupIsExact
<1>1. SetupInv => SetupIsExact
  <2> SUFFICES ASSUME SetupInv
               PROVE  SetupIsExact
    OBVIOUS
  <2>1. SetupType /\ LoopInv /\ FilledInv /\ SentInv /\ NoneMissing
    BY DEF SetupInv
  <2>2. Setup!SlotsAgree
    BY <2>1 DEF SentInv, Setup!SlotsAgree, Setup!Slots, Slots
  <2>3. ASSUME pc = "done", NEW p \in 0 .. num_ports
        PROVE  IF p \in enabled THEN \E gk \in Setup!Places(p) : Setup!Places(p) = {gk}
                                 ELSE Setup!Places(p) = {}
    <3>1. Setup!Places(p) = {gk \in (1 .. Len(sent)) \X Slots : sent[gk[1]].port[gk[2]] = p}
      BY DEF Setup!Places, Setup!Slots, Slots
    <3>2. p # Unused
      BY <2>1, StartAssumption DEF SetupType
    <3>3. CASE p \notin enabled
      BY <2>1, <3>1, <3>2, <3>3 DEF SentInv
    <3>4. CASE p \in enabled
      <4>1. p < Reached
        BY <2>1, <2>3, <3>4, StartAssumption DEF SetupType, LoopInv, Reached
      <4>2. PICK g \in 1 .. Len(sent), k \in Slots : sent[g].port[k] = p
        BY <2>1, <2>3, <3>4, <4>1 DEF NoneMissing, LoopInv, Slots
      <4>3. <<g, k>> \in Setup!Places(p)
        BY <3>1, <4>2
      <4>4. ASSUME NEW gk \in Setup!Places(p)
            PROVE  gk = <<g, k>>
        <5>1. /\ gk \in (1 .. Len(sent)) \X Slots /\ sent[gk[1]].port[gk[2]] = p
          BY <3>1, <4>4
        <5>2. gk[1] = g /\ gk[2] = k
          BY <2>1, <3>2, <4>2, <5>1 DEF SentInv
        <5>3. QED
          BY <5>1, <5>2
      <4>5. QED
        BY <3>4, <4>3, <4>4
    <3>5. QED
      BY <3>3, <3>4
  <2>4. QED
    BY <2>2, <2>3 DEF SetupIsExact, Setup!EachEnabledOnce
<1>2. QED
  BY <1>1, SetupInvariant, PTL

-----------------------------------------------------------------------------
(* The queue *)

USE ConstantsAssumption

(* Stamp makes a non-empty list of well-formed commands of the length of   *)
(* the batch, numbered consecutively (poe_cmd_queue).                      *)
LEMMA StampType ==
  ASSUME NEW b \in Batch, NEW s \in Nat, NEW n \in Nat
  PROVE  /\ Stamp(b, s, n) \in Seq(Cmd)
         /\ Len(Stamp(b, s, n)) = Len(b)
         /\ Len(b) \in Nat \ {0}
         /\ \A i \in 1 .. Len(b) : Stamp(b, s, n)[i].frame.n = n + i
<1>1. b \in Seq(CmdId) /\ b # <<>> /\ Len(b) \in Nat \ {0}
  OBVIOUS
<1>2. \A i \in 1 .. Len(b) : b[i] \in CmdId /\ (s + i) % SeqMod \in 0 .. SeqMod - 1
  BY <1>1
<1>3. \A i \in 1 .. Len(b) : Stamp(b, s, n)[i] \in Cmd
  BY <1>1, <1>2 DEF Stamp, Cmd, Frame
<1>4. QED
  BY <1>1, <1>3 DEF Stamp

(* What poe_cmd_next does to the line: it appends one well-formed frame or *)
(* nothing.                                                                *)
LEMMA CmdNextType ==
  ASSUME NEW q \in Seq(Cmd), NEW timer \in BOOLEAN, NEW t \in Seq(Frame)
  PROVE  /\ poe_cmd_next(q, timer, t) \in Seq(Frame)
         /\ Len(poe_cmd_next(q, timer, t))
              = Len(t) + (IF q # <<>> /\ ~timer THEN 1 ELSE 0)
<1>1. q # <<>> => Head(q) \in Cmd
  OBVIOUS
<1>2. q # <<>> => Head(q).frame \in Frame
  BY <1>1 DEF Cmd
<1>3. QED
  BY <1>2 DEF poe_cmd_next

(* What poe_reply_consume does to the list: it keeps it, retires its head, *)
(* or counts a retry of the head and starts the error timer.               *)
LEMMA ConsumeEffect ==
  ASSUME NEW r, TypeOK, poe_reply_consume(r)
  PROVE  /\ pending' \in Seq(Cmd)
         /\ errTimer' \in BOOLEAN
         /\ \/ pending' = pending /\ errTimer' = errTimer
            \/ /\ pending # <<>>
               /\ pending' = Tail(pending)
               /\ errTimer' = errTimer
            \/ /\ pending # <<>> /\ pending' # <<>>
               /\ ~errTimer /\ errTimer'
               /\ r.st = "f0"
               /\ Len(pending') = Len(pending)
               /\ \A i \in 1 .. Len(pending) : pending'[i].frame = pending[i].frame
         /\ pending' = pending => pending = <<>> \/ (errTimer /\ r.st = "f0")
<1> DEFINE cmd == pending[1]
<1>0. pending # <<>> => /\ Head(pending) = cmd
                        /\ cmd \in Cmd
                        /\ cmd.num_retries \in 0 .. MAX_RETRIES
                        /\ Len(pending) \in Nat \ {0}
                        /\ Tail(pending) \in Seq(Cmd)
                        /\ Len(Tail(pending)) = Len(pending) - 1
  <2>1. pending # <<>> => Head(pending) = cmd /\ cmd \in Cmd
    BY DEF TypeOK
  <2>2. QED
    BY <2>1 DEF TypeOK, Cmd
<1>1. CASE pending = <<>>
  BY <1>1 DEF poe_reply_consume, TypeOK
<1>2. CASE pending # <<>> /\ r.st = "f0" /\ handle_poe_f0_reply
  <2>1. CASE errTimer
    BY <1>2, <2>1 DEF handle_poe_f0_reply, TypeOK
  <2>2. CASE ~errTimer /\ cmd.num_retries + 1 > MAX_RETRIES
    <3>1. pending' = Tail(pending) /\ errTimer' = errTimer
      BY <1>0, <1>2, <2>2 DEF handle_poe_f0_reply
    <3>2. QED
      BY <1>0, <1>2, <2>2, <3>1 DEF TypeOK
  <2>3. CASE ~errTimer /\ cmd.num_retries + 1 <= MAX_RETRIES
    <3>1. /\ pending' = <<[cmd EXCEPT !.num_retries = @ + 1]>> \o Tail(pending)
          /\ errTimer' = TRUE
      BY <1>0, <1>2, <2>3 DEF handle_poe_f0_reply
    <3>2. /\ [cmd EXCEPT !.num_retries = @ + 1] \in Cmd
          /\ [cmd EXCEPT !.num_retries = @ + 1].frame = cmd.frame
          /\ [cmd EXCEPT !.num_retries = @ + 1] # cmd
      BY <1>0, <1>2, <2>3 DEF Cmd
    <3> DEFINE again == [cmd EXCEPT !.num_retries = @ + 1]
    <3> HIDE DEF again
    <3>3. pending' = <<again>> \o Tail(pending) /\ again \in Cmd
      BY <3>1, <3>2 DEF again
    <3>4. /\ pending' \in Seq(Cmd) /\ pending' # <<>>
          /\ Len(pending') = Len(pending)
          /\ pending'[1] = again
          /\ \A i \in 1 .. Len(pending) : i # 1 => pending'[i] = pending[i]
      BY <1>0, <1>2, <3>3 DEF TypeOK
    <3>5. pending' # pending
      BY <3>2, <3>4 DEF again
    <3>6. QED
      BY <1>0, <1>2, <2>3, <3>1, <3>2, <3>4, <3>5 DEF again
  <2>4. QED
    BY <1>0, <1>2, <2>1, <2>2, <2>3 DEF handle_poe_f0_reply, TypeOK
<1>3. CASE pending # <<>> /\ r.st # "f0" /\ pending' = Tail(pending) /\ UNCHANGED errTimer
  BY <1>0, <1>3 DEF TypeOK
<1>4. QED
  BY <1>1, <1>2, <1>3 DEF poe_reply_consume

-----------------------------------------------------------------------------
(* What a read event does, in the terms the invariants speak of: one reply *)
(* leaves the line, the list changes as ConsumeEffect says, and the head   *)
(* of what is left is sent unless the error timer runs.                    *)
LEMMA ReadEffect ==
  ASSUME TypeOK, NEW k \in 1 .. Len(rx), poe_stream_msg_cb(k)
  PROVE  /\ rx # <<>> /\ rx' = Tail(rx)
         /\ rx' \in Seq(Reply) /\ Len(rx') = Len(rx) - 1
         /\ held' \in 0 .. Len(rx') /\ held' >= held
         /\ tx' \in Seq(Frame)
         /\ tx' = poe_cmd_next(pending', errTimer', tx)
         /\ Len(tx') = Len(tx) + (IF pending' # <<>> /\ ~errTimer' THEN 1 ELSE 0)
         /\ poe_reply_consume(Head(rx))
         /\ UNCHANGED <<cmd_seq, accepted, applied, executions, strays, lost, restarts>>
<1>1. rx \in Seq(Reply) /\ Len(rx) \in Nat /\ held \in 0 .. Len(rx)
  BY DEF TypeOK
<1>2. /\ k \in 1 .. Len(rx) - held
      /\ poe_reply_consume(Head(rx))
      /\ rx' = Tail(rx)
      /\ held' = held + k - 1
      /\ tx' = poe_cmd_next(pending', errTimer', tx)
      /\ UNCHANGED <<cmd_seq, accepted, applied, executions, strays, lost, restarts>>
  BY DEF poe_stream_msg_cb, history
<1>3. rx # <<>> /\ rx' \in Seq(Reply) /\ Len(rx') = Len(rx) - 1
  BY <1>1, <1>2
<1>4. pending' \in Seq(Cmd) /\ errTimer' \in BOOLEAN
  BY <1>2, ConsumeEffect
<1>5. tx \in Seq(Frame)
  BY DEF TypeOK
<1>6. /\ tx' \in Seq(Frame)
      /\ Len(tx') = Len(tx) + (IF pending' # <<>> /\ ~errTimer' THEN 1 ELSE 0)
  BY <1>2, <1>4, <1>5, CmdNextType
<1>7. QED
  BY <1>1, <1>2, <1>3, <1>6

(* Type correctness of the queue: every reachable state has well-formed    *)
(* commands and frames, and no queued command has used more than           *)
(* MAX_RETRIES retries.                                                    *)
THEOREM TypeCorrect == Spec => []TypeOK
<1>1. Init => TypeOK
  <2> SUFFICES ASSUME Init PROVE TypeOK
    OBVIOUS
  <2>1. PICK b \in Batch :
          /\ pending = Stamp(b, 0, 0)
          /\ cmd_seq = Len(b) % SeqMod
          /\ errTimer = FALSE
          /\ tx = <<pending[1].frame>>
          /\ rx = <<>> /\ held = 0
          /\ accepted = Len(b)
          /\ applied = 0 /\ executions = 0 /\ strays = 0 /\ lost = 0 /\ restarts = 0
    BY DEF Init
  <2>2. /\ pending \in Seq(Cmd) /\ Len(pending) \in Nat \ {0}
        /\ Len(b) \in Nat
    BY <2>1, StampType
  <2>3. pending[1] \in Cmd
    BY <2>2
  <2>4. tx \in Seq(Frame)
    BY <2>1, <2>3 DEF Cmd
  <2>5. cmd_seq \in 0 .. SeqMod - 1
    BY <2>1, <2>2
  <2>6. rx \in Seq(Reply) /\ held \in 0 .. Len(rx)
    BY <2>1
  <2>7. QED
    BY <2>1, <2>2, <2>4, <2>5, <2>6 DEF TypeOK
<1>2. TypeOK /\ [Next]_vars => TypeOK'
  <2> SUFFICES ASSUME TypeOK, [Next]_vars PROVE TypeOK'
    OBVIOUS
  <2>1. ASSUME NEW b \in Batch, poe_cmd_queue(b) PROVE TypeOK'
    <3>0. cmd_seq \in Nat /\ accepted \in Nat
      BY DEF TypeOK
    <3>1. /\ Stamp(b, cmd_seq, accepted) \in Seq(Cmd)
          /\ Len(b) \in Nat
      BY <3>0, StampType
    <3>2. pending' \in Seq(Cmd)
      BY <2>1, <3>1 DEF poe_cmd_queue, TypeOK
    <3>3. tx' \in Seq(Frame)
      BY <2>1, <3>2, CmdNextType DEF poe_cmd_queue, TypeOK
    <3>4. cmd_seq' \in 0 .. SeqMod - 1
      BY <2>1, <3>1 DEF poe_cmd_queue, TypeOK
    <3>5. QED
      BY <2>1, <3>1, <3>2, <3>3, <3>4 DEF poe_cmd_queue, TypeOK
  <2>2. ASSUME NEW k \in 1 .. Len(rx), poe_stream_msg_cb(k) PROVE TypeOK'
    <3>1. pending' \in Seq(Cmd) /\ errTimer' \in BOOLEAN
      BY <2>2, ReadEffect, ConsumeEffect
    <3>2. QED
      BY <2>2, <3>1, ReadEffect DEF TypeOK
  <2>3. CASE mcu_clear_timeout
    BY <2>3, CmdNextType DEF mcu_clear_timeout, TypeOK, history
  <2>4. ASSUME NEW st \in {"ok", "f0", "bad"}, McuAnswer(st) PROVE TypeOK'
    <3>1. Head(tx) \in Frame /\ Tail(tx) \in Seq(Frame)
      BY <2>4 DEF McuAnswer, TypeOK
    <3>2. [st |-> st, req |-> Head(tx)] \in Reply
      BY <3>1 DEF Reply
    <3>3. Head(tx).n \in Nat
      BY <3>1 DEF Frame
    <3>4. rx' \in Seq(Reply) /\ Len(rx') = Len(rx) + 1
      BY <2>4, <3>2 DEF McuAnswer, TypeOK
    <3>5. QED
      BY <2>4, <3>1, <3>3, <3>4 DEF McuAnswer, TypeOK
  <2>5. CASE LineStray
    <3>1. PICK r \in Reply : rx' = Append(rx, r)
      <4>1. /\ [st |-> "f0", req |-> NoFrame] \in Reply
            /\ [st |-> "bad", req |-> NoFrame] \in Reply
        BY DEF Reply
      <4>2. rx # <<>> => rx[Len(rx)] \in Reply
        BY DEF TypeOK
      <4>3. QED
        BY <2>5, <4>1, <4>2 DEF LineStray
    <3>2. rx' \in Seq(Reply) /\ Len(rx') = Len(rx) + 1
      BY <3>1 DEF TypeOK
    <3>3. QED
      BY <2>5, <3>2 DEF LineStray, TypeOK
  <2>6. CASE LineLose
    <3>1. tx' \in Seq(Frame)
      <4>1. CASE tx # <<>> /\ tx' = Tail(tx)
        BY <4>1 DEF TypeOK
      <4>2. QED
        BY <2>6, <4>1 DEF LineLose, TypeOK
    <3>2. rx' \in Seq(Reply) /\ held \in 0 .. Len(rx')
      <4>1. CASE Len(rx) > held /\ rx' = SubSeq(rx, 1, Len(rx) - 1)
        BY <4>1 DEF TypeOK
      <4>2. QED
        BY <2>6, <4>1 DEF LineLose, TypeOK
    <3>3. QED
      BY <2>6, <3>1, <3>2 DEF LineLose, TypeOK
  <2>7. ASSUME NEW b \in Batch, Restart(b) PROVE TypeOK'
    <3>1. pending' \in Seq(Cmd) /\ Len(b) \in Nat
      BY <2>7, StampType DEF Restart, TypeOK
    <3>2. tx' \in Seq(Frame)
      BY <2>7, <3>1, CmdNextType DEF Restart, TypeOK
    <3>3. cmd_seq' \in 0 .. SeqMod - 1
      BY <2>7, <3>1 DEF Restart
    <3>4. rx' \in Seq(Reply) /\ held' \in 0 .. Len(rx')
      BY <2>7 DEF Restart
    <3>5. strays' \in Nat /\ restarts' \in Nat /\ accepted' \in Nat
      BY <2>7, <3>1 DEF Restart, TypeOK
    <3>6. QED
      BY <2>7, <3>1, <3>2, <3>3, <3>4, <3>5 DEF Restart, TypeOK
  <2>8. CASE UNCHANGED vars
    BY <2>8 DEF vars, TypeOK
  <2>9. QED
    BY <2>1, <2>2, <2>3, <2>4, <2>5, <2>6, <2>7, <2>8
       DEF Next, Queue, Read, Mcu
<1>3. QED
  BY <1>1, <1>2, PTL DEF Spec

-----------------------------------------------------------------------------
(* What queueing a batch does to the line: a frame is sent exactly when    *)
(* the list was empty and the error timer does not run.                    *)
LEMMA QueueEffect ==
  ASSUME TypeOK, NEW b \in Batch, poe_cmd_queue(b)
  PROVE  /\ pending' # <<>>
         /\ Len(pending') = Len(pending) + Len(b)
         /\ Len(b) \in Nat \ {0}
         /\ Len(tx') = Len(tx) + (IF pending = <<>> /\ ~errTimer THEN 1 ELSE 0)
         /\ UNCHANGED <<errTimer, rx, held, applied, executions, strays, lost, restarts>>
<1>0. /\ cmd_seq \in Nat /\ accepted \in Nat /\ pending \in Seq(Cmd)
      /\ tx \in Seq(Frame) /\ errTimer \in BOOLEAN
  BY DEF TypeOK
<1>1. /\ Stamp(b, cmd_seq, accepted) \in Seq(Cmd)
      /\ Len(Stamp(b, cmd_seq, accepted)) = Len(b)
      /\ Len(b) \in Nat \ {0}
  BY <1>0, StampType
<1> DEFINE new == Stamp(b, cmd_seq, accepted)
<1>2. pending' = pending \o new
  BY DEF poe_cmd_queue
<1>3. /\ pending' \in Seq(Cmd)
      /\ Len(pending') = Len(pending) + Len(b)
  <2> HIDE DEF new
  <2>1. new \in Seq(Cmd) /\ Len(new) = Len(b)
    BY <1>1 DEF new
  <2>2. pending \in Seq(Cmd)
    BY <1>0
  <2>3. pending \o new \in Seq(Cmd) /\ Len(pending \o new) = Len(pending) + Len(new)
    BY <2>1, <2>2, ConcatProperties
  <2>4. QED
    BY <1>2, <2>1, <2>3, Zenon
<1>4. pending' # <<>>
  BY <1>0, <1>1, <1>3
<1>5. Len(tx') = Len(tx) + (IF pending = <<>> /\ ~errTimer THEN 1 ELSE 0)
  <2>1. tx' = IF pending = <<>> THEN poe_cmd_next(pending', errTimer, tx) ELSE tx
    BY DEF poe_cmd_queue
  <2>2. Len(poe_cmd_next(pending', errTimer, tx))
          = Len(tx) + (IF ~errTimer THEN 1 ELSE 0)
    BY <1>0, <1>3, <1>4, CmdNextType
  <2>3. QED
    BY <1>0, <2>1, <2>2
<1>6. QED
  BY <1>1, <1>3, <1>4, <1>5 DEF poe_cmd_queue

(* A restart leaves the setup of the new process queued and its first      *)
(* command sent behind what was still on its way to the MCU.               *)
LEMMA RestartEffect ==
  ASSUME TypeOK, NEW b \in Batch, Restart(b)
  PROVE  /\ pending' # <<>> /\ Len(pending') = Len(b)
         /\ Len(b) \in Nat \ {0}
         /\ Len(tx') = Len(tx) + 1
         /\ Len(rx') = 0 /\ held' = 0
         /\ ~errTimer'
         /\ strays' = strays + Len(tx)
         /\ lost' = lost
<1>1. /\ pending' \in Seq(Cmd) /\ Len(pending') = Len(b)
      /\ Len(b) \in Nat \ {0}
  BY StampType DEF Restart, TypeOK
<1>2. pending' # <<>>
  BY <1>1
<1>3. Len(tx') = Len(tx) + 1
  BY <1>1, <1>2, CmdNextType DEF Restart, TypeOK
<1>4. QED
  BY <1>1, <1>2, <1>3 DEF Restart

(* The remaining actions of the environment, by what they do to the number *)
(* of frames under way.                                                    *)
LEMMA LineEffect ==
  ASSUME TypeOK
  PROVE  /\ \A st \in {"ok", "f0", "bad"} : McuAnswer(st) =>
              /\ Len(tx') = Len(tx) - 1 /\ Len(rx') = Len(rx) + 1
              /\ UNCHANGED <<pending, errTimer, held, strays, lost>>
         /\ LineStray =>
              /\ Len(rx') = Len(rx) + 1 /\ strays' = strays + 1
              /\ UNCHANGED <<pending, errTimer, tx, held, lost>>
         /\ LineLose =>
              /\ Len(tx') \in Nat /\ Len(rx') \in Nat
              /\ Len(tx') + Len(rx') = Len(tx) + Len(rx) - 1
              /\ lost' = lost + 1
              /\ UNCHANGED <<pending, errTimer, held, strays>>
         /\ mcu_clear_timeout =>
              /\ errTimer /\ errTimer' = FALSE
              /\ Len(tx') = Len(tx) + (IF pending # <<>> THEN 1 ELSE 0)
              /\ UNCHANGED <<pending, rx, held, strays, lost>>
<1>1. ASSUME NEW st \in {"ok", "f0", "bad"}, McuAnswer(st)
      PROVE  Len(tx') = Len(tx) - 1 /\ Len(rx') = Len(rx) + 1
  BY <1>1 DEF McuAnswer, TypeOK
<1>2. LineStray => Len(rx') = Len(rx) + 1
  BY DEF LineStray, TypeOK
<1>3. ASSUME LineLose
      PROVE  /\ Len(tx') \in Nat /\ Len(rx') \in Nat
             /\ Len(tx') + Len(rx') = Len(tx) + Len(rx) - 1
  <2>1. CASE tx # <<>> /\ tx' = Tail(tx) /\ rx' = rx
    BY <2>1 DEF TypeOK
  <2>2. CASE Len(rx) > held /\ rx' = SubSeq(rx, 1, Len(rx) - 1) /\ tx' = tx
    BY <2>2 DEF TypeOK
  <2>3. QED
    BY <1>3, <2>1, <2>2 DEF LineLose
<1>4. mcu_clear_timeout => Len(tx') = Len(tx) + (IF pending # <<>> THEN 1 ELSE 0)
  BY CmdNextType DEF mcu_clear_timeout, TypeOK
<1>5. QED
  BY <1>1, <1>2, <1>3, <1>4
     DEF McuAnswer, LineStray, LineLose, mcu_clear_timeout, history

(* What a read event leaves of the list is either all of it, or all but    *)
(* the head.                                                               *)
LEMMA ListAfterRead ==
  ASSUME TypeOK, NEW k \in 1 .. Len(rx), poe_stream_msg_cb(k)
  PROVE  /\ pending = <<>> => pending' = <<>> /\ errTimer' = errTimer
         /\ ~errTimer' => ~errTimer
         /\ errTimer => errTimer'
         /\ errTimer' /\ ~errTimer => pending' # <<>> /\ pending # <<>>
BY ReadEffect, ConsumeEffect

(* Stop and wait for every number of strays, losses and restarts: the      *)
(* daemon leaves at most one command unanswered per stray reply plus one,  *)
(* and sends nothing while it waits for the MCU to recover.                *)
THEOREM StopAndWaitHolds == Spec => []StopAndWait
<1>1. Init => StopAndWait
  <2> SUFFICES ASSUME Init PROVE StopAndWait
    OBVIOUS
  <2>1. PICK b \in Batch : pending = Stamp(b, 0, 0)
    BY DEF Init
  <2>2. pending # <<>>
    BY <2>1, StampType
  <2>3. Len(tx) = 1 /\ Len(rx) = 0 /\ errTimer = FALSE /\ strays = 0
    BY DEF Init
  <2>4. QED
    BY <2>2, <2>3 DEF StopAndWait, Outstanding
<1>2. TypeOK /\ StopAndWait /\ [Next]_vars => StopAndWait'
  <2> SUFFICES ASSUME TypeOK, StopAndWait, [Next]_vars PROVE StopAndWait'
    OBVIOUS
  <2> USE DEF StopAndWait, Outstanding
  <2>0. Len(tx) \in Nat /\ Len(rx) \in Nat /\ strays \in Nat /\ errTimer \in BOOLEAN
    BY DEF TypeOK
  <2>1. ASSUME NEW b \in Batch, poe_cmd_queue(b) PROVE StopAndWait'
    BY <2>0, <2>1, QueueEffect
  <2>2. ASSUME NEW k \in 1 .. Len(rx), poe_stream_msg_cb(k) PROVE StopAndWait'
    BY <2>0, <2>2, ReadEffect, ListAfterRead
  <2>3. CASE mcu_clear_timeout
    BY <2>0, <2>3, LineEffect
  <2>4. ASSUME NEW st \in {"ok", "f0", "bad"}, McuAnswer(st) PROVE StopAndWait'
    BY <2>0, <2>4, LineEffect
  <2>5. CASE LineStray
    BY <2>0, <2>5, LineEffect
  <2>6. CASE LineLose
    BY <2>0, <2>6, LineEffect
  <2>7. ASSUME NEW b \in Batch, Restart(b) PROVE StopAndWait'
    BY <2>0, <2>7, RestartEffect
  <2>8. CASE UNCHANGED vars
    BY <2>8 DEF vars
  <2>9. QED
    BY <2>1, <2>2, <2>3, <2>4, <2>5, <2>6, <2>7, <2>8
       DEF Next, Queue, Read, Mcu
<1>3. QED
  BY <1>1, <1>2, TypeCorrect, PTL DEF Spec

(* As long as no frame is lost, a non-empty list has the retry timer       *)
(* running or a frame on its way that will call poe_stream_msg_cb: the     *)
(* queue cannot stall, whatever the MCU answers and whatever noise adds.   *)
THEOREM NoStallHolds == Spec => []NoStall
<1>1. Init => NoStall
  <2> SUFFICES ASSUME Init PROVE NoStall
    OBVIOUS
  <2>1. Len(tx) = 1 /\ Len(rx) = 0 /\ held = 0
    BY DEF Init
  <2>2. QED
    BY <2>1 DEF NoStall
<1>2. TypeOK /\ NoStall /\ [Next]_vars => NoStall'
  <2> SUFFICES ASSUME TypeOK, NoStall, [Next]_vars PROVE NoStall'
    OBVIOUS
  <2> USE DEF NoStall
  <2>0. /\ Len(tx) \in Nat /\ Len(rx) \in Nat /\ lost \in Nat
        /\ errTimer \in BOOLEAN /\ held \in 0 .. Len(rx)
    BY DEF TypeOK
  <2>1. ASSUME NEW b \in Batch, poe_cmd_queue(b) PROVE NoStall'
    BY <2>0, <2>1, QueueEffect
  <2>2. ASSUME NEW k \in 1 .. Len(rx), poe_stream_msg_cb(k) PROVE NoStall'
    BY <2>0, <2>2, ReadEffect
  <2>3. CASE mcu_clear_timeout
    BY <2>0, <2>3, LineEffect
  <2>4. ASSUME NEW st \in {"ok", "f0", "bad"}, McuAnswer(st) PROVE NoStall'
    BY <2>0, <2>4, LineEffect
  <2>5. CASE LineStray
    BY <2>0, <2>5, LineEffect
  <2>6. CASE LineLose
    BY <2>0, <2>6, LineEffect
  <2>7. ASSUME NEW b \in Batch, Restart(b) PROVE NoStall'
    BY <2>0, <2>7, RestartEffect
  <2>8. CASE UNCHANGED vars
    BY <2>8 DEF vars
  <2>9. QED
    BY <2>1, <2>2, <2>3, <2>4, <2>5, <2>6, <2>7, <2>8
       DEF Next, Queue, Read, Mcu
<1>3. QED
  BY <1>1, <1>2, TypeCorrect, PTL DEF Spec

-----------------------------------------------------------------------------
(* The order of commands.                                                  *)

(* poe_cmd_next leaves what was on the line alone and adds the head.       *)
LEMMA CmdNextElems ==
  ASSUME NEW q \in Seq(Cmd), NEW timer \in BOOLEAN, NEW t \in Seq(Frame)
  PROVE  LET u == poe_cmd_next(q, timer, t) IN
         /\ \A i \in 1 .. Len(t) : u[i] = t[i]
         /\ \A i \in 1 .. Len(u) : i \in 1 .. Len(t) \/ (q # <<>> /\ u[i] = q[1].frame)
BY DEF poe_cmd_next

(* The part of OrderInv about the list, and the part about the line when   *)
(* the newest command that may have been sent is m.                        *)
ListInv == /\ Len(pending) <= accepted
           /\ \A i \in 1 .. Len(pending) :
                pending[i].frame.n = accepted - Len(pending) + i

LineInv(t, a, m) ==
  /\ \A i \in 1 .. Len(t) : a <= t[i].n /\ t[i].n <= m
  /\ \A i, j \in 1 .. Len(t) : i <= j => t[i].n <= t[j].n
  /\ a <= m

(* Sending the head keeps the line in order.                               *)
LEMMA SendKeepsOrder ==
  ASSUME NEW q \in Seq(Cmd), NEW timer \in BOOLEAN, NEW t \in Seq(Frame),
         NEW a \in Nat, NEW m \in Nat, NEW m2 \in Nat,
         LineInv(t, a, m), m <= m2,
         q # <<>> => q[1].frame.n = m2
  PROVE  LineInv(poe_cmd_next(q, timer, t), a, m2)
<1> DEFINE u == poe_cmd_next(q, timer, t)
<1>1. \A i \in 1 .. Len(t) : t[i].n \in Nat
  <2>1. \A i \in 1 .. Len(t) : t[i] \in Frame
    OBVIOUS
  <2>2. QED
    BY <2>1 DEF Frame
<1>2. /\ Len(u) = Len(t) + (IF q # <<>> /\ ~timer THEN 1 ELSE 0)
      /\ Len(t) \in Nat
      /\ \A i \in 1 .. Len(t) : u[i] = t[i]
      /\ \A i \in 1 .. Len(u) : i \in 1 .. Len(t) \/ (q # <<>> /\ u[i] = q[1].frame)
  BY CmdNextType, CmdNextElems
<1> HIDE DEF u
<1>3. \A i \in 1 .. Len(u) : a <= u[i].n /\ u[i].n <= m2 /\ u[i].n \in Nat
  BY <1>1, <1>2 DEF LineInv
<1>4. \A i, j \in 1 .. Len(u) : i <= j => u[i].n <= u[j].n
  <2> SUFFICES ASSUME NEW i \in 1 .. Len(u), NEW j \in 1 .. Len(u), i <= j
               PROVE  u[i].n <= u[j].n
    OBVIOUS
  <2>1. CASE j \in 1 .. Len(t)
    BY <1>2, <2>1 DEF LineInv
  <2>2. CASE j \notin 1 .. Len(t)
    BY <1>2, <1>3, <2>2
  <2>3. QED
    BY <2>1, <2>2
<1>5. QED
  BY <1>3, <1>4 DEF LineInv, u

(* Keeping the line, or taking its oldest frame off, keeps it in order.    *)
LEMMA TailKeepsOrder ==
  ASSUME NEW t \in Seq(Frame), NEW a \in Nat, NEW m \in Nat,
         LineInv(t, a, m), t # <<>>
  PROVE  /\ LineInv(Tail(t), a, m)
         /\ LineInv(Tail(t), Head(t).n, m)
         /\ a <= Head(t).n /\ Head(t).n \in Nat
<1>1. /\ Tail(t) \in Seq(Frame) /\ Len(Tail(t)) = Len(t) - 1 /\ Len(t) \in Nat \ {0}
      /\ \A i \in 1 .. Len(t) - 1 : Tail(t)[i] = t[i + 1]
      /\ Head(t) = t[1]
  OBVIOUS
<1>2. \A i \in 1 .. Len(t) : t[i].n \in Nat
  <2>1. \A i \in 1 .. Len(t) : t[i] \in Frame
    OBVIOUS
  <2>2. QED
    BY <2>1 DEF Frame
<1> DEFINE u == Tail(t)
<1> HIDE DEF u
<1>3. Len(u) = Len(t) - 1 /\ \A i \in 1 .. Len(t) - 1 : u[i] = t[i + 1]
  BY <1>1 DEF u
<1>4. LineInv(u, a, m) /\ LineInv(u, t[1].n, m) /\ a <= t[1].n
  BY <1>1, <1>2, <1>3 DEF LineInv
<1>5. QED
  BY <1>1, <1>2, <1>4 DEF u

(* The number of the newest command that may have been sent never falls.   *)
LEMMA SentUpToType ==
  ASSUME TypeOK, OrderInv
  PROVE  /\ SentUpTo \in Nat /\ SentUpTo <= accepted
         /\ pending # <<>> => pending[1].frame.n = SentUpTo
         /\ Len(pending) \in Nat /\ accepted \in Nat
<1>1. Len(pending) \in Nat /\ accepted \in Nat /\ (pending = <<>> <=> Len(pending) = 0)
  BY DEF TypeOK
<1>2. QED
  BY <1>1 DEF OrderInv, SentUpTo

(* OrderInv holds throughout, retries, losses, strays and restarts         *)
(* included.                                                               *)
THEOREM OrderHolds == Spec => []OrderInv
<1>1. Init => OrderInv
  <2> SUFFICES ASSUME Init PROVE OrderInv
    OBVIOUS
  <2>1. PICK b \in Batch : /\ pending = Stamp(b, 0, 0)
                           /\ tx = <<pending[1].frame>>
                           /\ accepted = Len(b)
                           /\ applied = 0
    BY DEF Init
  <2>a. PICK zero \in Nat : zero = 0
    OBVIOUS
  <2>b. /\ Len(Stamp(b, zero, zero)) = Len(b) /\ Len(b) \in Nat \ {0}
        /\ \A i \in 1 .. Len(b) : Stamp(b, zero, zero)[i].frame.n = zero + i
    BY StampType
  <2>2. /\ Len(pending) = Len(b) /\ Len(b) \in Nat \ {0}
        /\ \A i \in 1 .. Len(b) : pending[i].frame.n = 0 + i
    BY <2>1, <2>a, <2>b
  <2>3. pending # <<>>
    BY <2>1, <2>2, StampType
  <2>4. Len(tx) = 1 /\ tx[1].n = 1
    BY <2>1, <2>2
  <2>5. QED
    BY <2>1, <2>2, <2>3, <2>4 DEF OrderInv, SentUpTo
<1>2. TypeOK /\ TypeOK' /\ OrderInv /\ [Next]_vars => OrderInv'
  <2> SUFFICES ASSUME TypeOK, TypeOK', OrderInv, [Next]_vars PROVE OrderInv'
    OBVIOUS
  <2> DEFINE m == SentUpTo
  <2>0. /\ m \in Nat /\ m <= accepted
        /\ pending # <<>> => pending[1].frame.n = m
        /\ Len(pending) \in Nat /\ accepted \in Nat /\ applied \in Nat
        /\ tx \in Seq(Frame) /\ pending \in Seq(Cmd) /\ errTimer \in BOOLEAN
        /\ pending = <<>> <=> Len(pending) = 0
    BY SentUpToType DEF TypeOK
  <2>i. ListInv /\ LineInv(tx, applied, m)
    BY DEF OrderInv, ListInv, LineInv
  <2> SUFFICES ListInv' /\ LineInv(tx, applied, SentUpTo)'
    BY DEF OrderInv, ListInv, LineInv
  <2>j. /\ pending' \in Seq(Cmd) /\ Len(pending') \in Nat /\ accepted' \in Nat
        /\ pending' = <<>> <=> Len(pending') = 0
        /\ errTimer' \in BOOLEAN
    BY DEF TypeOK
  <2>k. ListInv' => /\ SentUpTo' \in Nat
                    /\ pending' # <<>> => pending'[1].frame.n = SentUpTo'
    BY <2>j DEF ListInv, SentUpTo
  <2>1. ASSUME NEW b \in Batch, poe_cmd_queue(b)
        PROVE  ListInv' /\ LineInv(tx, applied, SentUpTo)'
    <3> DEFINE new == Stamp(b, cmd_seq, accepted)
    <3>1. /\ new \in Seq(Cmd) /\ Len(new) = Len(b) /\ Len(b) \in Nat \ {0}
          /\ \A i \in 1 .. Len(b) : new[i].frame.n = accepted + i
      <4>1. cmd_seq \in Nat /\ accepted \in Nat
        BY DEF TypeOK
      <4>2. QED
        BY <4>1, StampType
    <3>2. /\ pending' = pending \o new /\ accepted' = accepted + Len(b)
          /\ applied' = applied
          /\ tx' = IF pending = <<>> THEN poe_cmd_next(pending', errTimer, tx) ELSE tx
      BY <2>1 DEF poe_cmd_queue
    <3> HIDE DEF new
    <3>3. /\ Len(pending') = Len(pending) + Len(b)
          /\ \A i \in 1 .. Len(pending) + Len(b) :
               pending'[i] = IF i <= Len(pending) THEN pending[i] ELSE new[i - Len(pending)]
      <4>1. pending' = pending \o new
        BY <3>2
      <4>2. /\ Len(pending \o new) = Len(pending) + Len(new)
            /\ \A i \in 1 .. Len(pending) + Len(new) : (pending \o new)[i]
                 = IF i <= Len(pending) THEN pending[i] ELSE new[i - Len(pending)]
        <5>1. pending \in Seq(Cmd) /\ new \in Seq(Cmd)
          BY <2>0, <3>1
        <5>2. QED
          BY <5>1, ConcatProperties
      <4>3. Len(new) = Len(b)
        BY <3>1
      <4>4. QED
        BY <4>1, <4>2, <4>3
    <3>4. ListInv'
      <4>1. Len(pending') <= accepted'
        BY <2>0, <2>i, <3>1, <3>2, <3>3 DEF ListInv
      <4>2. ASSUME NEW i \in 1 .. Len(pending')
            PROVE  pending'[i].frame.n = accepted' - Len(pending') + i
        <5>1. CASE i <= Len(pending)
          BY <2>0, <2>i, <3>1, <3>2, <3>3, <4>2, <5>1 DEF ListInv
        <5>2. CASE i > Len(pending)
          BY <2>0, <3>1, <3>2, <3>3, <4>2, <5>2
        <5>3. QED
          BY <2>0, <3>1, <3>3, <5>1, <5>2
      <4>3. QED
        BY <4>1, <4>2 DEF ListInv
    <3>5. SentUpTo' >= m /\ (pending # <<>> => SentUpTo' = m)
      BY <2>0, <2>j, <3>1, <3>2, <3>3 DEF SentUpTo
    <3>6. CASE pending = <<>>
      <4>1. LineInv(tx', applied, SentUpTo')
        BY <2>0, <2>i, <2>j, <2>k, <3>2, <3>4, <3>5, <3>6, SendKeepsOrder
      <4>2. QED
        BY <3>2, <3>4, <4>1 DEF LineInv
    <3>7. CASE pending # <<>>
      BY <2>i, <3>2, <3>4, <3>5, <3>7 DEF LineInv
    <3>8. QED
      BY <3>6, <3>7
  <2>2. ASSUME NEW k \in 1 .. Len(rx), poe_stream_msg_cb(k)
        PROVE  ListInv' /\ LineInv(tx, applied, SentUpTo)'
    <3>1. /\ UNCHANGED <<accepted, applied, executions>>
          /\ tx' = poe_cmd_next(pending', errTimer', tx)
      BY <2>2, ReadEffect
    <3>2. \/ pending' = pending
          \/ pending # <<>> /\ pending' = Tail(pending)
          \/ /\ Len(pending') = Len(pending)
             /\ \A i \in 1 .. Len(pending) : pending'[i].frame = pending[i].frame
      BY <2>2, ReadEffect, ConsumeEffect
    <3>3. ListInv' /\ SentUpTo' >= m
      <4>1. CASE pending' = pending
        BY <2>0, <2>i, <3>1, <4>1 DEF ListInv, SentUpTo
      <4>2. CASE pending # <<>> /\ pending' = Tail(pending)
        <5>1. /\ Len(pending') = Len(pending) - 1
              /\ \A i \in 1 .. Len(pending) - 1 : pending'[i] = pending[i + 1]
          BY <2>0, <4>2
        <5>2. ListInv'
          <6>1. accepted' = accepted
            BY <3>1
          <6>2. /\ accepted \in Nat /\ Len(pending) \in Nat /\ Len(pending) <= accepted
                /\ \A i \in 1 .. Len(pending) :
                     pending[i].frame.n = accepted - Len(pending) + i
            BY <2>0, <2>i DEF ListInv
          <6>3. Len(pending') <= accepted'
            BY <5>1, <6>1, <6>2
          <6>4. \A i \in 1 .. Len(pending') :
                  pending'[i].frame.n = accepted' - Len(pending') + i
            <7> TAKE i \in 1 .. Len(pending')
            <7>1. i + 1 \in 1 .. Len(pending) /\ pending'[i] = pending[i + 1]
              BY <5>1, <6>2
            <7>2. pending[i + 1].frame.n = accepted - Len(pending) + (i + 1)
              BY <6>2, <7>1
            <7>3. QED
              BY <5>1, <6>1, <6>2, <7>1, <7>2
          <6>5. QED
            BY <6>3, <6>4 DEF ListInv
        <5>3. SentUpTo' >= m
          BY <2>0, <2>j, <3>1, <4>2, <5>1 DEF SentUpTo
        <5>4. QED
          BY <5>2, <5>3
      <4>3. CASE /\ Len(pending') = Len(pending)
                 /\ \A i \in 1 .. Len(pending) : pending'[i].frame = pending[i].frame
        <5>1. SentUpTo' = m
          BY <2>0, <2>j, <3>1, <4>3 DEF SentUpTo
        <5>2. \A i \in 1 .. Len(pending') :
                pending'[i].frame.n = accepted' - Len(pending') + i
          BY <2>i, <3>1, <4>3 DEF ListInv
        <5>3. QED
          BY <2>0, <2>i, <3>1, <4>3, <5>1, <5>2 DEF ListInv
      <4>4. QED
        BY <3>2, <4>1, <4>2, <4>3
    <3>4. LineInv(tx', applied, SentUpTo')
      BY <2>0, <2>i, <2>j, <2>k, <3>1, <3>3, SendKeepsOrder
    <3>5. QED
      BY <3>1, <3>3, <3>4 DEF LineInv
  <2>3. CASE mcu_clear_timeout
    <3>1. UNCHANGED <<pending, accepted, applied>>
      BY <2>3 DEF mcu_clear_timeout, history
    <3>2. SentUpTo' = m /\ ListInv'
      BY <2>i, <3>1 DEF SentUpTo, ListInv
    <3>3. tx' = poe_cmd_next(pending, FALSE, tx)
      BY <2>3 DEF mcu_clear_timeout
    <3>3a. LineInv(tx', applied, m)
      <4>1. m <= m /\ FALSE \in BOOLEAN
        BY <2>0
      <4>2. QED
        BY <2>0, <2>i, <3>3, <4>1, SendKeepsOrder
    <3>4. QED
      BY <3>1, <3>2, <3>3a DEF LineInv
  <2>4. ASSUME NEW st \in {"ok", "f0", "bad"}, McuAnswer(st)
        PROVE  ListInv' /\ LineInv(tx, applied, SentUpTo)'
    <3>1. UNCHANGED <<pending, accepted>>
      BY <2>4 DEF McuAnswer
    <3>2. SentUpTo' = m /\ ListInv'
      BY <2>i, <3>1 DEF SentUpTo, ListInv
    <3>3. LineInv(tx', applied', m)
      BY <2>0, <2>i, <2>4, TailKeepsOrder DEF McuAnswer
    <3>4. QED
      BY <3>2, <3>3 DEF LineInv
  <2>5. CASE LineStray
    BY <2>5, <2>i DEF LineStray, ListInv, LineInv, SentUpTo
  <2>6. CASE LineLose
    <3>1. UNCHANGED <<pending, accepted, applied>>
      BY <2>6 DEF LineLose
    <3>2. SentUpTo' = m /\ ListInv'
      BY <2>i, <3>1 DEF SentUpTo, ListInv
    <3>3. LineInv(tx', applied, m)
      BY <2>0, <2>i, <2>6, TailKeepsOrder DEF LineLose
    <3>4. QED
      BY <3>1, <3>2, <3>3 DEF LineInv
  <2>7. ASSUME NEW b \in Batch, Restart(b)
        PROVE  ListInv' /\ LineInv(tx, applied, SentUpTo)'
    <3>1. /\ pending' = Stamp(b, 0, accepted) /\ accepted' = accepted + Len(b)
          /\ applied' = applied
          /\ tx' = poe_cmd_next(pending', FALSE, tx)
      BY <2>7 DEF Restart
    <3>2. /\ Len(pending') = Len(b) /\ Len(b) \in Nat \ {0}
          /\ \A i \in 1 .. Len(b) : pending'[i].frame.n = accepted + i
      BY <2>0, <3>1, StampType
    <3>3. ListInv'
      <4>1. Len(pending') <= accepted'
        BY <2>0, <3>1, <3>2
      <4>2. \A i \in 1 .. Len(pending') :
              pending'[i].frame.n = accepted' - Len(pending') + i
        <5>1. accepted' = accepted + Len(b)
          BY <3>1
        <5>2. QED
          BY <2>0, <3>2, <5>1
      <4>3. QED
        BY <4>1, <4>2 DEF ListInv
    <3>4. SentUpTo' >= m
      BY <2>0, <2>j, <3>1, <3>2 DEF SentUpTo
    <3>5. LineInv(tx', applied, SentUpTo')
      BY <2>0, <2>i, <2>j, <2>k, <3>1, <3>3, <3>4, SendKeepsOrder
    <3>6. QED
      BY <3>1, <3>3, <3>5 DEF LineInv
  <2>8. CASE UNCHANGED vars
    BY <2>8, <2>i DEF vars, ListInv, LineInv, SentUpTo
  <2>9. QED
    BY <2>1, <2>2, <2>3, <2>4, <2>5, <2>6, <2>7, <2>8
       DEF Next, Queue, Read, Mcu
<1>3. QED
  BY <1>1, <1>2, TypeCorrect, PTL DEF Spec

(* The MCU never executes an older command after a newer one, whatever is  *)
(* rejected, lost or repeated and however often the daemon restarts: the   *)
(* last setting of a port that is executed is the last one asked for.      *)
THEOREM NeverReorderedHolds == Spec => NeverReordered
<1>1. TypeOK /\ OrderInv /\ [Next]_vars => [applied' >= applied]_vars
  <2> SUFFICES ASSUME TypeOK, OrderInv, [Next]_vars PROVE applied' >= applied
    OBVIOUS
  <2>0. applied \in Nat /\ tx \in Seq(Frame)
    BY DEF TypeOK
  <2>1. ASSUME NEW st \in {"ok", "f0", "bad"}, McuAnswer(st)
        PROVE  applied' >= applied
    <3>1. tx # <<>> /\ applied' = IF st = "f0" THEN applied ELSE Head(tx).n
      BY <2>1 DEF McuAnswer
    <3>2. applied <= Head(tx).n
      BY <2>0, <3>1 DEF OrderInv
    <3>3. Head(tx).n \in Nat
      <4>1. Head(tx) \in Frame
        BY <2>0, <3>1
      <4>2. QED
        BY <4>1 DEF Frame
    <3>4. QED
      BY <2>0, <3>1, <3>2, <3>3
  <2>2. ASSUME applied' = applied PROVE applied' >= applied
    BY <2>0, <2>2
  <2>3. ASSUME NEW b \in Batch, poe_cmd_queue(b) PROVE applied' = applied
    BY <2>3 DEF poe_cmd_queue
  <2>4. ASSUME NEW k \in 1 .. Len(rx), poe_stream_msg_cb(k) PROVE applied' = applied
    BY <2>4 DEF poe_stream_msg_cb, history
  <2>5. ASSUME NEW b \in Batch, Restart(b) PROVE applied' = applied
    BY <2>5 DEF Restart
  <2>6. ASSUME mcu_clear_timeout \/ LineStray \/ LineLose \/ UNCHANGED vars
        PROVE  applied' = applied
    BY <2>6 DEF mcu_clear_timeout, LineStray, LineLose, vars, history
  <2>7. QED
    BY <2>1, <2>2, <2>3, <2>4, <2>5, <2>6 DEF Next, Queue, Read, Mcu
<1>2. QED
  BY <1>1, TypeCorrect, OrderHolds, PTL DEF Spec, NeverReordered

(* The backlog in the read buffer of the ustream is at most the number of  *)
(* stray replies: poe_stream_msg_cb takes one frame of at most one plus    *)
(* the strays (StopAndWait).                                               *)
THEOREM BacklogIsSurplusHolds == Spec => []BacklogIsSurplus
<1>1. Init => BacklogIsSurplus
  BY DEF Init, BacklogIsSurplus
<1>2. TypeOK /\ StopAndWait /\ BacklogIsSurplus /\ [Next]_vars => BacklogIsSurplus'
  <2> SUFFICES ASSUME TypeOK, StopAndWait, BacklogIsSurplus, [Next]_vars
               PROVE  held' <= strays'
    BY DEF BacklogIsSurplus
  <2>0. /\ held \in Nat /\ strays \in Nat /\ held <= strays
        /\ Len(tx) \in Nat /\ Len(rx) \in Nat
    BY DEF TypeOK, BacklogIsSurplus
  <2>1. ASSUME NEW k \in 1 .. Len(rx), poe_stream_msg_cb(k) PROVE held' <= strays'
    <3>1. Len(rx) <= 1 + strays
      BY <2>0 DEF StopAndWait, Outstanding
    <3>2. k \in 1 .. Len(rx) - held /\ held' = held + k - 1 /\ strays' = strays
      BY <2>1 DEF poe_stream_msg_cb, history
    <3>3. QED
      BY <2>0, <3>1, <3>2
  <2>2. ASSUME NEW b \in Batch, Restart(b) PROVE held' <= strays'
    BY <2>0, <2>2 DEF Restart
  <2>3. ASSUME NEW b \in Batch, poe_cmd_queue(b) PROVE UNCHANGED <<held, strays>>
    BY <2>3 DEF poe_cmd_queue
  <2>4. ASSUME NEW st \in {"ok", "f0", "bad"}, McuAnswer(st)
        PROVE  UNCHANGED <<held, strays>>
    BY <2>4 DEF McuAnswer
  <2>5. ASSUME mcu_clear_timeout \/ LineLose \/ UNCHANGED vars
        PROVE  UNCHANGED <<held, strays>>
    BY <2>5 DEF mcu_clear_timeout, LineLose, vars, history
  <2>6. ASSUME LineStray PROVE held' <= strays'
    BY <2>0, <2>6 DEF LineStray
  <2>7. UNCHANGED <<held, strays>> => held' <= strays'
    BY <2>0
  <2>8. QED
    BY <2>1, <2>2, <2>3, <2>4, <2>5, <2>6, <2>7 DEF Next, Queue, Read, Mcu
<1>3. QED
  BY <1>1, <1>2, TypeCorrect, StopAndWaitHolds, PTL DEF Spec

(* Without strays nothing else is under way while a command, its reply or  *)
(* its retry is.                                                           *)
LEMMA InStep ==
  ASSUME TypeOK, StopAndWait, strays = 0
  PROVE  /\ tx # <<>> => Len(tx) = 1 /\ rx = <<>> /\ ~errTimer /\ pending # <<>>
         /\ rx # <<>> => Len(rx) = 1 /\ tx = <<>> /\ ~errTimer /\ pending # <<>>
         /\ errTimer => tx = <<>> /\ rx = <<>> /\ pending # <<>>
<1>1. /\ Len(tx) \in Nat /\ Len(rx) \in Nat
      /\ tx = <<>> <=> Len(tx) = 0
      /\ rx = <<>> <=> Len(rx) = 0
  BY DEF TypeOK
<1>2. PICK t \in 0 .. 1, e \in 0 .. 1 :
        /\ errTimer <=> t = 1
        /\ pending = <<>> <=> e = 1
        /\ Len(tx) + Len(rx) + t + e <= 1
  <2>1. CASE errTimer
    BY <1>1, <2>1 DEF StopAndWait, Outstanding
  <2>2. CASE ~errTimer
    BY <1>1, <2>2 DEF StopAndWait, Outstanding
  <2>3. QED
    BY <2>1, <2>2
<1>3. \A x, y \in Nat : x + y + t + e <= 1 =>
        /\ x # 0 => x = 1 /\ y = 0 /\ t = 0 /\ e = 0
        /\ y # 0 => y = 1 /\ x = 0 /\ t = 0 /\ e = 0
        /\ t = 1 => x = 0 /\ y = 0 /\ e = 0
  OBVIOUS
<1>4. /\ Len(tx) # 0 => Len(tx) = 1 /\ Len(rx) = 0 /\ t = 0 /\ e = 0
      /\ Len(rx) # 0 => Len(rx) = 1 /\ Len(tx) = 0 /\ t = 0 /\ e = 0
      /\ t = 1 => Len(tx) = 0 /\ Len(rx) = 0 /\ e = 0
  BY <1>1, <1>2, <1>3
<1>5. QED
  BY <1>1, <1>2, <1>4

(* Without strays a command that the MCU rejected, that waits for its       *)
(* retry or that is on its way has not been executed.                       *)
THEOREM OnceHolds == Spec => []OnceInv
<1>1. Init => OnceInv
  <2> SUFFICES ASSUME Init PROVE OnceInv
    OBVIOUS
  <2>1. PICK b \in Batch : /\ pending = Stamp(b, 0, 0)
                           /\ tx = <<pending[1].frame>>
                           /\ applied = 0
    BY DEF Init
  <2>2. pending[1].frame.n = 1
    BY <2>1, StampType
  <2>3. QED
    BY <2>1, <2>2 DEF OnceInv
<1>2. TypeOK /\ StopAndWait /\ OrderInv /\ OnceInv /\ TypeOK' /\ OrderInv' /\ [Next]_vars
        => OnceInv'
  <2> SUFFICES ASSUME TypeOK, StopAndWait, OrderInv, OnceInv, TypeOK', OrderInv',
                      [Next]_vars, strays' = 0, pending' # <<>>,
                      tx' # <<>> \/ errTimer' \/ (rx' # <<>> /\ rx'[1].st = "f0")
               PROVE  /\ applied' < pending'[1].frame.n
                      /\ tx' # <<>> => tx'[1].n = pending'[1].frame.n
    BY DEF OnceInv
  <2> DEFINE Goal == /\ applied' < pending'[1].frame.n
                     /\ tx' # <<>> => tx'[1].n = pending'[1].frame.n
  <2>a. /\ SentUpTo \in Nat /\ SentUpTo <= accepted /\ applied <= SentUpTo
        /\ pending # <<>> => pending[1].frame.n = SentUpTo
        /\ pending'[1].frame.n = SentUpTo'
        /\ Len(pending) \in Nat /\ accepted \in Nat /\ applied \in Nat
        /\ pending \in Seq(Cmd) /\ tx \in Seq(Frame) /\ rx \in Seq(Reply)
        /\ pending' \in Seq(Cmd)
        /\ Len(tx) \in Nat /\ strays \in Nat
    <3>1. pending'[1].frame.n = SentUpTo'
      <4>1. pending' \in Seq(Cmd) /\ accepted' \in Nat
        BY DEF TypeOK
      <4>2. Len(pending') \in Nat /\ 1 \in 1 .. Len(pending')
        BY <4>1
      <4>3. pending'[1].frame.n = accepted' - Len(pending') + 1
        BY <4>2 DEF OrderInv
      <4>4. SentUpTo' = accepted' - Len(pending') + 1
        BY DEF SentUpTo
      <4>5. QED
        BY <4>3, <4>4
    <3>2. QED
      BY <3>1, SentUpToType DEF TypeOK, OrderInv
  (* Sending the head of the list on an empty line. *)
  <2>b. ASSUME tx = <<>>, NEW timer \in BOOLEAN,
               tx' = poe_cmd_next(pending', timer, tx)
        PROVE  tx' # <<>> => tx'[1].n = pending'[1].frame.n
    <3> DEFINE u == poe_cmd_next(pending', timer, tx)
    <3>0. /\ u \in Seq(Frame)
          /\ \A i \in 1 .. Len(u) : i \in 1 .. Len(tx) \/ u[i] = pending'[1].frame
      <4>1. pending' \in Seq(Cmd) /\ tx \in Seq(Frame)
        BY <2>a
      <4>2. QED
        BY <4>1, CmdNextElems, CmdNextType
    <3>1. /\ tx' \in Seq(Frame)
          /\ \A i \in 1 .. Len(tx') : i \in 1 .. Len(tx) \/ tx'[i] = pending'[1].frame
      BY <2>b, <3>0
    <3>2. tx' # <<>> => 1 \in 1 .. Len(tx')
      BY <3>1
    <3>3. 1 \notin 1 .. Len(tx)
      BY <2>b
    <3>4. QED
      BY <3>1, <3>2, <3>3
  <2>1. ASSUME NEW b \in Batch, poe_cmd_queue(b) PROVE Goal
    <3>0. /\ UNCHANGED <<errTimer, rx, applied, strays>>
          /\ pending' # <<>> /\ Len(pending') = Len(pending) + Len(b)
          /\ Len(b) \in Nat \ {0}
      BY <2>1, QueueEffect
    <3>1. CASE pending = <<>>
      <4>1. tx = <<>>
        BY <3>0, <3>1, InStep
      <4>2. tx' = poe_cmd_next(pending', errTimer, tx)
        BY <2>1, <3>1 DEF poe_cmd_queue
      <4>3. tx' # <<>> => tx'[1].n = pending'[1].frame.n
        BY <2>b, <4>1, <4>2 DEF TypeOK
      <4>4. SentUpTo' = accepted + 1
        <5>1. accepted' = accepted + Len(b) /\ Len(pending) = 0
          BY <2>1, <3>1 DEF poe_cmd_queue
        <5>2. QED
          BY <2>a, <3>0, <5>1 DEF SentUpTo
      <4>5. QED
        BY <2>a, <3>0, <4>3, <4>4
    <3>2. CASE pending # <<>>
      <4>1. tx' = tx /\ accepted' = accepted + Len(b)
        BY <2>1, <3>2 DEF poe_cmd_queue
      <4>2. SentUpTo' = SentUpTo
        BY <2>a, <3>0, <3>2, <4>1 DEF SentUpTo
      <4>3. QED
        BY <2>a, <3>0, <3>2, <4>1, <4>2 DEF OnceInv
    <3>3. QED
      BY <3>1, <3>2
  <2>2. ASSUME NEW k \in 1 .. Len(rx), poe_stream_msg_cb(k) PROVE Goal
    <3>1. /\ rx # <<>> /\ rx' = Tail(rx) /\ Len(rx') = Len(rx) - 1
          /\ tx' = poe_cmd_next(pending', errTimer', tx)
          /\ UNCHANGED <<accepted, applied, strays>>
          /\ poe_reply_consume(Head(rx))
      BY <2>2, ReadEffect
    <3>2. Len(rx) = 1 /\ tx = <<>> /\ ~errTimer /\ pending # <<>>
      BY <3>1, InStep
    <3>3. tx' # <<>> => tx'[1].n = pending'[1].frame.n
      BY <2>b, <3>1, <3>2 DEF TypeOK
    <3>4. CASE pending' = Tail(pending)
      <4>1. Len(pending') = Len(pending) - 1
        BY <2>a, <3>2, <3>4
      <4>2. SentUpTo' = SentUpTo + 1
        BY <2>a, <3>1, <3>2, <4>1 DEF SentUpTo
      <4>3. QED
        BY <2>a, <3>1, <3>3, <4>2
    <3>5. CASE Head(rx).st = "f0" /\ Len(pending') = Len(pending)
      <4>1. SentUpTo' = SentUpTo
        BY <2>a, <3>1, <3>2, <3>5 DEF SentUpTo
      <4>2. applied < pending[1].frame.n
        BY <3>1, <3>2, <3>5 DEF OnceInv
      <4>3. QED
        BY <2>a, <3>1, <3>2, <3>3, <4>1, <4>2
    <3>6. QED
      BY <3>1, <3>2, <3>4, <3>5, ConsumeEffect
  <2>3. ASSUME mcu_clear_timeout PROVE Goal
    <3>1. /\ errTimer /\ tx' = poe_cmd_next(pending', FALSE, tx)
          /\ UNCHANGED <<pending, accepted, applied, strays>>
      BY <2>3 DEF mcu_clear_timeout, history
    <3>2. tx = <<>>
      BY <3>1, InStep
    <3>3. tx' # <<>> => tx'[1].n = pending'[1].frame.n
      BY <2>b, <3>1, <3>2
    <3>4. applied < pending[1].frame.n
      BY <3>1 DEF OnceInv
    <3>5. QED
      BY <3>1, <3>3, <3>4
  <2>4. ASSUME NEW st \in {"ok", "f0", "bad"}, McuAnswer(st) PROVE Goal
    <3>1. /\ tx # <<>> /\ tx' = Tail(tx)
          /\ rx' = Append(rx, [st |-> st, req |-> Head(tx)])
          /\ applied' = IF st = "f0" THEN applied ELSE Head(tx).n
          /\ UNCHANGED <<pending, errTimer, strays>>
      BY <2>4 DEF McuAnswer
    <3>2. Len(tx) = 1 /\ rx = <<>> /\ ~errTimer
      BY <3>1, InStep
    <3>3. tx' = <<>>
      BY <2>a, <3>1, <3>2
    <3>4. rx'[1].st = st
      BY <3>1, <3>2
    <3>5. st = "f0"
      BY <3>1, <3>2, <3>3, <3>4
    <3>6. applied < pending[1].frame.n
      BY <3>1 DEF OnceInv
    <3>7. QED
      BY <3>1, <3>3, <3>5, <3>6
  <2>5. ASSUME LineStray PROVE Goal
    BY <2>5 DEF LineStray, TypeOK
  <2>6. ASSUME LineLose PROVE Goal
    <3>1. UNCHANGED <<pending, errTimer, applied, strays>>
      BY <2>6 DEF LineLose
    <3>2. CASE tx # <<>> /\ tx' = Tail(tx) /\ rx' = rx
      <4>1. Len(tx) = 1
        BY <3>1, <3>2, InStep
      <4>2. tx' = <<>>
        BY <2>a, <3>2, <4>1
      <4>3. QED
        BY <3>1, <3>2, <4>2 DEF OnceInv
    <3>3. CASE Len(rx) > held /\ rx' = SubSeq(rx, 1, Len(rx) - 1) /\ tx' = tx
      <4>1. rx' # <<>> => rx # <<>> /\ rx'[1] = rx[1]
        BY <3>3 DEF TypeOK
      <4>2. QED
        BY <3>1, <3>3, <4>1 DEF OnceInv
    <3>4. QED
      BY <2>6, <3>2, <3>3 DEF LineLose
  <2>7. ASSUME NEW b \in Batch, Restart(b) PROVE Goal
    <3>1. /\ Len(pending') = Len(b) /\ Len(b) \in Nat \ {0}
          /\ strays' = strays + Len(tx)
      BY <2>7, RestartEffect
    <3>2. /\ accepted' = accepted + Len(b) /\ applied' = applied
          /\ tx' = poe_cmd_next(pending', FALSE, tx)
      BY <2>7 DEF Restart
    <3>3. tx = <<>>
      BY <2>a, <3>1
    <3>4. tx' # <<>> => tx'[1].n = pending'[1].frame.n
      BY <2>b, <3>2, <3>3
    <3>5. SentUpTo' = accepted + 1
      BY <2>a, <3>1, <3>2 DEF SentUpTo
    <3>6. QED
      <4>1. applied' < SentUpTo'
        BY <2>a, <3>2, <3>5
      <4>2. QED
        BY <2>a, <3>4, <4>1
  <2>8. ASSUME UNCHANGED vars PROVE Goal
    BY <2>8 DEF vars, OnceInv
  <2>9. QED
    BY <2>1, <2>2, <2>3, <2>4, <2>5, <2>6, <2>7, <2>8
       DEF Next, Queue, Read, Mcu
<1>3. QED
  BY <1>1, <1>2, TypeCorrect, StopAndWaitHolds, OrderHolds, PTL DEF Spec

(* Without strays the MCU executes no command twice: a request on its way   *)
(* to it is newer than what it executed last (handle_poe_f0_reply retries   *)
(* only what was rejected).                                                 *)
THEOREM AtMostOnceHolds == Spec => []AtMostOnce
<1>1. TypeOK /\ StopAndWait /\ OnceInv => AtMostOnce
  BY InStep DEF OnceInv, AtMostOnce
<1>2. QED
  BY <1>1, TypeCorrect, StopAndWaitHolds, OnceHolds, PTL

-----------------------------------------------------------------------------
(* Until a stray frame or a restart disturbs it, the queue implements the   *)
(* serial executor of PoeService, whatever is lost on the line: every step  *)
(* of the daemon and of the MCU accepts, executes or retires in order, or   *)
(* changes nothing the service shows.                                       *)
THEOREM ImplementsHolds == Spec => Implements
<1> DEFINE Quiet == strays = 0 /\ restarts = 0
<1>1. TypeOK => (strays + restarts > 0 <=> ~Quiet)
  BY DEF TypeOK
<1>2. TypeOK /\ TypeOK' /\ ~Quiet /\ [Next]_vars => ~Quiet'
  <2> SUFFICES ASSUME TypeOK, TypeOK', ~Quiet, [Next]_vars PROVE ~Quiet'
    OBVIOUS
  <2>1. strays \in Nat /\ restarts \in Nat /\ strays' \in Nat /\ restarts' \in Nat
    BY DEF TypeOK
  <2>2. CASE LineStray
    BY <2>1, <2>2 DEF LineStray
  <2>3. ASSUME NEW b \in Batch, Restart(b) PROVE ~Quiet'
    BY <2>1, <2>3 DEF Restart
  <2>4. CASE UNCHANGED <<strays, restarts>>
    BY <2>4
  <2>5. QED
    BY <2>2, <2>3, <2>4
       DEF Next, Queue, Read, Mcu, poe_cmd_queue, poe_stream_msg_cb,
           mcu_clear_timeout, McuAnswer, LineLose, vars, history
<1>3. TypeOK /\ TypeOK' /\ ~Quiet' => Service!Next
  <2> SUFFICES ASSUME TypeOK, TypeOK', ~Quiet' PROVE Service!Next
    OBVIOUS
  <2>0. strays' \in Nat /\ restarts' \in Nat /\ (strays' # 0 \/ restarts' # 0)
    BY DEF TypeOK
  <2>s. \A s, r \in Nat : s # 0 \/ r # 0 => s + r > 0
    OBVIOUS
  <2>1. strays' + restarts' > 0
    BY <2>0, <2>s, Zenon
  <2>2. QED
    BY <2>1 DEF Service!Next
<1>4. TypeOK /\ Init => Service!Init
  <2> SUFFICES ASSUME TypeOK, Init PROVE Service!Init
    OBVIOUS
  <2>1. PICK b \in Batch : /\ pending = Stamp(b, 0, 0) /\ accepted = Len(b)
                          /\ applied = 0 /\ executions = 0
    BY DEF Init
  <2>2. Len(pending) = Len(b) /\ Len(b) \in Nat \ {0}
    BY <2>1, StampType
  <2>3. strays = 0 /\ restarts = 0
    BY DEF Init
  <2>4. QED
    BY <2>1, <2>2, <2>3 DEF Service!Init
<1>5. TypeOK /\ TypeOK' /\ StopAndWait /\ OrderInv /\ OnceInv /\ Quiet /\ Quiet'
        /\ [Next]_vars => [Service!Next]_(Service!serviceVars)
  <2> SUFFICES ASSUME TypeOK, TypeOK', StopAndWait, OrderInv, OnceInv, Quiet, Quiet',
                      [Next]_vars
               PROVE  [Service!Next]_(Service!serviceVars)
    OBVIOUS
  <2> DEFINE Same == UNCHANGED <<accepted, applied, executions>> /\ Len(pending') = Len(pending)
  <2>q. ~(strays + restarts > 0) /\ UNCHANGED (strays + restarts > 0)
    BY DEF TypeOK
  <2>0. accepted \in Nat /\ Len(pending) \in Nat /\ pending \in Seq(Cmd)
        /\ applied \in Nat /\ Len(pending) <= accepted
    BY DEF TypeOK, OrderInv
  <2>s. Same => UNCHANGED Service!serviceVars
    BY <2>q DEF Service!serviceVars
  <2>1. ASSUME NEW b \in Batch, poe_cmd_queue(b) PROVE Service!Accept
    <3>1. /\ accepted' = accepted + Len(b)
          /\ Len(pending') = Len(pending) + Len(b)
          /\ Len(b) \in Nat \ {0} /\ UNCHANGED <<applied, executions>>
      BY <2>1, QueueEffect DEF poe_cmd_queue
    <3>2. QED
      BY <2>0, <3>1 DEF Service!Accept
  <2>2. ASSUME NEW k \in 1 .. Len(rx), poe_stream_msg_cb(k)
        PROVE  Same \/ Service!Retire
    <3>1. UNCHANGED <<accepted, applied, executions>>
      BY <2>2 DEF poe_stream_msg_cb, history
    <3>2. poe_reply_consume(Head(rx))
      BY <2>2 DEF poe_stream_msg_cb
    <3>3. \/ Len(pending') = Len(pending)
          \/ Len(pending) > 0 /\ Len(pending') = Len(pending) - 1
      BY <2>0, <3>2, ConsumeEffect
    <3>4. QED
      BY <2>0, <3>1, <3>3 DEF Service!Retire
  <2>3. ASSUME mcu_clear_timeout PROVE Same
    BY <2>3 DEF mcu_clear_timeout, history
  <2>4. ASSUME NEW st \in {"ok", "f0", "bad"}, McuAnswer(st)
        PROVE  Same \/ Service!Execute
    <3>1. tx # <<>> /\ pending # <<>> /\ UNCHANGED <<accepted, pending>>
      BY <2>4, InStep DEF McuAnswer
    <3>2. Len(pending) > 0 /\ pending[1].frame.n = accepted - Len(pending) + 1
      BY <2>0, <3>1 DEF OrderInv
    <3>3. applied < pending[1].frame.n /\ Head(tx).n = pending[1].frame.n
      BY <3>1 DEF OnceInv, TypeOK
    <3>4. \/ UNCHANGED <<applied, executions>>
          \/ applied' = Head(tx).n /\ executions' = executions + 1
      BY <2>4 DEF McuAnswer
    <3>5. CASE UNCHANGED <<applied, executions>>
      BY <3>1, <3>5
    <3>6. CASE applied' = Head(tx).n /\ executions' = executions + 1
      BY <2>0, <3>1, <3>2, <3>3, <3>6 DEF Service!Execute
    <3>7. QED
      BY <3>4, <3>5, <3>6
  <2>5. ASSUME LineStray PROVE FALSE
    BY <2>5 DEF LineStray
  <2>6. ASSUME LineLose PROVE Same
    BY <2>6 DEF LineLose
  <2>7. ASSUME NEW b \in Batch, Restart(b) PROVE FALSE
    BY <2>7 DEF Restart
  <2>8. ASSUME UNCHANGED vars PROVE Same
    BY <2>8 DEF vars
  <2>9. QED
    BY <2>s, <2>1, <2>2, <2>3, <2>4, <2>5, <2>6, <2>7, <2>8,
       <2>q DEF Next, Queue, Read, Mcu, Service!Next, Service!Serve
<1>6. TypeOK /\ TypeOK' /\ StopAndWait /\ OrderInv /\ OnceInv /\ [Next]_vars
        => [Service!Next]_(Service!serviceVars)
  BY <1>2, <1>3, <1>5
<1>7. QED
  BY <1>4, <1>6, TypeCorrect, StopAndWaitHolds, OrderHolds, OnceHolds, PTL
     DEF Spec, Implements, Service!Spec


-----------------------------------------------------------------------------
(* Pairing replies and commands *)

(* The number of the head of the list, or of the command that will be it.  *)
Due == accepted - Len(pending) + 1

Stamped(f) == f.seq = f.n % SeqMod

(* A frame with k frames ahead of it, when d is due and s strays were met: *)
(* every frame ahead will retire at most one command, and those ahead and  *)
(* those retired since it was sent are not more than the strays.           *)
OnLine(f, k, d, s) == Stamped(f) /\ f.n <= d /\ d - f.n + k <= s

TxInv(t, k, d, s) == \A i \in 1 .. Len(t) : OnLine(t[i], k + i - 1, d, s)
RxInv(r, d, s) == \A i \in 1 .. Len(r) : r[i].req.id # NoCmd => OnLine(r[i].req, i - 1, d, s)

PairInv ==
  restarts = 0 =>
    /\ strays <= MaxStray
    /\ cmd_seq = accepted % SeqMod
    /\ \A i \in 1 .. Len(pending) : Stamped(pending[i].frame)
    /\ TxInv(tx, Len(rx), Due, strays)
    /\ RxInv(rx, Due, strays)

(* The remainder is unique. *)
LEMMA ModUnique ==
  ASSUME NEW a \in Nat, NEW q \in Nat, NEW r \in 0 .. SeqMod - 1, a = SeqMod * q + r
  PROVE  a % SeqMod = r
<1> DEFINE q2 == a \div SeqMod
           r2 == a % SeqMod
<1>1. SeqMod \in Nat /\ SeqMod > 0
  OBVIOUS
<1>2. q2 \in Nat /\ r2 \in 0 .. SeqMod - 1 /\ a = SeqMod * q2 + r2
  BY <1>1
<1> HIDE DEF q2, r2
<1>3. ~(q2 > q)
  <2> SUFFICES ASSUME q2 > q
               PROVE  FALSE
    OBVIOUS
  <2>1. SeqMod * q2 >= SeqMod * (q + 1)
    BY <1>1, <1>2
  <2>2. SeqMod * (q + 1) = SeqMod * q + SeqMod
    BY <1>1
  <2>3. SeqMod * q \in Int /\ SeqMod * q2 \in Int
    BY <1>1, <1>2
  <2>4. QED
    BY <1>1, <1>2, <2>1, <2>2, <2>3
<1>4. ~(q > q2)
  <2> SUFFICES ASSUME q > q2
               PROVE  FALSE
    OBVIOUS
  <2>1. SeqMod * q >= SeqMod * (q2 + 1)
    BY <1>1, <1>2
  <2>2. SeqMod * (q2 + 1) = SeqMod * q2 + SeqMod
    BY <1>1, <1>2
  <2>3. SeqMod * q \in Int /\ SeqMod * q2 \in Int
    BY <1>1, <1>2
  <2>4. QED
    BY <1>1, <1>2, <2>1, <2>2, <2>3
<1>5. q = q2
  BY <1>2, <1>3, <1>4
<1>6. r = r2
  <2>1. SeqMod * q \in Int
    BY <1>1
  <2>2. QED
    BY <1>2, <1>5, <2>1
<1>7. QED
  BY <1>6 DEF r2

(* Counting on from a remainder. *)
LEMMA ModAdd ==
  ASSUME NEW a \in Nat, NEW j \in Nat
  PROVE  ((a % SeqMod) + j) % SeqMod = (a + j) % SeqMod
<1> DEFINE q == a \div SeqMod
           r == a % SeqMod
           q2 == (r + j) \div SeqMod
           r2 == (r + j) % SeqMod
<1>1. SeqMod \in Nat /\ SeqMod > 0
  OBVIOUS
<1>2. q \in Nat /\ r \in 0 .. SeqMod - 1 /\ a = SeqMod * q + r
  BY <1>1
<1> HIDE DEF q, r
<1>3. r + j \in Nat
  BY <1>2
<1>4. q2 \in Nat /\ r2 \in 0 .. SeqMod - 1 /\ r + j = SeqMod * q2 + r2
  <2>1. PICK x \in Nat : x = r + j
    BY <1>3
  <2>2. x \div SeqMod \in Nat /\ x % SeqMod \in 0 .. SeqMod - 1
        /\ x = SeqMod * (x \div SeqMod) + (x % SeqMod)
    BY <1>1
  <2>3. QED
    BY <2>1, <2>2
<1> HIDE DEF q2, r2
<1>5. SeqMod * (q + q2) = SeqMod * q + SeqMod * q2
  BY <1>1, <1>2, <1>4
<1>6. SeqMod * q \in Int /\ SeqMod * q2 \in Int
  BY <1>1, <1>2, <1>4
<1>7. a + j = SeqMod * (q + q2) + r2
  BY <1>2, <1>4, <1>5, <1>6
<1>8. a + j \in Nat /\ q + q2 \in Nat
  BY <1>2, <1>4
<1>9. (a + j) % SeqMod = r2
  BY <1>4, <1>7, <1>8, ModUnique
<1>10. QED
  BY <1>9 DEF r, r2

(* A frame stays on the line while what is retired and what is ahead of it *)
(* grow no faster than the strays.                                         *)
LEMMA LineMoves ==
  ASSUME NEW f, f.n \in Int,
         NEW k \in Int, NEW d \in Int, NEW s \in Int, OnLine(f, k, d, s),
         NEW l \in Int, NEW e \in Int, NEW t \in Int,
         d <= e, e + l <= d + k + (t - s)
  PROVE  OnLine(f, l, e, t)
<1>1. PICK n \in Int : n = f.n
  OBVIOUS
<1>2. Stamped(f) /\ n <= d /\ d - n + k <= s
  BY <1>1 DEF OnLine
<1>3. n <= e /\ e - n + l <= t
  BY <1>2
<1>4. QED
  BY <1>1, <1>2, <1>3 DEF OnLine

(* Two numbers less than SeqMod apart with the same remainder are equal. *)
LEMMA ModClose ==
  ASSUME NEW x \in Nat, NEW y \in Nat, x <= y, y - x < SeqMod, x % SeqMod = y % SeqMod
  PROVE  x = y
<1> DEFINE q == x \div SeqMod
           r == x % SeqMod
           q2 == y \div SeqMod
<1>1. SeqMod \in Nat /\ SeqMod > 0
  OBVIOUS
<1>2. /\ q \in Nat /\ q2 \in Nat /\ r \in 0 .. SeqMod - 1
      /\ x = SeqMod * q + r /\ y = SeqMod * q2 + r
  BY <1>1
<1> HIDE DEF q, q2, r
<1>3. SeqMod * q \in Int /\ SeqMod * q2 \in Int
  BY <1>1, <1>2
<1>4. ~(q2 > q)
  <2> SUFFICES ASSUME q2 > q
               PROVE  FALSE
    OBVIOUS
  <2>1. SeqMod * q2 >= SeqMod * (q + 1)
    BY <1>1, <1>2
  <2>2. SeqMod * (q + 1) = SeqMod * q + SeqMod
    BY <1>1, <1>2
  <2>3. QED
    BY <1>1, <1>2, <1>3, <2>1, <2>2
<1>5. q2 <= q
  BY <1>2, <1>4
<1>6. SeqMod * q2 <= SeqMod * q
  BY <1>1, <1>2, <1>5
<1>7. QED
  BY <1>2, <1>3, <1>6

LEMMA FrameNumbers ==
  /\ \A t \in Seq(Frame) : Len(t) \in Nat /\ \A i \in 1 .. Len(t) : t[i].n \in Nat
  /\ \A r \in Seq(Reply) : Len(r) \in Nat /\ \A i \in 1 .. Len(r) : r[i].req.n \in Nat
<1>1. ASSUME NEW t \in Seq(Frame)
      PROVE  Len(t) \in Nat /\ \A i \in 1 .. Len(t) : t[i].n \in Nat
  <2>1. \A i \in 1 .. Len(t) : t[i] \in Frame
    OBVIOUS
  <2>2. QED
    BY <2>1 DEF Frame
<1>2. ASSUME NEW r \in Seq(Reply)
      PROVE  Len(r) \in Nat /\ \A i \in 1 .. Len(r) : r[i].req.n \in Nat
  <2>1. \A i \in 1 .. Len(r) : r[i] \in Reply
    OBVIOUS
  <2>2. \A i \in 1 .. Len(r) : r[i].req \in Frame \cup {NoFrame}
    BY <2>1 DEF Reply
  <2>3. QED
    BY <2>2 DEF Frame, NoFrame
<1>3. QED
  BY <1>1, <1>2

(* Sending the command that is due. *)
LEMMA SendPairs ==
  ASSUME NEW q \in Seq(Cmd), NEW timer \in BOOLEAN, NEW t \in Seq(Frame),
         NEW k \in Nat, NEW d \in Nat, NEW s \in Nat,
         TxInv(t, k, d, s),
         q # <<>> => Stamped(q[1].frame) /\ q[1].frame.n = d,
         k + Len(poe_cmd_next(q, timer, t)) <= 1 + s
  PROVE  TxInv(poe_cmd_next(q, timer, t), k, d, s)
<1> DEFINE u == poe_cmd_next(q, timer, t)
<1>1. CASE u = t
  BY <1>1
<1>2. CASE u # t
  <2>1. q # <<>> /\ u = Append(t, Head(q).frame) /\ Head(q) = q[1]
    BY <1>2 DEF poe_cmd_next
  <2>2. Head(q).frame \in Frame
    <3>1. Head(q) \in Cmd
      BY <2>1
    <3>2. QED
      BY <3>1 DEF Cmd
  <2>3. /\ Len(u) = Len(t) + 1 /\ Len(t) \in Nat
        /\ \A i \in 1 .. Len(t) : u[i] = t[i]
        /\ u[Len(t) + 1] = q[1].frame
    BY <2>1, <2>2, AppendProperties
  <2> HIDE DEF u
  <2>4. ASSUME NEW i \in 1 .. Len(u)
        PROVE  OnLine(u[i], k + i - 1, d, s)
    <3>1. CASE i \in 1 .. Len(t)
      BY <2>3, <3>1 DEF TxInv
    <3>2. CASE i = Len(t) + 1
      <4>1. k + i - 1 <= s
        BY <2>3, <3>2 DEF u
      <4>2. u[i].n = d /\ Stamped(u[i])
        BY <2>1, <2>3, <3>2
      <4>3. QED
        BY <2>3, <3>2, <4>1, <4>2 DEF OnLine
    <3>3. QED
      BY <2>3, <3>1, <3>2
  <2>5. QED
    BY <2>4 DEF TxInv, u
<1>3. QED
  BY <1>1, <1>2

(* What is left of a sequence without its last element. *)
LEMMA DropLast ==
  ASSUME NEW S, NEW s \in Seq(S), Len(s) > 0
  PROVE  /\ Len(SubSeq(s, 1, Len(s) - 1)) = Len(s) - 1
         /\ \A i \in 1 .. Len(SubSeq(s, 1, Len(s) - 1)) :
              SubSeq(s, 1, Len(s) - 1)[i] = s[i] /\ i \in 1 .. Len(s)
<1>1. PICK n \in Nat : n = Len(s) - 1
  OBVIOUS
<1>2. \A i \in 1 .. n : s[i] \in S /\ i \in 1 .. Len(s)
  BY <1>1
<1>3. /\ Len(SubSeq(s, 1, n)) = IF 1 <= n THEN n - 1 + 1 ELSE 0
      /\ \A i \in 1 .. n - 1 + 1 : SubSeq(s, 1, n)[i] = s[1 + i - 1]
  BY <1>2, SubSeqProperties
<1>4. Len(SubSeq(s, 1, n)) = n /\ \A i \in 1 .. n : SubSeq(s, 1, n)[i] = s[i]
  <2>1. n - 1 + 1 = n /\ \A i \in 1 .. n : 1 + i - 1 = i
    OBVIOUS
  <2>2. n < 1 => n = 0
    OBVIOUS
  <2>3. QED
    BY <1>3, <2>1, <2>2
<1>5. QED
  BY <1>1, <1>2, <1>4

(* Every step keeps replies and commands paired. *)
LEMMA PairStep ==
  ASSUME TypeOK, TypeOK', OrderInv, OrderInv', StopAndWait', PairInv, [Next]_vars
  PROVE  PairInv'
<1>1. /\ pending \in Seq(Cmd) /\ tx \in Seq(Frame) /\ rx \in Seq(Reply)
      /\ accepted \in Nat /\ strays \in Nat /\ restarts \in Nat /\ cmd_seq \in Nat
      /\ errTimer \in BOOLEAN
      /\ Len(pending) \in Nat /\ Len(tx) \in Nat /\ Len(rx) \in Nat
      /\ pending' \in Seq(Cmd) /\ errTimer' \in BOOLEAN
      /\ Len(pending') \in Nat /\ Len(tx') \in Nat /\ Len(rx') \in Nat
      /\ strays' \in Nat /\ accepted' \in Nat
  <2>1. /\ pending \in Seq(Cmd) /\ tx \in Seq(Frame) /\ rx \in Seq(Reply)
        /\ accepted \in Nat /\ strays \in Nat /\ restarts \in Nat /\ errTimer \in BOOLEAN
        /\ cmd_seq \in 0 .. SeqMod - 1
    BY DEF TypeOK
  <2>2. /\ pending' \in Seq(Cmd) /\ tx' \in Seq(Frame) /\ rx' \in Seq(Reply)
        /\ accepted' \in Nat /\ strays' \in Nat /\ errTimer' \in BOOLEAN
    BY DEF TypeOK
  <2>3. cmd_seq \in Nat
    BY <2>1
  <2>4. Len(pending) \in Nat /\ Len(tx) \in Nat /\ Len(rx) \in Nat
    BY <2>1
  <2>5. Len(pending') \in Nat /\ Len(tx') \in Nat /\ Len(rx') \in Nat
    BY <2>2
  <2>6. QED
    BY <2>1, <2>2, <2>3, <2>4, <2>5, Zenon
<1>2. /\ Due \in Nat /\ (pending # <<>> => pending[1].frame.n = Due)
      /\ Due' \in Nat /\ (pending' # <<>> => pending'[1].frame.n = Due')
  <2>1. Due \in Nat /\ (pending # <<>> => pending[1].frame.n = Due)
    <3>1. Len(pending) <= accepted
      BY DEF OrderInv
    <3>2. ASSUME pending # <<>> PROVE 1 \in 1 .. Len(pending)
      BY <1>1, <3>2
    <3>3. ASSUME pending # <<>> PROVE pending[1].frame.n = accepted - Len(pending) + 1
      BY <3>2, <3>3 DEF OrderInv
    <3>4. QED
      BY <1>1, <3>1, <3>3 DEF Due
  <2>2. Due' \in Nat /\ (pending' # <<>> => pending'[1].frame.n = Due')
    <3>1. Len(pending') <= accepted'
      BY DEF OrderInv
    <3>2. ASSUME pending' # <<>> PROVE 1 \in 1 .. Len(pending')
      BY <1>1, <3>2
    <3>3. ASSUME pending' # <<>> PROVE pending'[1].frame.n = accepted' - Len(pending') + 1
      BY <3>2, <3>3 DEF OrderInv
    <3>4. QED
      BY <1>1, <3>1, <3>3 DEF Due
  <2>3. QED
    BY <2>1, <2>2
<1>3. Len(tx') + Len(rx') <= 1 + strays'
  <2>1. Len(tx') + Len(rx') + (IF errTimer' THEN 1 ELSE 0) + (IF pending' = <<>> THEN 1 ELSE 0)
          <= 1 + strays'
    BY DEF StopAndWait, Outstanding
  <2>2. QED
    BY <1>1, <2>1
<1>4. /\ \A i \in 1 .. Len(tx) : tx[i].n \in Nat
      /\ \A i \in 1 .. Len(rx) : rx[i].req.n \in Nat
  BY <1>1, FrameNumbers
<1> SUFFICES ASSUME restarts' = 0
             PROVE  /\ strays' <= MaxStray
                    /\ cmd_seq' = accepted' % SeqMod
                    /\ \A i \in 1 .. Len(pending') : Stamped(pending'[i].frame)
                    /\ TxInv(tx', Len(rx'), Due', strays')
                    /\ RxInv(rx', Due', strays')
  BY DEF PairInv, TxInv, RxInv, OnLine, Stamped
<1>5. CASE \E b \in Batch : Restart(b)
  BY <1>1, <1>5 DEF Restart
<1>6. ASSUME restarts = 0
      PROVE  /\ strays <= MaxStray
             /\ cmd_seq = accepted % SeqMod
             /\ \A i \in 1 .. Len(pending) : Stamped(pending[i].frame)
             /\ TxInv(tx, Len(rx), Due, strays)
             /\ RxInv(rx, Due, strays)
  BY <1>6 DEF PairInv
<1>7. ASSUME NEW b \in Batch, poe_cmd_queue(b)
      PROVE  /\ strays' <= MaxStray
             /\ cmd_seq' = accepted' % SeqMod
             /\ \A i \in 1 .. Len(pending') : Stamped(pending'[i].frame)
             /\ TxInv(tx', Len(rx'), Due', strays')
             /\ RxInv(rx', Due', strays')
  <2> DEFINE new == Stamp(b, cmd_seq, accepted)
  <2>1. /\ new \in Seq(Cmd) /\ Len(new) = Len(b) /\ Len(b) \in Nat \ {0}
    BY <1>1, StampType
  <2>2. /\ pending' = pending \o new /\ accepted' = accepted + Len(b)
        /\ cmd_seq' = (cmd_seq + Len(b)) % SeqMod
        /\ tx' = (IF pending = <<>> THEN poe_cmd_next(pending', errTimer, tx) ELSE tx)
        /\ UNCHANGED <<errTimer, rx, strays, restarts>>
    BY <1>7 DEF poe_cmd_queue
  <2>3. /\ restarts = 0 /\ strays <= MaxStray /\ cmd_seq = accepted % SeqMod
        /\ \A i \in 1 .. Len(pending) : Stamped(pending[i].frame)
        /\ TxInv(tx, Len(rx), Due, strays) /\ RxInv(rx, Due, strays)
    BY <1>6, <2>2
  <2>4. \A i \in 1 .. Len(b) : Stamped(new[i].frame)
    <3> TAKE i \in 1 .. Len(b)
    <3>1. new[i].frame.seq = (cmd_seq + i) % SeqMod /\ new[i].frame.n = accepted + i
      BY <2>1 DEF Stamp
    <3>2. i \in Nat
      BY <2>1
    <3>3. (cmd_seq + i) % SeqMod = (accepted + i) % SeqMod
      BY <1>1, <2>3, <3>2, ModAdd
    <3>4. QED
      BY <3>1, <3>3 DEF Stamped
  <2> HIDE DEF new
  <2>5. /\ Len(pending') = Len(pending) + Len(b)
        /\ \A i \in 1 .. Len(pending) + Len(b) :
             pending'[i] = IF i <= Len(pending) THEN pending[i] ELSE new[i - Len(pending)]
    <3>1. /\ Len(pending \o new) = Len(pending) + Len(new)
          /\ \A i \in 1 .. Len(pending) + Len(new) : (pending \o new)[i]
               = IF i <= Len(pending) THEN pending[i] ELSE new[i - Len(pending)]
      BY <1>1, <2>1, ConcatProperties
    <3>2. QED
      BY <2>1, <2>2, <3>1
  <2>6. Due' = Due
    BY <1>1, <2>1, <2>2, <2>5 DEF Due
  <2>7. \A i \in 1 .. Len(pending') : Stamped(pending'[i].frame)
    <3> TAKE i \in 1 .. Len(pending')
    <3>1. CASE i <= Len(pending)
      <4>1. i \in 1 .. Len(pending) /\ pending'[i] = pending[i]
        BY <1>1, <2>1, <2>5, <3>1
      <4>2. QED
        BY <2>3, <4>1
    <3>2. CASE i > Len(pending)
      <4>1. i - Len(pending) \in 1 .. Len(b) /\ pending'[i] = new[i - Len(pending)]
        BY <1>1, <2>1, <2>5, <3>2
      <4>2. QED
        BY <2>4, <4>1
    <3>3. QED
      BY <1>1, <2>5, <3>1, <3>2
  <2>8. TxInv(tx', Len(rx'), Due', strays')
    <3>1. CASE pending # <<>>
      BY <2>2, <2>3, <2>6, <3>1
    <3>2. CASE pending = <<>>
      <4>1. tx' = poe_cmd_next(pending', errTimer, tx)
        BY <2>2, <3>2
      <4>2. pending' # <<>> => Stamped(pending'[1].frame) /\ pending'[1].frame.n = Due
        BY <1>1, <1>2, <2>6, <2>7
      <4>3. Len(rx) + Len(poe_cmd_next(pending', errTimer, tx)) <= 1 + strays
        BY <1>1, <1>3, <2>2, <4>1
      <4>4. TxInv(poe_cmd_next(pending', errTimer, tx), Len(rx), Due, strays)
        BY <1>1, <1>2, <2>3, <4>2, <4>3, SendPairs
      <4>5. QED
        BY <2>2, <2>6, <4>1, <4>4
    <3>3. QED
      BY <3>1, <3>2
  <2>9. cmd_seq' = accepted' % SeqMod
    BY <1>1, <2>1, <2>2, <2>3, ModAdd
  <2>10. QED
    BY <2>2, <2>3, <2>6, <2>7, <2>8, <2>9
<1>8. ASSUME NEW k \in 1 .. Len(rx), poe_stream_msg_cb(k)
      PROVE  /\ strays' <= MaxStray
             /\ cmd_seq' = accepted' % SeqMod
             /\ \A i \in 1 .. Len(pending') : Stamped(pending'[i].frame)
             /\ TxInv(tx', Len(rx'), Due', strays')
             /\ RxInv(rx', Due', strays')
  <2>1. /\ rx # <<>> /\ rx' = Tail(rx) /\ Len(rx') = Len(rx) - 1
        /\ tx' = poe_cmd_next(pending', errTimer', tx)
        /\ UNCHANGED <<cmd_seq, accepted, strays, restarts>>
    BY <1>8, ReadEffect
  <2>2. /\ restarts = 0 /\ strays <= MaxStray /\ cmd_seq = accepted % SeqMod
        /\ \A i \in 1 .. Len(pending) : Stamped(pending[i].frame)
        /\ TxInv(tx, Len(rx), Due, strays) /\ RxInv(rx, Due, strays)
    BY <1>6, <2>1
  <2>3. \/ pending' = pending
        \/ pending # <<>> /\ pending' = Tail(pending)
        \/ /\ Len(pending') = Len(pending)
           /\ \A i \in 1 .. Len(pending) : pending'[i].frame = pending[i].frame
    BY <1>8, ReadEffect, ConsumeEffect
  <2>4. /\ Due' \in {Due, Due + 1}
        /\ \A i \in 1 .. Len(pending') : Stamped(pending'[i].frame)
    <3>1. CASE pending' = pending
      BY <2>1, <2>2, <3>1 DEF Due
    <3>2. CASE pending # <<>> /\ pending' = Tail(pending)
      <4>1. /\ Len(pending') = Len(pending) - 1
            /\ \A i \in 1 .. Len(pending') : pending'[i] = pending[i + 1]
        BY <1>1, <3>2, HeadTailProperties
      <4>2. \A i \in 1 .. Len(pending') : i + 1 \in 1 .. Len(pending)
        BY <1>1, <4>1
      <4>3. Due' = Due + 1
        BY <1>1, <2>1, <4>1 DEF Due
      <4>4. QED
        BY <2>2, <4>1, <4>2, <4>3
    <3>3. CASE /\ Len(pending') = Len(pending)
               /\ \A i \in 1 .. Len(pending) : pending'[i].frame = pending[i].frame
      BY <2>1, <2>2, <3>3 DEF Due
    <3>4. QED
      BY <2>3, <3>1, <3>2, <3>3
  <2>5. TxInv(tx, Len(rx'), Due', strays)
    <3> SUFFICES ASSUME NEW i \in 1 .. Len(tx)
                 PROVE  OnLine(tx[i], Len(rx') + i - 1, Due', strays)
      BY DEF TxInv
    <3>1. OnLine(tx[i], Len(rx) + i - 1, Due, strays) /\ tx[i].n \in Int
      BY <1>4, <2>2 DEF TxInv
    <3>2. /\ Len(rx) + i - 1 \in Int /\ Len(rx') + i - 1 \in Int
          /\ Due \in Int /\ Due' \in Int /\ strays \in Int /\ Due <= Due'
          /\ Due' + (Len(rx') + i - 1) <= Due + (Len(rx) + i - 1) + (strays - strays)
      BY <1>1, <1>2, <2>1, <2>4
    <3>3. QED
      BY <3>1, <3>2, LineMoves
  <2>6. TxInv(tx', Len(rx'), Due', strays')
    <3>1. pending' # <<>> => Stamped(pending'[1].frame) /\ pending'[1].frame.n = Due'
      BY <1>1, <1>2, <2>4
    <3>2. Len(rx') + Len(poe_cmd_next(pending', errTimer', tx)) <= 1 + strays
      BY <1>1, <1>3, <2>1
    <3>3. TxInv(poe_cmd_next(pending', errTimer', tx), Len(rx'), Due', strays)
      BY <1>1, <1>2, <2>5, <3>1, <3>2, SendPairs
    <3>4. QED
      BY <2>1, <3>3
  <2>7. RxInv(rx', Due', strays')
    <3>0. ASSUME NEW i \in Nat
          PROVE  /\ (i + 1) - 1 \in Int /\ i - 1 \in Int
                 /\ Due \in Int /\ Due' \in Int /\ strays \in Int /\ Due <= Due'
                 /\ Due' + (i - 1) <= Due + ((i + 1) - 1) + (strays - strays)
      <4>1. PICK d \in Nat, e \in Nat, s \in Nat :
              d = Due /\ e = Due' /\ s = strays /\ e \in {d, d + 1}
        BY <1>1, <1>2, <2>4
      <4>2. /\ (i + 1) - 1 \in Int /\ i - 1 \in Int /\ d <= e
            /\ e + (i - 1) <= d + ((i + 1) - 1) + (s - s)
        <5>1. e = d \/ e = d + 1
          BY <4>1
        <5>2. QED
          BY <5>1
      <4>3. d \in Int /\ e \in Int /\ s \in Int
        OBVIOUS
      <4>4. Due = d /\ Due' = e /\ strays = s
        BY <4>1
      <4>5. QED
        BY <4>2, <4>3, <4>4, Zenon
    <3> SUFFICES ASSUME NEW i \in 1 .. Len(rx'), rx'[i].req.id # NoCmd
                 PROVE  OnLine(rx'[i].req, i - 1, Due', strays)
      BY <2>1 DEF RxInv
    <3>1. i + 1 \in 1 .. Len(rx) /\ rx'[i] = rx[i + 1] /\ i \in Nat
      BY <1>1, <2>1, HeadTailProperties
    <3>2. OnLine(rx[i + 1].req, (i + 1) - 1, Due, strays) /\ rx[i + 1].req.n \in Nat
      BY <1>4, <2>2, <3>1 DEF RxInv
    <3>3. PICK f : f = rx[i + 1].req
      OBVIOUS
    <3>4. OnLine(f, (i + 1) - 1, Due, strays) /\ f.n \in Int
      BY <3>2, <3>3
    <3>5. /\ (i + 1) - 1 \in Int /\ i - 1 \in Int
          /\ Due \in Int /\ Due' \in Int /\ strays \in Int /\ Due <= Due'
          /\ Due' + (i - 1) <= Due + ((i + 1) - 1) + (strays - strays)
      BY <3>0, <3>1
    <3>6. OnLine(f, i - 1, Due', strays)
      BY <3>4, <3>5, LineMoves
    <3>7. QED
      BY <3>1, <3>3, <3>6
  <2>8. QED
    BY <2>1, <2>2, <2>4, <2>6, <2>7
<1>9. CASE mcu_clear_timeout
  <2>1. /\ tx' = poe_cmd_next(pending, FALSE, tx)
        /\ UNCHANGED <<pending, cmd_seq, rx, accepted, strays, restarts>>
    BY <1>9 DEF mcu_clear_timeout, history
  <2>2. Due' = Due
    BY <2>1 DEF Due
  <2>3. pending # <<>> => Stamped(pending[1].frame) /\ pending[1].frame.n = Due
    BY <1>1, <1>2, <1>6, <2>1
  <2>4. FALSE \in BOOLEAN /\ Len(rx) + Len(poe_cmd_next(pending, FALSE, tx)) <= 1 + strays
    <3>1. tx' = poe_cmd_next(pending, FALSE, tx) /\ Len(rx') = Len(rx) /\ strays' = strays
      BY <2>1
    <3>2. Len(rx) + Len(tx') <= 1 + strays
      <4>1. Len(tx') + Len(rx) <= 1 + strays
        BY <1>3, <3>1
      <4>2. QED
        BY <1>1, <4>1
    <3>3. QED
      BY <3>1, <3>2
  <2>5. TxInv(poe_cmd_next(pending, FALSE, tx), Len(rx), Due, strays)
    BY <1>1, <1>2, <1>6, <2>1, <2>3, <2>4, SendPairs
  <2>6. QED
    BY <1>6, <2>1, <2>2, <2>5
<1>10. ASSUME NEW st \in {"ok", "f0", "bad"}, McuAnswer(st)
       PROVE  /\ strays' <= MaxStray
              /\ cmd_seq' = accepted' % SeqMod
              /\ \A i \in 1 .. Len(pending') : Stamped(pending'[i].frame)
              /\ TxInv(tx', Len(rx'), Due', strays')
              /\ RxInv(rx', Due', strays')
  <2> DEFINE r == [st |-> st, req |-> Head(tx)]
  <2>1. /\ tx # <<>> /\ tx' = Tail(tx) /\ rx' = Append(rx, r)
        /\ UNCHANGED <<pending, cmd_seq, accepted, strays, restarts>>
    BY <1>10 DEF McuAnswer
  <2>2. Due' = Due
    BY <2>1 DEF Due
  <2>3. /\ Head(tx) \in Frame /\ Len(tx') = Len(tx) - 1 /\ Head(tx) = tx[1]
        /\ \A i \in 1 .. Len(tx') : tx'[i] = tx[i + 1]
    BY <1>1, <2>1, HeadTailProperties
  <2>4. r \in Reply /\ r.req = tx[1]
    BY <2>3 DEF Reply
  <2> HIDE DEF r
  <2>5. /\ Len(rx') = Len(rx) + 1 /\ rx'[Len(rx) + 1] = r
        /\ \A i \in 1 .. Len(rx) : rx'[i] = rx[i]
    BY <1>1, <2>1, <2>4, AppendProperties
  <2>6. TxInv(tx, Len(rx), Due, strays) /\ RxInv(rx, Due, strays)
    BY <1>6, <2>1
  <2>7. TxInv(tx', Len(rx'), Due, strays)
    <3> SUFFICES ASSUME NEW i \in 1 .. Len(tx')
                 PROVE  OnLine(tx'[i], Len(rx') + i - 1, Due, strays)
      BY DEF TxInv
    <3>1. i + 1 \in 1 .. Len(tx) /\ tx'[i] = tx[i + 1]
      BY <1>1, <2>3
    <3>2. Len(rx') + i - 1 = Len(rx) + (i + 1) - 1
      BY <1>1, <2>5
    <3>3. QED
      BY <2>6, <3>1, <3>2 DEF TxInv
  <2>8. RxInv(rx', Due, strays)
    <3> SUFFICES ASSUME NEW i \in 1 .. Len(rx'), rx'[i].req.id # NoCmd
                 PROVE  OnLine(rx'[i].req, i - 1, Due, strays)
      BY DEF RxInv
    <3>1. CASE i \in 1 .. Len(rx)
      BY <2>5, <2>6, <3>1 DEF RxInv
    <3>2. CASE i = Len(rx) + 1
      <4>1. 1 \in 1 .. Len(tx) /\ Len(rx) + 1 - 1 = i - 1
        BY <1>1, <2>1, <2>3, <3>2
      <4>2. OnLine(tx[1], Len(rx) + 1 - 1, Due, strays)
        BY <2>6, <4>1 DEF TxInv
      <4>3. QED
        BY <2>4, <2>5, <3>2, <4>1, <4>2
    <3>3. QED
      BY <1>1, <2>5, <3>1, <3>2
  <2>9. QED
    BY <1>6, <2>1, <2>2, <2>7, <2>8
<1>11. CASE LineStray
  <2>1. /\ strays < MaxStray /\ strays' = strays + 1
        /\ UNCHANGED <<pending, cmd_seq, tx, accepted, restarts>>
    BY <1>11 DEF LineStray
  <2>2. PICK r : /\ rx' = Append(rx, r)
                 /\ r.req = NoFrame \/ (rx # <<>> /\ r = rx[Len(rx)])
    <3>1. PICK r \in {[st |-> "f0", req |-> NoFrame], [st |-> "bad", req |-> NoFrame]}
                     \cup (IF rx = <<>> THEN {} ELSE {rx[Len(rx)]}) : rx' = Append(rx, r)
      BY <1>11 DEF LineStray
    <3>2. CASE rx = <<>>
      BY <3>1, <3>2
    <3>3. CASE rx # <<>>
      BY <3>1, <3>3
    <3>4. QED
      BY <3>2, <3>3
  <2>3. Due' = Due
    BY <2>1 DEF Due
  <2>4. /\ Len(rx') = Len(rx) + 1 /\ rx'[Len(rx) + 1] = r
        /\ \A i \in 1 .. Len(rx) : rx'[i] = rx[i]
    BY <1>1, <2>2
  <2>5. TxInv(tx, Len(rx), Due, strays) /\ RxInv(rx, Due, strays)
    BY <1>6, <2>1
  <2>6. TxInv(tx', Len(rx'), Due, strays')
    <3> SUFFICES ASSUME NEW i \in 1 .. Len(tx)
                 PROVE  OnLine(tx[i], Len(rx') + i - 1, Due, strays')
      BY <2>1 DEF TxInv
    <3>1. Stamped(tx[i]) /\ tx[i].n <= Due /\ Due - tx[i].n + (Len(rx) + i - 1) <= strays
      BY <2>5 DEF TxInv, OnLine
    <3>2. Due - tx[i].n + (Len(rx') + i - 1) <= strays'
      BY <1>1, <1>2, <1>4, <2>1, <2>4, <3>1
    <3>3. QED
      BY <3>1, <3>2 DEF OnLine
  <2>7. RxInv(rx', Due, strays')
    <3>1. ASSUME NEW i \in 1 .. Len(rx), NEW j \in {i, i + 1}, rx[i].req.id # NoCmd
          PROVE  OnLine(rx[i].req, j - 1, Due, strays')
      <4>1. PICK f : f = rx[i].req
        OBVIOUS
      <4>2. Stamped(f) /\ f.n <= Due /\ Due - f.n + (i - 1) <= strays /\ f.n \in Nat
        BY <1>4, <2>5, <3>1, <4>1 DEF RxInv, OnLine
      <4>3. Due - f.n + (j - 1) <= strays'
        BY <1>1, <1>2, <2>1, <4>2
      <4>4. QED
        BY <4>1, <4>2, <4>3 DEF OnLine
    <3> SUFFICES ASSUME NEW i \in 1 .. Len(rx'), rx'[i].req.id # NoCmd
                 PROVE  OnLine(rx'[i].req, i - 1, Due, strays')
      BY DEF RxInv
    <3>2. CASE i \in 1 .. Len(rx)
      BY <2>4, <3>1, <3>2
    <3>3. CASE i = Len(rx) + 1
      <4>1. rx # <<>> /\ rx'[i] = rx[Len(rx)]
        BY <2>2, <2>4, <3>3 DEF NoFrame
      <4>2. Len(rx) \in 1 .. Len(rx)
        BY <1>1, <4>1
      <4>3. QED
        BY <3>1, <3>3, <4>1, <4>2
    <3>4. QED
      BY <1>1, <2>4, <3>2, <3>3
  <2>8. strays' <= MaxStray
    BY <1>1, <2>1
  <2>9. QED
    BY <1>6, <2>1, <2>3, <2>6, <2>7, <2>8
<1>12. CASE LineLose
  <2>1. UNCHANGED <<pending, cmd_seq, accepted, strays, restarts>>
    BY <1>12 DEF LineLose
  <2>2. Due' = Due
    BY <2>1 DEF Due
  <2>3. TxInv(tx, Len(rx), Due, strays) /\ RxInv(rx, Due, strays)
    BY <1>6, <2>1
  <2>4. CASE tx # <<>> /\ tx' = Tail(tx) /\ rx' = rx
    <3>1. Len(tx') = Len(tx) - 1 /\ \A i \in 1 .. Len(tx') : tx'[i] = tx[i + 1]
      BY <1>1, <2>4, HeadTailProperties
    <3>2. ASSUME NEW i \in 1 .. Len(tx')
          PROVE  OnLine(tx'[i], Len(rx) + i - 1, Due, strays)
      <4>1. i + 1 \in 1 .. Len(tx) /\ tx'[i] = tx[i + 1]
        BY <1>1, <3>1
      <4>2. PICK f : f = tx[i + 1]
        OBVIOUS
      <4>3. OnLine(f, Len(rx) + (i + 1) - 1, Due, strays) /\ f.n \in Int
        BY <1>4, <2>3, <4>1, <4>2 DEF TxInv
      <4>4. /\ Len(rx) + (i + 1) - 1 \in Int /\ Len(rx) + i - 1 \in Int
            /\ Due \in Int /\ strays \in Int /\ Due <= Due
            /\ Due + (Len(rx) + i - 1) <= Due + (Len(rx) + (i + 1) - 1) + (strays - strays)
        BY <1>1, <1>2, <4>1
      <4>5. OnLine(f, Len(rx) + i - 1, Due, strays)
        BY <4>3, <4>4, LineMoves
      <4>6. QED
        BY <4>1, <4>2, <4>5
    <3>3. QED
      BY <1>6, <2>1, <2>2, <2>3, <2>4, <3>2 DEF TxInv
  <2>5. CASE Len(rx) > held /\ rx' = SubSeq(rx, 1, Len(rx) - 1) /\ tx' = tx
    <3>1. held \in Nat
      BY DEF TypeOK
    <3>2. /\ Len(rx') = Len(rx) - 1 /\ \A i \in 1 .. Len(rx') : rx'[i] = rx[i]
          /\ \A i \in 1 .. Len(rx') : i \in 1 .. Len(rx)
      <4>1. rx \in Seq(Reply) /\ Len(rx) > 0
        BY <1>1, <2>5, <3>1
      <4>2. QED
        BY <2>5, <4>1, DropLast
    <3>3. RxInv(rx', Due, strays)
      BY <2>3, <3>2 DEF RxInv
    <3>4. ASSUME NEW i \in 1 .. Len(tx)
          PROVE  OnLine(tx[i], Len(rx') + i - 1, Due, strays)
      <4>1. OnLine(tx[i], Len(rx) + i - 1, Due, strays) /\ tx[i].n \in Int
        BY <1>4, <2>3 DEF TxInv
      <4>2. /\ Len(rx) + i - 1 \in Int /\ Len(rx') + i - 1 \in Int
            /\ Due \in Int /\ strays \in Int /\ Due <= Due
            /\ Due + (Len(rx') + i - 1) <= Due + (Len(rx) + i - 1) + (strays - strays)
        BY <1>1, <1>2, <3>2
      <4>3. QED
        BY <4>1, <4>2, LineMoves
    <3>5. QED
      BY <1>6, <2>1, <2>2, <2>5, <3>3, <3>4 DEF TxInv
  <2>6. QED
    BY <1>12, <2>4, <2>5 DEF LineLose
<1>13. CASE UNCHANGED vars
  BY <1>6, <1>13 DEF vars, Due
<1>14. QED
  BY <1>5, <1>7, <1>8, <1>9, <1>10, <1>11, <1>12, <1>13 DEF Next, Queue, Read, Mcu

(* Replies and commands stay paired but for the strays.                    *)
THEOREM PairHolds == Spec => []PairInv
<1>1. Init => PairInv
  <2> SUFFICES ASSUME Init
               PROVE  PairInv
    OBVIOUS
  <2>1. PICK b \in Batch : /\ pending = Stamp(b, 0, 0) /\ cmd_seq = Len(b) % SeqMod
                           /\ tx = <<pending[1].frame>> /\ rx = <<>>
                           /\ accepted = Len(b) /\ strays = 0
    BY DEF Init
  <2>2. Len(pending) = Len(b) /\ Len(b) \in Nat \ {0}
    BY <2>1, StampType
  <2>3. \A i \in 1 .. Len(b) : pending[i].frame.seq = (0 + i) % SeqMod /\ pending[i].frame.n = 0 + i
    BY <2>1, <2>2 DEF Stamp
  <2>4. \A i \in 1 .. Len(b) : Stamped(pending[i].frame)
    BY <2>3 DEF Stamped
  <2>5. Len(tx) = 1 /\ tx[1] = pending[1].frame /\ 1 \in 1 .. Len(b) /\ tx[1].n = 1
    BY <2>1, <2>2, <2>3
  <2>6. Due = 1 /\ Len(rx) = 0
    BY <2>1, <2>2 DEF Due
  <2>7. TxInv(tx, Len(rx), Due, strays)
    BY <2>1, <2>4, <2>5, <2>6 DEF TxInv, OnLine
  <2>8. RxInv(rx, Due, strays)
    BY <2>6 DEF RxInv
  <2>9. QED
    BY <2>1, <2>2, <2>4, <2>7, <2>8 DEF PairInv
<1>2. QED
  BY <1>1, PairStep, TypeCorrect, OrderHolds, StopAndWaitHolds, PTL DEF Spec

(* As long as the strays are fewer than the sequence numbers, a reply that *)
(* poe_reply_consume accepts by id and sequence number was made for that   *)
(* command, however often the numbers wrap around.                         *)
THEOREM AcceptedIsOwnHolds ==
  ASSUME MaxStray < SeqMod
  PROVE  Spec => []AcceptedIsOwn
<1>1. TypeOK /\ OrderInv /\ PairInv => AcceptedIsOwn
  <2> SUFFICES ASSUME TypeOK, OrderInv, PairInv, restarts = 0, rx # <<>>, pending # <<>>,
                      Matches(pending[1], rx[1])
               PROVE  rx[1].req.n = pending[1].frame.n
    BY DEF AcceptedIsOwn
  <2>1. /\ Len(pending) \in Nat \ {0} /\ Len(rx) \in Nat \ {0} /\ strays \in Nat
        /\ accepted \in Nat /\ rx[1] \in Reply /\ pending[1] \in Cmd
    BY DEF TypeOK
  <2>2. pending[1].frame.n = Due /\ Due \in Nat /\ Stamped(pending[1].frame)
    BY <2>1 DEF OrderInv, PairInv, Due
  <2>3. pending[1].frame.id \in CmdId
    BY <2>1 DEF Cmd, Frame
  <2>4. rx[1].req.id # NoCmd
    BY <2>3 DEF Matches
  <2>5. OnLine(rx[1].req, 1 - 1, Due, strays) /\ strays <= MaxStray
    BY <2>1, <2>4 DEF PairInv, RxInv
  <2>6. PICK n : n = rx[1].req.n
    OBVIOUS
  <2>7. n \in Nat
    <3>1. rx \in Seq(Reply) /\ 1 \in 1 .. Len(rx)
      BY <2>1 DEF TypeOK
    <3>2. QED
      BY <2>6, <3>1, FrameNumbers
  <2>8. n <= Due /\ Due - n < SeqMod
    BY <2>1, <2>2, <2>5, <2>6, <2>7 DEF OnLine
  <2>9. n % SeqMod = Due % SeqMod
    BY <2>2, <2>5, <2>6 DEF OnLine, Stamped, Matches
  <2>10. n = Due
    BY <2>2, <2>7, <2>8, <2>9, ModClose
  <2>11. QED
    BY <2>2, <2>6, <2>10
<1>2. QED
  BY <1>1, PairHolds, OrderHolds, TypeCorrect, PTL
=============================================================================
