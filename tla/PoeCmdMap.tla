------------------------------ MODULE PoeCmdMap ------------------------------
(***************************************************************************)
(* The command id map of realtek-poe (realtek-poe-tfortis/src/main.c).     *)
(* The daemon speaks the Broadcom (BCM) dialect, the MCU the Realtek (RTL) *)
(* one.  One byte table takes BCM ids to RTL ids; close_map completes it,  *)
(* in place and in one pass, so that the same table should also take RTL   *)
(* ids back to BCM ids.  An entry 0 means that the id is not translated.   *)
(*                                                                         *)
(* The table is chosen once, in Init, so that a run may check either the   *)
(* table of the source or every table of a small size.                     *)
(***************************************************************************)
EXTENDS Naturals

CONSTANTS
  Size,      \* the number of ids: 0x100 in the code
  Tables,    \* the tables to look at: the one of the source, or all of them
  OwnIds,    \* the BCM ids of the commands the daemon queues by itself
  Handled    \* the BCM ids reply_handler has an entry for

Ids == 0 .. Size - 1

ASSUME MapAssumption ==
  /\ Size \in Nat \ {0}
  /\ Tables \subseteq [Ids -> Ids]
  /\ OwnIds \subseteq Ids
  /\ Handled \subseteq Ids

VARIABLES
  table,  \* bcm_to_rtl_map as initialised
  map,    \* bcm_to_rtl_map as close_map has left it so far
  id      \* the loop variable of close_map: the id looked at

mapVars == <<table, map, id>>

-----------------------------------------------------------------------------
(* Mutant: entries that translate nothing are written back too. *)
MutCloseUnguarded ==
  /\ id < Size
  /\ map' = [map EXCEPT ![map[id]] = id]
  /\ id' = id + 1
  /\ UNCHANGED table

(* Mutant: the way back is off by one. *)
MutCloseOffByOne ==
  /\ id < Size
  /\ map' = IF map[id] # 0 THEN [map EXCEPT ![map[id]] = (id + 1) % Size] ELSE map
  /\ id' = id + 1
  /\ UNCHANGED table

(* One round of the loop. *)
close_map ==
  /\ id < Size
  /\ map' = IF map[id] # 0 THEN [map EXCEPT ![map[id]] = id] ELSE map
  /\ id' = id + 1
  /\ UNCHANGED table

(* Both directions look up the same table. *)
bcm_to_rtl_cmd_id(cmd) == IF map[cmd] # 0 THEN map[cmd] ELSE cmd
rtl_to_bcm_cmd_id(cmd) == bcm_to_rtl_cmd_id(cmd)

MapInit ==
  /\ table \in Tables
  /\ map = table
  /\ id = 0

MapNext == close_map

MapSpec == MapInit /\ [][MapNext]_mapVars

-----------------------------------------------------------------------------
(* Properties *)

(* The table stays a table over the ids (close_map). *)
MapTypeOK ==
  /\ table \in Tables
  /\ map \in [Ids -> Ids]
  /\ id \in 0 .. Size

Closed == id = Size

Translated(x) == table[x] # 0
UsedAsRtl(x)  == \E y \in Ids : Translated(y) /\ table[y] = x

(* What the comment above close_map assumes: no RTL id is also a BCM id.   *)
NoReuse  == \A x \in Ids : Translated(x) => ~Translated(table[x])
OneToOne == \A x, y \in Ids : Translated(x) /\ table[x] = table[y] => x = y

(* Every BCM id is sent as its table entry says, and the RTL id of the     *)
(* reply comes back as the BCM id (id 0 cannot: 0 marks an unused entry).  *)
BothWays ==
  \A x \in Ids : Translated(x) =>
    /\ bcm_to_rtl_cmd_id(x) = table[x]
    /\ x # 0 => rtl_to_bcm_cmd_id(table[x]) = x

(* The comment's claim with its assumption: on a one-to-one table that     *)
(* reuses no id, the single pass of close_map gives both directions, even  *)
(* though it reads entries it has written itself.                          *)
AssumptionSuffices == Closed /\ NoReuse /\ OneToOne => BothWays

(* On every table, at every point of the pass, an id that is nobody's RTL  *)
(* id is still sent as the table says: close_map can only damage ids that  *)
(* both dialects use.                                                      *)
UnsharedKept == \A x \in Ids : ~UsedAsRtl(x) => map[x] = table[x]

(* The reply to a command of the daemon reaches the handler written for    *)
(* that command, or none if it has none: poe_reply_consume indexes         *)
(* reply_handler by the id that came back through the map.                 *)
ReplyReachesItsHandler ==
  Closed => \A x \in OwnIds :
    LET back == rtl_to_bcm_cmd_id(bcm_to_rtl_cmd_id(x)) IN
      IF x \in Handled THEN back = x ELSE back \notin Handled

-----------------------------------------------------------------------------
(* The strengthenings the proofs rest on. *)

(* The table t sets the ids with a handler apart: each is translated, is   *)
(* no RTL id itself, and its RTL id is that of no other, is not translated *)
(* further and is not queued under that number.                            *)
HandledApart(t) ==
  \A h \in Handled :
    /\ h # 0 /\ t[h] # 0 /\ t[t[h]] = 0 /\ t[h] \notin OwnIds
    /\ \A y \in Ids : t[y] # h /\ (t[y] = t[h] => y = h)

(* A value that close_map has written at y is the id whose entry is y.     *)
WrittenBack ==
  \A x, y \in Ids : x # 0 /\ ~UsedAsRtl(x) /\ map[y] = x => table[x] = y

(* On a table that keeps the comment's assumption: entries of the table    *)
(* stay, the ids passed can be read back, and nothing else was written.    *)
CloseInv ==
  NoReuse /\ OneToOne =>
    /\ \A x \in Ids : Translated(x) => map[x] = table[x]
    /\ \A x \in Ids : Translated(x) /\ x < id => map[table[x]] = x
    /\ \A y \in Ids : ~Translated(y) =>
         map[y] = 0 \/ (Translated(map[y]) /\ table[map[y]] = y)

=============================================================================
