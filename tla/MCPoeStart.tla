----------------------------- MODULE MCPoeStart ------------------------------
(* Instance of PoeStart for TLC: the table of the source. *)
EXTENDS PoeStart, TLC

(* The initialiser of bcm_to_rtl_map, in decimal. *)
Entries == (0 :> 1) @@ (16 :> 9) @@ (19 :> 15) @@ (21 :> 18) @@ (22 :> 19)
             @@ (23 :> 16) @@ (24 :> 4) @@ (26 :> 21) @@ (32 :> 64)
             @@ (35 :> 65) @@ (38 :> 41) @@ (40 :> 67) @@ (48 :> 68)

bcm_to_rtl_map == [x \in 0 .. 255 |-> IF x \in DOMAIN Entries THEN Entries[x] ELSE 0]

SourceTables == {bcm_to_rtl_map}

reply_handler == {32, 35, 38, 40, 48}
QueuedIds     == {0, 2, 16, 17, 19, 21, 22, 23, 24, 26, 28, 32, 35, 38, 40, 48}

(* The table of the source meets the premise under which the proofs show   *)
(* ReplyReachesItsHandler.                                                 *)
ASSUME SourceSetsHandledApart == \A t \in Tables : HandledApart(t)
=============================================================================
