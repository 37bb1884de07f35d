----------------------------- MODULE MCLuciPage -----------------------------
(* The classes of a page and their requires, as in the files of luci-base  *)
(* (the builtin classes and those that only add another leaf left out).    *)
EXTENDS LuciPage

MCRequires == [rpc |-> <<>>, uci |-> <<"rpc">>, ui |-> <<"rpc", "uci">>,
               form |-> <<"ui", "uci", "rpc">>, swupdate |-> <<"uci">>,
               status |-> <<"form", "ui">>]
MCPollOf == [status |-> "refresh", swupdate |-> "watch"]
MCInterval == [refresh |-> 1, watch |-> 2]
=============================================================================
