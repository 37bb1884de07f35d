---------------------------- MODULE MCNetConfig ----------------------------
(* The configuration OpenWrt is shipped with: lan and wan in a zone each,  *)
(* forwarding and a traffic rule between them, DHCP on lan, and a wireless *)
(* interface attached to lan.                                              *)
EXTENDS NetConfig

MCStart ==
    [net |-> {"lan", "wan"}, dev |-> {"lan", "wan"},
     refs |-> {[kind |-> "dhcp", net |-> "lan"]},
     wifi |-> [w \in {0} |-> {"lan"}],
     zones |-> <<[name |-> "lan", nets |-> {"lan"}], [name |-> "wan", nets |-> {"wan"}]>>,
     rules |-> {Forwarding("lan", "wan"), [kind |-> "rule", src |-> "wan", dest |-> "lan"]}]
=============================================================================
