------------------------------- MODULE ViewsNetwork -------------------------------
(* Forms of the views of the network and system modules and of the protocols: the *)
(* fields of each section in the order of their declaration (see           *)
(* FormFields).  Of a long list of choices only those that something       *)
(* depends on are kept, with the first and one other; "*" stands for       *)
(* a choice or a default computed by the view.  A field declared under     *)
(* a condition is taken as declared.                                       *)
EXTENDS FormFields

(* The combinations of one value for each name *)
add_dependency_permutations(deps) ==
    {alt \in [DOMAIN deps -> UNION {deps[n] : n \in DOMAIN deps}] :
        \A n \in DOMAIN deps : alt[n] \in deps[n]}

(* Its most frequent arguments: enterprise encryption *)
Wpa == {"wpa", "wpa2", "wpa3", "wpa3-mixed"}
ApWpa == add_dependency_permutations("mode" :> {"ap", "ap-wds"} @@ "encryption" :> Wpa)
StaWpa == add_dependency_permutations("mode" :> {"sta", "sta-wds"} @@ "encryption" :> Wpa)
StaWpaInnerTls == {alt @@ ("auth" :> "EAP-TLS") : alt \in StaWpa}

(* luci-base/protocol/dhcp.js *)
BaseDhcp ==
    <<Own(Value("hostname")), Flag("broadcast"), Value("clientid"), Value("vendorid")>>

(* luci-base/protocol/static.js *)
BaseStatic ==
    <<Own(Value("ipaddr")), Own(Value("netmask")), Own(Value("gateway")),
      Own(Value("broadcast")), Dep(Multi("ip6addr"), {"ip6assign" :> ""}),
      Dep(Value("ip6gw"), {"ip6assign" :> ""}), Dep(Value("ip6prefix"), {"ip6assign" :> ""})>>

(* luci-mod-network/tools/network.js *)
Network1 ==
    <<List("type", <<"", "bridge", "8021q", "8021ad", "macvlan", "veth">>),
      Dep(Into(Required(Default(Value("name_simple"), "*")), "name"), {"type" :> ""}),
      Dep(Into(Required(Default(Value("ifname_single"), "*")), "ifname"), {"type" :> "8021q", "type" :> "8021ad", "type" :> "macvlan"}),
      Dep(Required(Default(Value("vid"), "*")), {"type" :> "8021q", "type" :> "8021ad"}),
      Dep(List("mode", <<"vepa", "private">>), {"type" :> "macvlan"}),
      Dep(Into(Required(Value("name_complex")), "name"), {Unless("type" :> "")}),
      Dep(Multi("ingress_qos_mapping"), {"type" :> "8021q", "type" :> "8021ad"}),
      Dep(Multi("egress_qos_mapping"), {"type" :> "8021q", "type" :> "8021ad"})>>
Network2 ==
    <<Dep(Into(Default(Multi("ifname_multi"), "[v]"), "ports"), {"type" :> "bridge"}),
      Dep(Flag("bridge_empty"), {"type" :> "bridge"}),
      Dep(Value("priority"), {"type" :> "bridge"}),
      Dep(Value("ageing_time"), {"type" :> "bridge"}), Dep(Flag("stp"), {"type" :> "bridge"}),
      Dep(Value("hello_time"), {"type" :> "bridge" @@ "stp" :> "1"}),
      Dep(Value("forward_delay"), {"type" :> "bridge" @@ "stp" :> "1"}),
      Dep(Value("max_age"), {"type" :> "bridge" @@ "stp" :> "1"}),
      Dep(Flag("igmp_snooping"), {"type" :> "bridge"}),
      Dep(Value("hash_max"), {"type" :> "bridge" @@ "igmp_snooping" :> "1"}),
      Dep(Own(Flag("multicast_querier")), {"type" :> "bridge"}),
      Dep(Value("robustness"), {"type" :> "bridge" @@ "multicast_querier" :> "1"}),
      Dep(Value("query_interval"), {"type" :> "bridge" @@ "multicast_querier" :> "1"}),
      Dep(Value("query_response_interval"), {"type" :> "bridge" @@ "multicast_querier" :> "1"}),
      Dep(Value("last_member_interval"), {"type" :> "bridge" @@ "multicast_querier" :> "1"}),
      Value("mtu"), Value("macaddr"), Dep(Own(Value("peer_name")), {"type" :> "veth"})>>
Network3 ==
    <<Dep(Value("peer_macaddr"), {"type" :> "veth"}), Value("txqueuelen"), Tristate("promisc"),
      Own(List("rpfilter", <<"", "loose">>)), Tristate("acceptlocal"), Tristate("sendredirects"),
      Tristate("arp_accept "), Tristate("drop_gratuitous_arp"), Value("neighreachabletime"),
      Value("neighgcstaletime"), Value("neighlocktime"), Tristate("ipv6"),
      Dep(Tristate("ip6segmentrouting"), {"ipv6" :> "/1/"}),
      Dep(Tristate("drop_unsolicited_na"), {"ipv6" :> "/1/"}),
      Dep(Value("mtu6"), {"ipv6" :> "/1/"}), Dep(Value("dadtransmits"), {"ipv6" :> "/1/"}),
      Tristate("multicast"), Dep(List("igmpversion", <<"", "1">>), {"multicast" :> "/1/"}),
      Dep(List("mldversion", <<"", "1">>), {"multicast" :> "/1/"}), Tristate("learning"),
      Tristate("unicast_flood"), Tristate("isolate"),
      Dep(List("multicast_router", <<"", "1">>), {"multicast" :> "/1/"}),
      Dep(Tristate("multicast_to_unicast"), {"multicast" :> "/1/"}),
      Dep(Tristate("multicast_fast_leave"), {"multicast" :> "/1/"}),
      Dep(Tristate("drop_v4_unicast_in_l2_multicast"), {"multicast" :> "/1/"}),
      Dep(Tristate("drop_v6_unicast_in_l2_multicast"), {"multicast" :> "/1/"}),
      Dep(Flag("vlan_filtering"), {"type" :> "bridge"}),
      Dep(SectionValue("bridge-vlan"), {"type" :> "bridge"})>>
NetworkBridgeVlan ==
    <<Value("vlan"), Default(Flag("local"), "1")>>

(* luci-mod-network/view/network/dhcp.js *)
NetworkDhcpDnsmasq1 ==
    <<Flag("domainneeded"), Flag("authoritative"), Value("local"), Value("domain"),
      Optional(Flag("logqueries")), Optional(Multi("server")), Optional(Multi("address")),
      Optional(Multi("ipset")), Required(Flag("rebind_protection")),
      Dep(Flag("rebind_localhost"), {"rebind_protection" :> "1"}),
      Dep(Optional(Multi("rebind_domain")), {"rebind_protection" :> "1"}),
      Required(Flag("localservice")), Default(Flag("nonwildcard"), "1"),
      Optional(Multi("interface")), Optional(Multi("notinterface")), SectionValue("__relays__")>>
NetworkDhcpDnsmasq2 ==
    <<Flag("readethers"), Value("leasefile"), Optional(Flag("noresolv")),
      Dep(Optional(Value("resolvfile")), {"noresolv" :> "0"}), Optional(Flag("nohosts")),
      Optional(Multi("addnhosts")), Optional(Flag("quietdhcp")), Optional(Flag("sequential_ip")),
      Default(Flag("boguspriv"), "1"), Flag("filterwin2k"), Optional(Flag("filter_aaaa")),
      Optional(Flag("filter_a")), Flag("localise_queries"), Optional(Flag("dnssec")),
      Optional(Default(Flag("dnsseccheckunsigned"), "1")), Flag("expandhosts"),
      Flag("nonegcache"), Value("serversfile"), Optional(Flag("strictorder")),
      Optional(Flag("allservers")), Optional(Multi("bogusnxdomain")), Optional(Value("port")),
      Optional(Value("queryport")), Optional(Value("dhcpleasemax")),
      Optional(Value("ednspacket_max")), Optional(Value("dnsforwardmax")),
      Optional(Value("cachesize"))>>
NetworkDhcpDnsmasq3 ==
    <<Optional(Flag("enable_tftp")), Dep(Optional(Value("tftp_root")), {"enable_tftp" :> "1"}),
      Dep(Optional(Value("dhcp_boot")), {"enable_tftp" :> "1"}), SectionValue("__pxe__")>>
NetworkDhcpDnsmasq4 ==
    <<SectionValue("__srvhosts__")>>
NetworkDhcpDnsmasq5 ==
    <<SectionValue("__mxhosts__")>>
NetworkDhcpDnsmasq6 ==
    <<SectionValue("__cname__")>>
NetworkDhcpDnsmasq7 ==
    <<SectionValue("__hosts__")>>
NetworkDhcpDnsmasq8 ==
    <<SectionValue("__ipsets__")>>
NetworkDhcpDnsmasq9 ==
    <<SectionValue("__leases__")>>
NetworkDhcpDnsmasq10 ==
    <<Own(Value("__status__")), Own(Value("__status6__"))>>
NetworkDhcpRelays ==
    <<Optional(Required(Value("id"))), Optional(Required(Value("interface"))),
      Required(Value("local_addr")), Required(Value("server_addr"))>>
NetworkDhcpPxe ==
    <<Value("filename"), Value("servername"), Value("serveraddress"),
      Optional(Multi("dhcp_option")), Optional(Value("networkid")), Optional(Flag("force")),
      Optional(Value("instance"))>>
NetworkDhcpSrvhosts ==
    <<Required(Value("srv")), Required(Value("target")), Required(Value("port")), Value("class"),
      Value("weight")>>
NetworkDhcpMxhosts ==
    <<Required(Value("domain")), Required(Value("relay")), Value("pref")>>
NetworkDhcpCname ==
    <<Required(Value("cname")), Required(Value("target"))>>
NetworkDhcpHosts ==
    <<Required(Value("name")), Required(Value("ip"))>>
NetworkDhcpIpsets ==
    <<Required(Multi("name")), Required(Multi("domain"))>>
NetworkDhcpLeases1 ==
    <<Own(Value("name")), Own(Value("mac")), Value("ip"), Value("leasetime"), Value("duid"),
      Value("hostid"), Multi("tag"), Optional(Multi("match_tag"))>>
NetworkDhcpLeases2 ==
    <<Optional(Value("instance")), Flag("broadcast"), Flag("dns")>>

(* luci-mod-network/view/network/interfaces.js *)
NetworkInterfacesInterface1 ==
    <<Dummy("_ifacestat_modal"), List("proto", <<"*", "other">>)>>
NetworkInterfacesInterface2 ==
    <<Into(Value("_net_device"), "device"), Default(Flag("auto"), "1"),
      Own(Optional(Value("_zone"))), SectionValue("_dhcp")>>
NetworkInterfacesInterface3 ==
    <<Default(Flag("defaultroute"), "1"), Default(Flag("peerdns"), "1"),
      Dep(Multi("dns"), {"peerdns" :> "0"}), Dep(Multi("dns_search"), {"peerdns" :> "0"}),
      Value("dns_metric"), Value("metric"), Value("ip4table"), Value("ip6table"),
      Default(Flag("sourcefilter"), "1"), Default(Flag("delegate"), "1"), Value("ip6assign")>>
NetworkInterfacesInterface4 ==
    <<Multi("ip6class"), Value("ip6ifaceid"), Value("ip6weight")>>
NetworkInterfacesInterface5 ==
    <<Dummy("_ifacebox"), Dummy("_ifacestat"), Default(Flag("delegate"), "1"),
      Own(Flag("force_link"))>>
NetworkInterfacesDhcp1 ==
    <<Flag("ignore"), Optional(Default(Value("start"), "100")),
      Optional(Default(Value("limit"), "150")), Optional(Default(Value("leasetime"), "12h")),
      Default(Flag("dynamicdhcp"), "1"), Flag("force"), Optional(Value("netmask")),
      Multi("dhcp_option"), Flag("master"), Own(Value("ra")),
      Dep(Own(Value("ra_default")), {"ra" :> "server", "ra" :> "hybrid" @@ "master" :> "0"}),
      Dep(Default(Flag("ra_slaac"), "1"), {"ra" :> "server", "ra" :> "hybrid" @@ "master" :> "0"})>>
NetworkInterfacesDhcp2 ==
    <<Dep(Own(Value("ra_flags")), {"ra" :> "server", "ra" :> "hybrid" @@ "master" :> "0"}),
      Dep(Optional(Value("ra_pref64")), {"ra" :> "server", "ra" :> "hybrid" @@ "master" :> "0"}),
      Dep(Optional(Value("ra_maxinterval")), {"ra" :> "server", "ra" :> "hybrid" @@ "master" :> "0"}),
      Dep(Optional(Value("ra_mininterval")), {"ra" :> "server", "ra" :> "hybrid" @@ "master" :> "0"}),
      Dep(Optional(Value("ra_lifetime")), {"ra" :> "server", "ra" :> "hybrid" @@ "master" :> "0"}),
      Dep(Own(Optional(Value("ra_mtu"))), {"ra" :> "server", "ra" :> "hybrid" @@ "master" :> "0"}),
      Dep(Own(Optional(Value("ra_hoplimit"))), {"ra" :> "server", "ra" :> "hybrid" @@ "master" :> "0"}),
      Own(Value("dhcpv6")), Dep(Value("dhcpv6_pd_min_len"), {"dhcpv6" :> "server"}),
      Dep(Multi("dns"), {"ra" :> "server", "ra" :> "hybrid" @@ "master" :> "0", "dhcpv6" :> "server", "dhcpv6" :> "hybrid" @@ "master" :> "0"}),
      Dep(Default(Flag("dns_service"), "1"), {"ra" :> "server" @@ "dns" :> "/^$/", "ra" :> "hybrid" @@ "dns" :> "/^$/" @@ "master" :> "0", "dhcpv6" :> "server" @@ "dns" :> "/^$/", "dhcpv6" :> "hybrid" @@ "dns" :> "/^$/" @@ "master" :> "0"}),
      Dep(Multi("domain"), {"ra" :> "server", "ra" :> "hybrid" @@ "master" :> "0", "dhcpv6" :> "server", "dhcpv6" :> "hybrid" @@ "master" :> "0"}),
      Own(Value("ndp")),
      Dep(Default(Flag("ndproxy_routing"), "1"), {"ndp" :> "relay", "ndp" :> "hybrid"})>>
NetworkInterfacesDhcp3 ==
    <<Dep(Flag("ndproxy_slave"), {"ndp" :> "relay" @@ "master" :> "0", "ndp" :> "hybrid" @@ "master" :> "0"}),
      Optional(Value("preferred_lifetime")), Optional(Flag("ra_useleasetime"))>>
NetworkInterfacesNew ==
    <<Required(Value("name")), List("proto", <<"*", "other">>)>>
NetworkInterfacesDevice ==
    <<Dummy("name"), Dummy("type"), Dummy("macaddr"), Dummy("mtu")>>
NetworkInterfacesGlobals ==
    <<Value("ula_prefix"), Optional(Flag("packet_steering"))>>
NetworkInterfacesDsl ==
    <<List("annex", <<"a", "b">>), List("tone", <<"", "a">>), List("xfer_mode", <<"", "atm">>),
      List("line_mode", <<"", "adsl">>), Default(List("ds_snr_offset", <<"*">>), "0"),
      Value("firmware")>>
NetworkInterfacesAtmBridge ==
    <<Value("vci"), Value("vpi"), List("encaps", <<"llc", "vc">>), Value("atmdev"),
      Value("unit"), List("payload", <<"bridged", "routed">>)>>

(* luci-mod-network/view/network/routes.js *)
NetworkRoutesFamily6Route6Route ==
    <<Required(Value("interface")), List("type", <<"", "local">>),
      Own(Required(Value("target"))), Value("gateway"), Value("metric"), Value("mtu"),
      Value("table"), Value("source"), Flag("onlink"), Flag("disabled")>>
NetworkRoutesFamily6Rule6Rule ==
    <<Value("priority"), List("action", <<"", "unreachable">>), Value("in"), Value("src"),
      Value("out"), Value("dest"), Value("lookup"), Value("goto"), Value("mark"), Value("tos"),
      Value("uidrange"), Value("suppress_prefixlength"), Flag("invert"), Flag("disabled")>>

(* luci-mod-network/view/network/switch.js *)
NetworkSwitchSid ==
    <<Flag("enable_mirror_rx"), Flag("enable_mirror_tx"),
      Dep(List("mirror_source_port", <<"*">>), {"enable_mirror_rx" :> "1", "enable_mirror_tx" :> "1"}),
      Dep(List("mirror_monitor_port", <<"*">>), {"enable_mirror_rx" :> "1", "enable_mirror_tx" :> "1"})>>
NetworkSwitchSwitchVlan ==
    <<Value("description")>>

(* luci-mod-network/view/network/wireless.js *)
NetworkWirelessWifiDevice1 ==
    <<SectionValue("_device")>>
NetworkWirelessWifiDevice2 ==
    <<SectionValue("_device")>>
NetworkWirelessWifiDevice3 ==
    <<Dummy("_badge"), Dummy("_stat")>>
NetworkWirelessDevice ==
    <<Dummy("_wifistat_modal"), Dummy("_toggle"), Own(Elsewhere(Value("_freq"), "*._freq")),
      Dep(Flag("legacy_rates"), {Holding("_freq" :> "2g")}), Own(Value("txpower")),
      Own(Value("country")), List("cell_density", <<"0", "1">>), Value("distance"),
      Value("frag"), Value("rts"), Flag("noscan"), Value("beacon_int")>>
NetworkWirelessDeviceA1 ==
    <<Own(List("mode", <<"ap", "sta", "adhoc", "mesh", "ahdemo", "monitor", "ap-wds", "sta-wds">>)),
      Dep(Value("mesh_id"), {"mode" :> "mesh"}),
      Dep(Required(Default(Flag("mesh_fwding"), "1")), {"mode" :> "mesh"}),
      Dep(Required(Default(Value("mesh_rssi_threshold"), "0")), {"mode" :> "mesh"}),
      Dep(Value("ssid"), {"mode" :> "ap", "mode" :> "sta", "mode" :> "adhoc", "mode" :> "ahdemo", "mode" :> "monitor", "mode" :> "ap-wds", "mode" :> "sta-wds", "mode" :> "wds"}),
      Dep(Value("bssid"), {"mode" :> "adhoc", "mode" :> "sta", "mode" :> "sta-wds"}),
      Own(Multi("network"))>>
NetworkWirelessDeviceA2 ==
    <<Dep(List("macfilter", <<"", "allow", "deny">>), {"mode" :> "ap", "mode" :> "ap-wds"}),
      Dep(Own(Retain(Multi("maclist"))), {"macfilter" :> "allow", "macfilter" :> "deny"})>>
NetworkWirelessDeviceA3 ==
    <<Dep(Flag("hidden"), {"mode" :> "ap", "mode" :> "ap-wds"}),
      Dep(Default(Flag("wmm"), "1"), {"mode" :> "ap", "mode" :> "ap-wds"}),
      Flag("multicast_to_unicast_all"),
      Dep(Flag("isolate"), {"mode" :> "ap", "mode" :> "ap-wds"}), Optional(Value("ifname")),
      Value("macaddr"), Default(Flag("short_preamble"), "1"), Optional(Value("dtim_period")),
      Optional(Value("wpa_group_rekey")), Optional(Flag("skip_inactivity_poll")),
      Optional(Value("max_inactivity")), Optional(Value("max_listen_interval")),
      Default(Flag("disassoc_low_ack"), "1"),
      Dep(Own(List("encryption", <<"*", "owe", "psk", "psk+psk2", "psk-mixed", "psk2", "sae", "sae-mixed", "wep-open", "wep-shared", "wpa", "wpa-mixed", "wpa2", "wpa3", "wpa3-mixed">>)), {"mode" :> "ap", "mode" :> "sta", "mode" :> "adhoc", "mode" :> "ahdemo", "mode" :> "ap-wds", "mode" :> "sta-wds", "mode" :> "mesh"}),
      Dep(Own(List("cipher", <<"auto", "ccmp">>)), {"encryption" :> "wpa", "encryption" :> "wpa2", "encryption" :> "wpa3", "encryption" :> "wpa3-mixed", "encryption" :> "psk", "encryption" :> "psk2", "encryption" :> "wpa-mixed", "encryption" :> "psk-mixed"})>>
NetworkWirelessDeviceA4 ==
    <<Dep(Value("auth_server"), ApWpa), Dep(Value("auth_port"), ApWpa),
      Dep(Value("auth_secret"), ApWpa), Dep(Value("acct_server"), ApWpa),
      Dep(Value("acct_port"), ApWpa), Dep(Value("acct_secret"), ApWpa),
      Dep(Own(List("dynamic_vlan", <<"0", "1">>)), ApWpa), Dep(Flag("per_sta_vif"), ApWpa),
      Dep(Flag("vlan_naming"), ApWpa), Dep(Value("vlan_tagged_interface"), ApWpa),
      Dep(Value("vlan_bridge"), ApWpa), Dep(Value("dae_client"), ApWpa),
      Dep(Value("dae_port"), ApWpa), Dep(Value("dae_secret"), ApWpa),
      Dep(Flag("rsn_preauth"), add_dependency_permutations("mode" :> {"ap", "ap-wds"} @@ "encryption" :> {"wpa2", "wpa3", "wpa3-mixed"})),
      Dep(Own(Value("_wpa_key")), {"encryption" :> "psk", "encryption" :> "psk2", "encryption" :> "psk+psk2", "encryption" :> "psk-mixed", "encryption" :> "sae", "encryption" :> "sae-mixed"}),
      Dep(Own(List("_wep_key", <<"1", "2">>)), {"encryption" :> "wep-open", "encryption" :> "wep-shared"})>>
NetworkWirelessDeviceA5 ==
    <<Dep(Flag("ieee80211r"), ApWpa \cup add_dependency_permutations("mode" :> {"ap", "ap-wds"} @@ "encryption" :> {"psk", "psk2", "psk-mixed", "sae", "sae-mixed"})),
      Dep(Value("nasid"), {"ieee80211r" :> "1"} \cup ApWpa),
      Dep(Value("mobility_domain"), {"ieee80211r" :> "1"}),
      Dep(Value("reassociation_deadline"), {"ieee80211r" :> "1"}),
      Dep(List("ft_over_ds", <<"0", "1">>), {"ieee80211r" :> "1"}),
      Dep(Required(Default(Flag("ft_psk_generate_local"), "1")), {"ieee80211r" :> "1"}),
      Dep(Value("r0_key_lifetime"), {"ieee80211r" :> "1"}),
      Dep(Value("r1_key_holder"), {"ieee80211r" :> "1"}),
      Dep(Flag("pmk_r1_push"), {"ieee80211r" :> "1"}), Dep(Multi("r0kh"), {"ieee80211r" :> "1"}),
      Dep(Multi("r1kh"), {"ieee80211r" :> "1"}),
      Dep(Flag("ieee80211k"), {"mode" :> "ap", "mode" :> "ap-wds"}),
      Dep(Default(Flag("rrm_neighbor_report"), "1"), {"ieee80211k" :> "1"}),
      Dep(Default(Flag("rrm_beacon_report"), "1"), {"ieee80211k" :> "1"}),
      Own(List("time_advertisement", <<"0", "2">>)), Value("time_zone"), Flag("wnm_sleep_mode"),
      Flag("wnm_sleep_mode_no_keys"), Flag("bss_transition"), Flag("proxy_arp"),
      Dep(List("eap_type", <<"tls", "ttls", "peap", "fast">>), StaWpa),
      Dep(Flag("ca_cert_usesystem"), StaWpa),
      Dep(FileUpload("ca_cert"), add_dependency_permutations("mode" :> {"sta", "sta-wds"} @@ "encryption" :> Wpa @@ "ca_cert_usesystem" :> {"0"})),
      Dep(Value("subject_match"), StaWpa), Dep(Multi("altsubject_match"), StaWpa),
      Dep(Multi("domain_match"), StaWpa), Dep(Multi("domain_suffix_match"), StaWpa),
      Dep(FileUpload("client_cert"), add_dependency_permutations("mode" :> {"sta", "sta-wds"} @@ "encryption" :> Wpa @@ "eap_type" :> {"tls"}))>>
NetworkWirelessDeviceA6 ==
    <<Dep(FileUpload("priv_key"), add_dependency_permutations("mode" :> {"sta", "sta-wds"} @@ "encryption" :> Wpa @@ "eap_type" :> {"tls"})),
      Dep(Value("priv_key_pwd"), add_dependency_permutations("mode" :> {"sta", "sta-wds"} @@ "encryption" :> Wpa @@ "eap_type" :> {"tls"})),
      Dep(List("auth", <<"PAP", "CHAP", "EAP-TLS">>), add_dependency_permutations("mode" :> {"sta", "sta-wds"} @@ "encryption" :> Wpa @@ "eap_type" :> {"fast", "peap", "ttls"})),
      Dep(Flag("ca_cert2_usesystem"), StaWpaInnerTls),
      Dep(FileUpload("ca_cert2"), add_dependency_permutations("mode" :> {"sta", "sta-wds"} @@ "encryption" :> Wpa @@ "auth" :> {"EAP-TLS"} @@ "ca_cert2_usesystem" :> {"0"})),
      Dep(Value("subject_match2"), StaWpaInnerTls),
      Dep(Multi("altsubject_match2"), StaWpaInnerTls),
      Dep(Multi("domain_match2"), StaWpaInnerTls),
      Dep(Multi("domain_suffix_match2"), StaWpaInnerTls),
      Dep(FileUpload("client_cert2"), StaWpaInnerTls),
      Dep(FileUpload("priv_key2"), StaWpaInnerTls), Dep(Value("priv_key2_pwd"), StaWpaInnerTls),
      Dep(Value("identity"), add_dependency_permutations("mode" :> {"sta", "sta-wds"} @@ "encryption" :> Wpa @@ "eap_type" :> {"fast", "peap", "tls", "ttls"})),
      Dep(Value("anonymous_identity"), add_dependency_permutations("mode" :> {"sta", "sta-wds"} @@ "encryption" :> Wpa @@ "eap_type" :> {"fast", "peap", "tls", "ttls"})),
      Dep(Value("password"), add_dependency_permutations("mode" :> {"sta", "sta-wds"} @@ "encryption" :> Wpa @@ "eap_type" :> {"fast", "peap", "ttls"})),
      Dep(Own(List("ieee80211w", <<"0", "1", "2">>)), add_dependency_permutations("mode" :> {"ap", "ap-wds", "sta", "sta-wds"} @@ "encryption" :> {"owe", "psk2", "psk-mixed", "sae", "sae-mixed", "wpa2", "wpa3", "wpa3-mixed"})),
      Dep(Value("ieee80211w_max_timeout"), {"ieee80211w" :> "1", "ieee80211w" :> "2"}),
      Dep(Value("ieee80211w_retry_timeout"), {"ieee80211w" :> "1", "ieee80211w" :> "2"}),
      Dep(Flag("wpa_disable_eapol_key_retries"), add_dependency_permutations("mode" :> {"ap", "ap-wds"} @@ "encryption" :> {"psk2", "psk-mixed", "sae", "sae-mixed", "wpa2", "wpa3", "wpa3-mixed"})),
      Dep(Flag("wps_pushbutton"), {"encryption" :> "psk", "encryption" :> "psk2", "encryption" :> "psk-mixed", "encryption" :> "sae", "encryption" :> "sae-mixed"})>>
NetworkWirelessNew ==
    <<Required(Value("ssid")), Flag("replace"), Required(Default(Value("name"), "wwan%d")),
      Required(Value("password")), Flag("bssid"), Default(Value("zone"), "wan")>>

(* luci-mod-system/view/system/dropbear.js *)
SystemDropbear ==
    <<Value("Interface"), Value("Port"),
      Required(Default(Switch(Flag("PasswordAuth"), "on", "off"), "on")),
      Default(Switch(Flag("RootPasswordAuth"), "on", "off"), "on"),
      Default(Switch(Flag("GatewayPorts"), "on", "off"), "off")>>

(* luci-mod-system/view/system/flash.js *)
SystemFlashActions1 ==
    <<SectionValue("actions"), SectionValue("actions")>>
SystemFlashActions2 ==
    <<SectionValue("actions")>>
SystemFlashActions3 ==
    <<SectionValue("actions")>>
SystemFlashActionsA ==
    <<Dummy("dl_backup")>>
SystemFlashActionsB ==
    <<Dummy("reset"), Dummy("restore")>>
SystemFlashActionsC ==
    <<List("mtdselect", <<"*">>), Dummy("mtddownload")>>
SystemFlashActionsD ==
    <<Dummy("sysupgrade")>>
SystemFlashConfig ==
    <<Dummy("showlist"), Own(TextValue("editlist"))>>

(* luci-mod-system/view/system/led-trigger/heartbeat.js *)
SystemHeartbeat ==
    <<Dep(Flag("inverted"), {"trigger" :> "heartbeat"})>>

(* luci-mod-system/view/system/led-trigger/netdev.js *)
SystemNetdev ==
    <<Dep(Into(Value("_net_dev"), "dev"), {"trigger" :> "netdev"}),
      Dep(MultiValue("mode"), {"trigger" :> "netdev"})>>

(* luci-mod-system/view/system/led-trigger/none.js *)
SystemNone ==
    <<Dep(Required(Flag("default")), {"trigger" :> "none"})>>

(* luci-mod-system/view/system/led-trigger/timer.js *)
SystemTimer ==
    <<Dep(Value("delayon"), {"trigger" :> "timer"}),
      Dep(Value("delayoff"), {"trigger" :> "timer"})>>

(* luci-mod-system/view/system/leds.js *)
SystemLeds ==
    <<Value("name"), List("sysfs", <<"*">>), Own(List("trigger", <<"*">>))>>

(* luci-mod-system/view/system/mounts.js *)
SystemMountsGlobal ==
    <<Dummy("_detect"), Dummy("_mountall"), Required(Flag("anon_swap")),
      Required(Flag("anon_mount")), Required(Default(Flag("auto_swap"), "1")),
      Required(Default(Flag("auto_mount"), "1")), Required(Flag("check_fs")), Dummy("_mtab")>>
SystemMountsMount ==
    <<Required(Default(Flag("enabled"), "1")), Dummy("_device"), Value("uuid"),
      Dep(Value("label"), {"uuid" :> ""}), Dep(Value("device"), {"uuid" :> "" @@ "label" :> ""}),
      Required(Value("target")), Dep(Dummy("__notice"), {"target" :> "/"}),
      List("fstype", <<"", "*">>), Value("options"), Flag("enabled_fsck")>>
SystemMountsSwap ==
    <<Required(Flag("enabled")), Dummy("_device"), Value("uuid"),
      Dep(Value("label"), {"uuid" :> ""}),
      Dep(Value("device"), {"uuid" :> "" @@ "label" :> ""})>>

(* luci-mod-system/view/system/password.js *)
SystemPassword ==
    <<Value("pw1"), Value("pw2")>>

(* luci-mod-system/view/system/system.js *)
System1 ==
    <<Own(Value("_systime")), Value("hostname"), Optional(Value("description")),
      Optional(TextValue("notes")), Own(List("zonename", <<"UTC", "*">>)),
      Optional(Value("log_size")), Optional(Value("log_ip")), Optional(Value("log_port")),
      List("log_proto", <<"udp", "tcp">>), Optional(Value("log_file")),
      List("conloglevel", <<"8", "7">>), Default(List("cronloglevel", <<"5", "8", "9">>), "8"),
      Optional(Value("zram_size_mb")),
      Optional(Default(List("zram_comp_algo", <<"lzo", "lz4">>), "lzo")),
      Into(List("_lang", <<"auto", "*">>), "luci.main.lang"),
      Into(List("_mediaurlbase", <<"*">>), "luci.main.mediaurlbase")>>
System2 ==
    <<Own(Elsewhere(Required(Flag("enabled")), "ntp.enabled")),
      Dep(Elsewhere(Flag("enable_server"), "ntp.enable_server"), {"enabled" :> "1"}),
      Dep(Elsewhere(Optional(Value("interface")), "ntp.interface"), {"enable_server" :> "1"}),
      Dep(Elsewhere(Default(Flag("use_dhcp"), "1"), "ntp.use_dhcp"), {"enabled" :> "1"}),
      Dep(Own(Elsewhere(Multi("server"), "ntp.server")), {"enabled" :> "1"})>>

(* luci-mod-system/view/system/uhttpd.js *)
SystemUhttpd ==
    <<Required(Flag("redirect_https"))>>

(* luci-proto-3g/protocol/3g.js *)
V3g ==
    <<Own(Into(Required(Value("_modem_device")), "device")), Value("service"), Value("apn"),
      Value("pincode"), Value("username"), Value("password"), Value("dialnumber"),
      Into(Default(List("ppp_ipv6", <<"auto", "0">>), "auto"), "ipv6"), Value("delay"),
      Own(Value("_keepalive_failure")), Own(Value("_keepalive_interval")), Value("demand")>>

(* luci-proto-batman-adv/protocol/batadv.js *)
BatmanAdvBatadv ==
    <<Default(List("routing_algo", <<"BATMAN_IV", "BATMAN_V">>), "BATMAN_IV"),
      Into(Flag("aggregated_ogms"), "aggregated_ogms"), Value("orig_interval"),
      Into(Flag("ap_isolation"), "ap_isolation"), Into(Flag("bonding"), "bonding"),
      Into(Flag("bridge_loop_avoidance"), "bridge_loop_avoidance"),
      Into(Default(Flag("distributed_arp_table"), "1"), "distributed_arp_table"),
      Into(Default(Flag("fragmentation"), "1"), "fragmentation"),
      Default(List("gw_mode", <<"off", "client">>), "off"),
      Into(Default(Value("hop_penalty"), "30"), "hop_penalty"),
      Into(Default(Flag("multicast_mode"), "1"), "multicast_mode"),
      Into(Default(Flag("network_coding"), "1"), "network_coding")>>

(* luci-proto-batman-adv/protocol/batadv_hardif.js *)
BatmanAdvBatadvHardif ==
    <<List("master", <<"*">>), Value("mtu")>>

(* luci-proto-bonding/protocol/bonding.js *)
Bonding1 ==
    <<Required(Value("ipaddr")), Required(Value("netmask")), Own(Required(MultiValue("slaves"))),
      Default(List("bonding_policy", <<"balance-rr", "active-backup", "balance-xor", "broadcast", "802.3ad", "balance-tlb", "balance-alb">>), "balance-rr"),
      Dep(Value("primary"), {"bonding_policy" :> "active-backup", "bonding_policy" :> "balance-tlb", "bonding_policy" :> "balance-alb"}),
      Dep(Default(List("primary_reselect", <<"always", "better">>), "always"), {"bonding_policy" :> "active-backup", "bonding_policy" :> "balance-tlb", "bonding_policy" :> "balance-alb"}),
      Dep(Required(Default(Value("min_links"), "0")), {"bonding_policy" :> "802.3ad"}),
      Dep(Required(Default(Value("ad_actor_sys_prio"), "65535")), {"bonding_policy" :> "802.3ad"}),
      Dep(Value("ad_actor_system"), {"bonding_policy" :> "802.3ad"}),
      Dep(Default(List("ad_select", <<"stable", "bandwidth">>), "stable"), {"bonding_policy" :> "802.3ad"}),
      Dep(Default(List("lacp_rate", <<"slow", "fast">>), "slow"), {"bonding_policy" :> "802.3ad"}),
      Dep(Required(Default(Value("packets_per_slave"), "1")), {"bonding_policy" :> "balance-rr"}),
      Dep(Required(Default(Value("lp_interval"), "1")), {"bonding_policy" :> "balance-tlb", "bonding_policy" :> "balance-alb"}),
      Dep(Default(List("tlb_dynamic_lb", <<"1", "0">>), "1"), {"bonding_policy" :> "balance-tlb"}),
      Dep(Default(List("fail_over_mac", <<"none", "active">>), "none"), {"bonding_policy" :> "active-backup"})>>
Bonding2 ==
    <<Dep(Required(Default(Value("num_grat_arp__num_unsol_na"), "1")), {"bonding_policy" :> "active-backup"}),
      Dep(Default(List("xmit_hash_policy", <<"layer2", "layer2+3">>), "layer2"), {"bonding_policy" :> "balance-xor", "bonding_policy" :> "balance-alb", "bonding_policy" :> "balance-tlb", "bonding_policy" :> "802.3ad"}),
      Dep(Required(Default(Value("resend_igmp"), "1")), {"bonding_policy" :> "balance-tlb", "bonding_policy" :> "balance-alb"}),
      Default(List("all_slaves_active", <<"0", "1">>), "0"),
      Default(List("link_monitoring", <<"off", "arp", "mii">>), "off"),
      Dep(Required(Default(Value("arp_interval"), "0")), {"link_monitoring" :> "arp"}),
      Dep(Multi("arp_ip_target"), {"link_monitoring" :> "arp"}),
      Dep(Default(List("arp_all_targets", <<"any", "all">>), "any"), {"link_monitoring" :> "arp" @@ "bonding_policy" :> "active-backup"}),
      Dep(Default(List("arp_validate", <<"none", "active", "filter">>), "filter"), {"link_monitoring" :> "arp"}),
      Dep(Required(Default(Value("miimon"), "0")), {"link_monitoring" :> "mii"}),
      Dep(Required(Default(Value("downdelay"), "0")), {"link_monitoring" :> "mii"}),
      Dep(Required(Default(Value("updelay"), "0")), {"link_monitoring" :> "mii"}),
      Dep(Default(List("use_carrier", <<"0", "1">>), "1"), {"link_monitoring" :> "mii"})>>

(* luci-proto-gre/protocol/gre.js *)
Gre ==
    <<Value("peeraddr"), Own(Optional(Value("ipaddr"))), Optional(Value("tunlink")),
      Optional(Value("mtu")), Optional(Value("ttl")), Optional(Value("tos")),
      Default(Flag("df"), "1"), Optional(Flag("nohostroute")), Optional(Flag("multicast")),
      Optional(Value("ikey")), Optional(Value("okey")), Flag("icsum"), Flag("ocsum"),
      Flag("iseqno"), Flag("oseqno")>>

(* luci-proto-gre/protocol/gretap.js *)
GreGretap ==
    <<Value("peeraddr"), Own(Optional(Value("ipaddr"))), Optional(Value("network")),
      Optional(Value("tunlink")), Optional(Value("mtu")), Optional(Value("ttl")),
      Optional(Value("tos")), Default(Flag("df"), "1"), Optional(Flag("nohostroute")),
      Optional(Flag("multicast")), Optional(Value("ikey")), Optional(Value("okey")),
      Flag("icsum"), Flag("ocsum"), Flag("iseqno"), Flag("oseqno")>>

(* luci-proto-gre/protocol/grev6.js *)
GreGrev6 ==
    <<Value("peer6addr"), Own(Optional(Value("ip6addr"))), Optional(Value("weakif")),
      Optional(Value("tunlink")), Optional(Value("mtu")), Optional(Value("ttl")),
      Optional(Value("tos")), Optional(Flag("nohostroute")), Optional(Flag("multicast")),
      Optional(Value("ikey")), Optional(Value("okey")), Flag("icsum"), Flag("ocsum"),
      Flag("iseqno"), Flag("oseqno")>>

(* luci-proto-gre/protocol/grev6tap.js *)
GreGrev6tap ==
    <<Own(Value("peer6addr")), Optional(Value("ip6addr")), Optional(Value("weakif")),
      Optional(Value("network")), Optional(Value("tunlink")), Optional(Value("mtu")),
      Optional(Value("ttl")), Optional(Value("tos")), Optional(Flag("nohostroute")),
      Optional(Flag("multicast")), Optional(Value("ikey")), Optional(Value("okey")),
      Flag("icsum"), Flag("ocsum"), Flag("iseqno"), Flag("oseqno")>>

(* luci-proto-hnet/protocol/hnet.js *)
Hnet ==
    <<Default(List("mode", <<"auto", "external">>), "auto"), Value("link_id"),
      Default(Value("ip4assign"), "24"), Default(Value("dnsname"), "*")>>

(* luci-proto-ipip/protocol/ipip.js *)
Ipip ==
    <<Value("peeraddr"), Optional(Value("ipaddr")), Optional(Value("tunlink")),
      Optional(Value("mtu")), Optional(Value("ttl")), Optional(Value("tos")),
      Optional(Flag("df")), Optional(Flag("nohostroute"))>>

(* luci-proto-ipv6/protocol/464xlat.js *)
Ipv6464xlat ==
    <<Value("ip6prefix"), Value("tunlink"), Value("mtu")>>

(* luci-proto-ipv6/protocol/6in4.js *)
Ipv66in4 ==
    <<Own(Value("ipaddr")), Required(Value("peeraddr")), Value("ip6addr"), Multi("ip6prefix"),
      Own(Flag("_update")), Dep(Value("tunnelid"), {"_update" :> "1"}),
      Dep(Value("username"), {"_update" :> "1"}), Dep(Value("password"), {"_update" :> "1"}),
      Value("ttl"), Value("mtu")>>

(* luci-proto-ipv6/protocol/6rd.js *)
Ipv66rd ==
    <<Own(Value("ipaddr")), Required(Value("peeraddr")), Required(Value("ip6prefix")),
      Value("ip6prefixlen"), Value("ip4prefixlen"), Value("ttl"), Value("mtu")>>

(* luci-proto-ipv6/protocol/6to4.js *)
Ipv66to4 ==
    <<Own(Value("ipaddr")), Value("ttl"), Value("mtu")>>

(* luci-proto-ipv6/protocol/dhcpv6.js *)
Ipv6Dhcpv6 ==
    <<Default(List("reqaddress", <<"try", "force">>), "try"),
      Default(Value("reqprefix"), "auto"), Value("clientid")>>

(* luci-proto-ipv6/protocol/dslite.js *)
Ipv6Dslite ==
    <<Required(Value("peeraddr")), Own(Value("ip6addr")), Value("tunlink"),
      Required(Default(List("encaplimit", <<"ignore", "*">>), "ignore")), Value("mtu")>>

(* luci-proto-ipv6/protocol/map.js *)
Ipv6Map ==
    <<List("maptype", <<"map-e", "map-t">>), Required(Value("peeraddr")), Value("ipaddr"),
      Value("ip4prefixlen"), Required(Value("ip6prefix")), Value("ip6prefixlen"), Value("ealen"),
      Value("psidlen"), Value("offset"), Value("tunlink"), Value("ttl"), Value("mtu"),
      Flag("legacymap")>>

(* luci-proto-mbim/protocol/mbim.js *)
Mbim ==
    <<Own(Into(Required(Value("_modem_device")), "device")), Value("apn"), Value("pincode"),
      Default(List("auth", <<"both", "pap", "chap", "none">>), "none"),
      Dep(Value("username"), {"auth" :> "pap", "auth" :> "chap", "auth" :> "both"}),
      Dep(Value("password"), {"auth" :> "pap", "auth" :> "chap", "auth" :> "both"}),
      Default(List("pdptype", <<"ipv4v6", "ipv4", "ipv6">>), "ipv4v6"),
      Into(Default(Flag("mbim_ipv6"), "1"), "ipv6"),
      Dep(List("dhcp", <<"", "0">>), {"pdptype" :> "ipv4", "pdptype" :> "ipv4v6"}),
      Dep(List("dhcpv6", <<"", "0">>), {"pdptype" :> "ipv6", "pdptype" :> "ipv4v6"}),
      Value("delay"), Value("mtu"), Default(Flag("defaultroute"), "1"),
      Dep(Value("metric"), {"defaultroute" :> "1"}), Default(Flag("peerdns"), "1"),
      Dep(Multi("dns"), {"peerdns" :> "0"})>>

(* luci-proto-modemmanager/protocol/modemmanager.js *)
Modemmanager ==
    <<Own(Into(Required(List("_modem_device", <<"*">>)), "device")), Value("apn"),
      Value("pincode"), Default(List("auth", <<"both", "pap", "chap", "none">>), "none"),
      List("allowedmode", <<"2g", "3g", "3g|2g", "4g|2g", "4g|3g", "4g|3g|2g", "5g|2g", "5g|3g", "5g|3g|2g", "5g|4g", "5g|4g|2g", "5g|4g|3g", "5g|4g|3g|2g", "">>),
      Dep(List("preferredmode", <<"2g", "3g">>), {"allowedmode" :> "3g|2g", "allowedmode" :> "4g|2g", "allowedmode" :> "4g|3g", "allowedmode" :> "4g|3g|2g", "allowedmode" :> "5g|2g", "allowedmode" :> "5g|3g", "allowedmode" :> "5g|3g|2g", "allowedmode" :> "5g|4g", "allowedmode" :> "5g|4g|2g", "allowedmode" :> "5g|4g|3g", "allowedmode" :> "5g|4g|3g|2g"}),
      Dep(Value("username"), {"auth" :> "pap", "auth" :> "chap", "auth" :> "both"}),
      Dep(Value("password"), {"auth" :> "pap", "auth" :> "chap", "auth" :> "both"}),
      Default(List("iptype", <<"ipv4v6", "ipv4">>), "ipv4v6"), Value("mtu"),
      Value("signalrate")>>

(* luci-proto-ncm/protocol/ncm.js *)
Ncm ==
    <<Own(Into(Required(Value("_modem_device")), "device")), Value("mode"),
      Default(List("pdptype", <<"IP", "IPV4V6">>), "IP"), Value("apn"), Value("pincode"),
      Value("username"), Value("password"),
      Into(Default(List("ppp_ipv6", <<"auto", "0">>), "auto"), "ipv6"), Value("delay")>>

(* luci-proto-nebula/protocol/nebula.js *)
Nebula ==
    <<Required(Value("config_file"))>>

(* luci-proto-openconnect/protocol/openconnect.js *)
Openconnect ==
    <<List("vpn_protocol", <<"anyconnect", "nc">>), Value("server"), Value("port"),
      Value("serverhash"), Value("authgroup"), Value("usergroup"), Value("username"),
      Value("password"), Value("password2"), Optional(Value("proxy")),
      Own(TextValue("usercert")), Own(TextValue("userkey")), Own(TextValue("ca")),
      Optional(Value("mtu")), Optional(Value("reconnect_timeout"))>>

(* luci-proto-openfortivpn/protocol/openfortivpn.js *)
Openfortivpn ==
    <<Value("peeraddr"), Optional(Value("port")), Value("username"), Value("password"),
      Own(TextValue("user_cert")), Own(TextValue("user_key")), Own(TextValue("ca_file")),
      Optional(Value("tunlink")), Optional(Value("persist_int")),
      Optional(Value("trusted_cert")), Optional(Default(Flag("defaultroute"), "1")),
      Optional(Default(Flag("peerdns"), "1")), Optional(Value("metric")),
      Optional(Value("local_ip"))>>

(* luci-proto-ppp/protocol/l2tp.js *)
PppL2tp ==
    <<Value("server"), Value("username"), Value("password"),
      Into(Default(List("ppp_ipv6", <<"auto", "0">>), "auto"), "ipv6"), Value("mtu")>>

(* luci-proto-ppp/protocol/ppp.js *)
Ppp ==
    <<Own(Into(Required(Value("_modem_device")), "device")), Value("username"),
      Value("password"), Into(Default(List("ppp_ipv6", <<"auto", "0">>), "auto"), "ipv6"),
      Own(Value("_keepalive_failure")), Own(Value("_keepalive_interval")), Value("demand"),
      Value("mtu")>>

(* luci-proto-ppp/protocol/pppoa.js *)
PppPppoa ==
    <<List("encaps", <<"vc", "llc">>), Default(Value("atmdev"), "0"),
      Default(Value("vci"), "35"), Default(Value("vpi"), "8"), Value("username"),
      Value("password"), Into(Default(List("ppp_ipv6", <<"auto", "0">>), "auto"), "ipv6"),
      Own(Value("_keepalive_failure")), Own(Value("_keepalive_interval")), Value("demand"),
      Value("mtu")>>

(* luci-proto-ppp/protocol/pppoe.js *)
PppPppoe ==
    <<Value("username"), Value("password"), Value("ac"), Value("service"),
      Into(Default(List("ppp_ipv6", <<"auto", "0">>), "auto"), "ipv6"),
      Own(Value("_keepalive_failure")), Own(Value("_keepalive_interval")), Value("host_uniq"),
      Value("demand"), Value("mtu")>>

(* luci-proto-ppp/protocol/pptp.js *)
PppPptp ==
    <<Value("server"), Value("username"), Value("password"),
      Into(Default(List("ppp_ipv6", <<"auto", "0">>), "auto"), "ipv6"),
      Own(Value("_keepalive_failure")), Own(Value("_keepalive_interval")), Value("demand"),
      Value("mtu")>>

(* luci-proto-pppossh/protocol/pppossh.js *)
Pppossh ==
    <<Required(Value("sshuser")), Required(Value("server")), Optional(Value("port")),
      Optional(Value("ssh_options")), Optional(Multi("identity")), Value("ipaddr"),
      Value("peeraddr"), Into(Flag("ppp_ipv6"), "ipv6"), Own(Value("_keepalive_failure")),
      Own(Value("_keepalive_interval")), Value("demand")>>

(* luci-proto-qmi/protocol/qmi.js *)
Qmi ==
    <<Own(Into(Required(Value("_modem_device")), "device")), Value("apn"),
      Dep(Value("v6apn"), {"pdptype" :> "ipv4v6"}), Value("pincode"),
      Default(List("auth", <<"both", "pap", "chap", "none">>), "none"),
      Dep(Value("username"), {"auth" :> "pap", "auth" :> "chap", "auth" :> "both"}),
      Dep(Value("password"), {"auth" :> "pap", "auth" :> "chap", "auth" :> "both"}),
      Into(Flag("ppp_ipv6"), "ipv6"), Value("delay"), Value("mtu"),
      Default(List("pdptype", <<"ipv4v6", "ipv4">>), "ipv4v6"),
      Default(Flag("defaultroute"), "1"), Dep(Value("metric"), {"defaultroute" :> "1"}),
      Default(Flag("peerdns"), "1"), Value("profile"),
      Dep(Value("v6profile"), {"pdptype" :> "ipv4v6"})>>

(* luci-proto-relay/protocol/relay.js *)
Relay ==
    <<Value("ipaddr"), Multi("network"), Default(Flag("forward_bcast"), "1"),
      Default(Flag("forward_dhcp"), "1"), Dep(Value("gateway"), {"forward_dhcp" :> "1"}),
      Value("expiry"), Value("retry"), Value("table")>>

(* luci-proto-sstp/protocol/sstp.js *)
Sstp ==
    <<Value("server"), Value("username"), Value("password"), Into(Flag("ppp_ipv6"), "ipv6"),
      Default(List("log_level", <<"0", "1">>), "0"), Value("mtu"), Value("sstp_options"),
      Value("pppd_options")>>

(* luci-proto-unet/protocol/unet.js *)
Unet ==
    <<Dummy("device"), Dummy("key"), Dummy("auth_key")>>

(* luci-proto-vpnc/protocol/vpnc.js *)
Vpnc ==
    <<Value("server"), Value("local_addr"), Value("local_port"), Value("interface"),
      Value("mtu"), Value("username"), Value("password"), Value("hexpassword"),
      Value("authgroup"), Value("passgroup"), Value("hexpassgroup"), Value("domain"),
      Value("vendor"), List("dh_group", <<"dh2", "dh1">>), List("pfs", <<"server", "nopfs">>),
      List("natt_mode", <<"natt", "none">>), Flag("enable_no_enc"), Flag("enable_single_des"),
      Value("dpd_idle"), Value("target_network")>>

(* luci-proto-vti/protocol/vti.js *)
Vti ==
    <<Value("peeraddr"), Own(Optional(Value("ipaddr"))), Value("mtu"),
      Optional(Value("tunlink")), Optional(Value("ikey")), Optional(Value("okey"))>>

(* luci-proto-vxlan/protocol/vxlan.js *)
Vxlan ==
    <<Value("peeraddr"), Optional(Value("ipaddr")), Optional(Value("port")),
      Optional(Value("vid")), Optional(Value("tunlink")), Optional(Value("ttl")),
      Optional(Value("tos")), Optional(Default(Flag("rxcsum"), "1")),
      Optional(Default(Flag("txcsum"), "1"))>>

(* luci-proto-vxlan/protocol/vxlan6.js *)
VxlanVxlan6 ==
    <<Value("peer6addr"), Optional(Value("ip6addr")), Optional(Value("vid")),
      Optional(Value("tunlink")), Optional(Value("ttl")), Optional(Value("tos")),
      Optional(Default(Flag("rxcsum"), "1")), Optional(Default(Flag("txcsum"), "1"))>>

(* luci-proto-wireguard/protocol/wireguard.js *)
Wireguard ==
    <<Required(Value("private_key")), Own(Required(Value("public_key"))),
      Own(Value("_gen_server_keypair")), Optional(Value("listen_port")),
      Optional(Multi("addresses")), Optional(Flag("nohostroute")), Dummy("_import"),
      Optional(Value("mtu")), Optional(Value("fwmark")),
      Dep(SectionValue("_peers"), {"proto" :> "wireguard"})>>
WireguardPeers1 ==
    <<Optional(Flag("disabled")), Optional(Value("description")), Value("public_key"),
      Value("private_key"), Own(Value("_gen_peer_keypair")), Value("preshared_key"),
      Dummy("_gen_psk"), Multi("allowed_ips"), Flag("route_allowed_ips")>>
WireguardPeers2 ==
    <<Value("endpoint_host"), Value("endpoint_port"), Value("persistent_keepalive"),
      Dummy("_keyops")>>
WireguardConfig ==
    <<Value("endpoint"), Default(Multi("allowed_ips"), "[v]"), Dummy("output")>>

(* luci-proto-xfrm/protocol/xfrm.js *)
Xfrm ==
    <<Value("ifid"), Value("tunlink"), Optional(Value("mtu"))>>

ViewsNetworkForms ==
    <<BaseDhcp, Within({"ip6assign"}, BaseStatic), Network1 \o Network2 \o Network3,
      NetworkBridgeVlan,
      NetworkDhcpDnsmasq1 \o NetworkDhcpDnsmasq2 \o NetworkDhcpDnsmasq3 \o NetworkDhcpDnsmasq4 \o NetworkDhcpDnsmasq5 \o NetworkDhcpDnsmasq6 \o NetworkDhcpDnsmasq7 \o NetworkDhcpDnsmasq8 \o NetworkDhcpDnsmasq9 \o NetworkDhcpDnsmasq10,
      NetworkDhcpRelays, NetworkDhcpPxe, NetworkDhcpSrvhosts, NetworkDhcpMxhosts,
      NetworkDhcpCname, NetworkDhcpHosts, NetworkDhcpIpsets,
      NetworkDhcpLeases1 \o NetworkDhcpLeases2,
      Narrowed(NetworkInterfacesInterface1 \o NetworkInterfacesInterface2 \o NetworkInterfacesInterface3 \o NetworkInterfacesInterface4, {"proto", "auto", "_dhcp", "_zone", "_ifacestat_modal"}, "proto" :> "*"),
      NetworkInterfacesInterface5,
      NetworkInterfacesDhcp1 \o NetworkInterfacesDhcp2 \o NetworkInterfacesDhcp3,
      NetworkInterfacesNew, NetworkInterfacesDevice, NetworkInterfacesGlobals,
      NetworkInterfacesDsl, NetworkInterfacesAtmBridge, NetworkRoutesFamily6Route6Route,
      NetworkRoutesFamily6Rule6Rule, NetworkSwitchSid, NetworkSwitchSwitchVlan,
      NetworkWirelessWifiDevice1 \o NetworkWirelessWifiDevice2 \o NetworkWirelessWifiDevice3,
      NetworkWirelessDevice,
      NetworkWirelessDeviceA1 \o NetworkWirelessDeviceA2 \o NetworkWirelessDeviceA3 \o NetworkWirelessDeviceA4 \o NetworkWirelessDeviceA5 \o NetworkWirelessDeviceA6,
      NetworkWirelessNew, SystemDropbear,
      SystemFlashActions1 \o SystemFlashActions2 \o SystemFlashActions3, SystemFlashActionsA,
      SystemFlashActionsB, SystemFlashActionsC, SystemFlashActionsD, SystemFlashConfig,
      Within({"trigger"}, SystemHeartbeat), Within({"trigger"}, SystemNetdev),
      Within({"trigger"}, SystemNone), Within({"trigger"}, SystemTimer), SystemLeds,
      SystemMountsGlobal, SystemMountsMount, SystemMountsSwap, SystemPassword,
      System1 \o System2, SystemUhttpd, V3g, BatmanAdvBatadv, BatmanAdvBatadvHardif,
      Bonding1 \o Bonding2, Gre, GreGretap, GreGrev6, GreGrev6tap, Hnet, Ipip, Ipv6464xlat,
      Ipv66in4, Ipv66rd, Ipv66to4, Ipv6Dhcpv6, Ipv6Dslite, Ipv6Map, Mbim, Modemmanager, Ncm,
      Nebula, Openconnect, Openfortivpn, PppL2tp, Ppp, PppPppoa, PppPppoe, PppPptp, Pppossh, Qmi,
      Relay, Sstp, Unet, Vpnc, Vti, Vxlan, VxlanVxlan6, Within({"proto"}, Wireguard),
      WireguardPeers1 \o WireguardPeers2, WireguardConfig, Xfrm>>
=============================================================================
