------------------------------- MODULE ViewsMoreApps -------------------------------
(* Forms of the views of the applications m to z: the                      *)
(* fields of each section in the order of their declaration (see           *)
(* FormFields).  Of a long list of choices only those that something       *)
(* depends on are kept, with the first and one other; "*" stands for       *)
(* a choice or a default computed by the view.  A field declared under     *)
(* a condition is taken as declared.                                       *)
EXTENDS FormFields

(* luci-app-minidlna/view/minidlna.js *)
MinidlnaMinidlna ==
    <<Flag("enabled"), Default(Value("port"), "8200"), Own(Multi("interface")),
      Value("friendly_name"), List("root_container", <<".", "B">>), Multi("media_dir"),
      Own(Multi("album_art_names")), Value("db_dir"), Default(Flag("inotify"), "1"),
      Flag("enable_tivo"), Flag("wide_links"), Flag("strict_dlna"), Value("presentation_url"),
      Value("notify_interval"), Value("serial"), Value("uuid"), Value("model_number"),
      Value("minissdpsocket")>>

(* luci-app-mjpg-streamer/view/mjpg-streamer/mjpg-streamer.js *)
MjpgStreamerMjpgStreamer ==
    <<Flag("enabled"), Dep(List("input", <<"uvc">>), {"enabled" :> "1"}),
      Dep(List("output", <<"http", "file">>), {"enabled" :> "1"})>>
MjpgStreamerMjpgStreamerA1 ==
    <<Default(Value("device"), "/dev/video0"), Optional(Default(Value("resolution"), "640x480")),
      Optional(Value("fps")), Flag("yuv"), Value("quality"), Value("minimum_size"),
      Flag("no_dynctrl"), Optional(List("led", <<"on", "off">>)), Value("port"),
      Flag("enable_auth"), Dep(Value("username"), {"enable_auth" :> "1"}),
      Dep(Default(Value("password"), "0"), {"enable_auth" :> "1"}),
      Default(Value("www"), "/www/webcam/")>>
MjpgStreamerMjpgStreamerA2 ==
    <<Dep(Dummy("_dummy"), {"output" :> "http"}), Value("folder"), Value("delay"),
      Value("ringbuffer"), Value("exceed"), Value("command"), Value("link")>>

(* luci-app-mwan3/view/mwan3/network/globals.js *)
Mwan3Globals ==
    <<Default(Value("mmx_mask"), "0x3F00"), Flag("logging"),
      Dep(Default(List("loglevel", <<"emerg", "alert", "notice">>), "notice"), {"logging" :> "1"}),
      Multi("rt_table_lookup")>>

(* luci-app-mwan3/view/mwan3/network/interface.js *)
Mwan3Interface1 ==
    <<Flag("enabled"), Default(List("initial_state", <<"online", "offline">>), "online"),
      Default(List("family", <<"ipv4", "ipv6">>), "ipv4"), Multi("track_ip"),
      Default(List("track_method", <<"ping", "httping", "nping-tcp">>), "ping"),
      Dep(Required(Flag("httping_ssl")), {"track_method" :> "httping"}),
      Default(Value("reliability"), "1"), Default(List("count", <<"1", "2">>), "1"),
      Dep(Default(Value("size"), "56"), {"track_method" :> "ping"}),
      Dep(Default(Value("max_ttl"), "60"), {"track_method" :> "ping"}),
      Dep(Flag("check_quality"), {"track_method" :> "ping"}),
      Dep(Default(Value("failure_latency"), "1000"), {"check_quality" :> "1"}),
      Dep(Default(Value("failure_loss"), "40"), {"check_quality" :> "1"}),
      Dep(Default(Value("recovery_latency"), "500"), {"check_quality" :> "1"}),
      Dep(Default(Value("recovery_loss"), "10"), {"check_quality" :> "1"}),
      Default(List("timeout", <<"1", "*">>), "4")>>
Mwan3Interface2 ==
    <<Default(List("interval", <<"1", "3", "10">>), "10"),
      Default(Value("failure_interval"), "5"), Flag("keep_failure_interval"),
      Default(Value("recovery_interval"), "5"), Default(List("down", <<"1", "2", "5">>), "5"),
      Default(List("up", <<"1", "2", "5">>), "5"), Multi("flush_conntrack"), Dummy("metric")>>

(* luci-app-mwan3/view/mwan3/network/member.js *)
Mwan3Member ==
    <<List("interface", <<"*">>), Value("metric"), Value("weight")>>

(* luci-app-mwan3/view/mwan3/network/policy.js *)
Mwan3Policy ==
    <<Multi("use_member"),
      Default(List("last_resort", <<"unreachable", "blackhole">>), "unreachable")>>

(* luci-app-mwan3/view/mwan3/network/rule.js *)
Mwan3Rule ==
    <<List("family", <<"", "ipv4">>), Required(Default(Value("proto"), "all")), Value("src_ip"),
      Dep(Value("src_port"), {"proto" :> "tcp", "proto" :> "udp"}), Value("dest_ip"),
      Dep(Value("dest_port"), {"proto" :> "tcp", "proto" :> "udp"}),
      Default(List("sticky", <<"1", "0">>), "0"), Dep(Value("timeout"), {"sticky" :> "1"}),
      Value("ipset"), Flag("logging"), List("use_policy", <<"*", "unreachable">>)>>

(* luci-app-natmap/view/natmap.js *)
Natmap ==
    <<Flag("enable"), Default(List("udp_mode", <<"0", "1">>), "1"),
      List("family", <<"", "ipv4">>), Value("interface"), Value("interval"),
      Required(Value("stun_server")), Required(Value("http_server")), Required(Value("port")),
      Own(Into(Flag("_forward_mode"), "forward_target")),
      Dep(Value("forward_target"), {"_forward_mode" :> "1"}),
      Dep(Value("forward_port"), {"_forward_mode" :> "1"}), Value("notify_script"),
      Dummy("_external_ip"), Dummy("_external_port")>>

(* luci-app-nextdns/view/nextdns/overview.js *)
NextdnsOverview ==
    <<Required(Default(Flag("enabled"), "1")), Value("config"),
      Required(Default(Flag("report_client_info"), "1")), Required(Flag("log_queries"))>>

(* luci-app-nlbwmon/view/nlbw/config.js *)
NlbwmonConfig ==
    <<Own(List("_period", <<"relative", "absolute">>)),
      Dep(Dummy("_warning"), {"_period" :> "relative", "_period" :> "absolute"}),
      Dep(Own(Required(Value("_interval"))), {"_period" :> "relative"}),
      Dep(Own(Required(Value("_date"))), {"_period" :> "absolute"}),
      Dep(Own(Required(Value("_days"))), {"_period" :> "absolute"}), Own(Multi("_ifaces")),
      Own(Multi("_subnets")), Value("database_limit"),
      Dep(Flag("database_prealloc"), {Unless("database_limit" :> "0")}),
      Flag("database_compress"), Value("database_generations"), Value("commit_interval"),
      Value("refresh_interval"), Value("database_directory"), Own(TextValue("_protocols"))>>

(* luci-app-olsr/view/olsr/frontend/olsrd.js *)
OlsrOlsrdOlsrd1 ==
    <<Own(Default(Switch(Flag("SmartGateway"), "yes", "no"), "no")),
      Dep(Optional(Default(Switch(Flag("SmartGatewayAllowNAT"), "yes", "no"), "yes")), {"SmartGateway" :> "yes"}),
      Dep(Optional(Default(List("SmartGatewayUplink", <<"none", "ipv4", "ipv6", "both">>), "both")), {"SmartGateway" :> "yes"}),
      Dep(Default(Switch(Flag("SmartGatewayUplinkNAT"), "yes", "no"), "yes"), {"SmartGatewayUplink" :> "ipv4", "SmartGatewayUplink" :> "both"}),
      Dep(Optional(Value("SmartGatewaySpeed")), {"SmartGatewayUplink" :> "ipv4", "SmartGatewayUplink" :> "ipv6", "SmartGatewayUplink" :> "both"}),
      Dep(Optional(Value("SmartGatewayPrefix")), {"SmartGatewayUplink" :> "ipv6", "SmartGatewayUplink" :> "both"}),
      List("IpVersion", <<"4", "6and4">>), Optional(Value("Pollrate")),
      Optional(Value("NicChgsPollInt")), Optional(Value("TosValue")),
      List("FIBMetric", <<"flat", "correct">>), List("LinkQualityLevel", <<"2", "0">>),
      Dep(Optional(Value("LinkQualityAging")), {"LinkQualityLevel" :> "2"}),
      Dep(Optional(List("LinkQualityAlgorithm", <<"etx_ff", "etx_fpm", "etx_float", "etx_ffeth">>)), {"LinkQualityLevel" :> "2"})>>
OlsrOlsrdOlsrd2 ==
    <<Optional(Default(Flag("LinkQualityFishEye"), "1")),
      Dep(Optional(Default(Switch(Flag("UseHysteresis"), "yes", "no"), "yes")), {"LinkQualityLevel" :> "0"}),
      Optional(Default(Value("OlsrPort"), "698")), Optional(Value("MainIp")),
      Optional(Default(List("Willingness", <<"*">>), "3")),
      Dep(Own(Optional(Default(Value("NatThreshold"), "1.0"))), {"LinkQualityAlgorithm" :> "etx_ff", "LinkQualityAlgorithm" :> "etx_float", "LinkQualityAlgorithm" :> "etx_fpm"})>>
OlsrOlsrdInterfaceDefaults1 ==
    <<Optional(List("Mode", <<"mesh", "ether">>)), Optional(Value("Weight")),
      Optional(Multi("LinkQualityMult")), Optional(Value("Ip4Broadcast")),
      Optional(Value("IPv6Multicast")), Optional(Value("IPv4Src")), Optional(Value("IPv6Src")),
      Own(Optional(Value("HelloInterval"))), Own(Optional(Value("HelloValidityTime"))),
      Own(Optional(Value("TcInterval"))), Own(Optional(Value("TcValidityTime")))>>
OlsrOlsrdInterfaceDefaults2 ==
    <<Own(Optional(Value("MidInterval"))), Own(Optional(Value("MidValidityTime"))),
      Own(Optional(Value("HnaInterval"))), Own(Optional(Value("HnaValidityTime")))>>
OlsrOlsrdInterface ==
    <<Own(Required(Switch(Flag("ignore"), "0", "1"))), Dummy("interface"), Dummy("Mode"),
      Dummy("_hello"), Dummy("_tc"), Dummy("_mid"), Dummy("_hna")>>

(* luci-app-olsr/view/olsr/frontend/olsrd6.js *)
OlsrOlsrd6Olsrd61 ==
    <<Own(Default(Switch(Flag("SmartGateway"), "yes", "no"), "no")),
      Dep(Optional(Default(Switch(Flag("SmartGatewayAllowNAT"), "yes", "no"), "yes")), {"SmartGateway" :> "yes"}),
      Dep(Optional(Default(List("SmartGatewayUplink", <<"none", "ipv4", "ipv6", "both">>), "both")), {"SmartGateway" :> "yes"}),
      Dep(Default(Switch(Flag("SmartGatewayUplinkNAT"), "yes", "no"), "yes"), {"SmartGatewayUplink" :> "ipv4", "SmartGatewayUplink" :> "both"}),
      Dep(Optional(Value("SmartGatewaySpeed")), {"SmartGatewayUplink" :> "ipv4", "SmartGatewayUplink" :> "ipv6", "SmartGatewayUplink" :> "both"}),
      Dep(Optional(Value("SmartGatewayPrefix")), {"SmartGatewayUplink" :> "ipv6", "SmartGatewayUplink" :> "both"}),
      Optional(Value("Pollrate")), Optional(Value("NicChgsPollInt")),
      Optional(Value("TosValue")), List("FIBMetric", <<"flat", "correct">>),
      List("LinkQualityLevel", <<"2", "0">>),
      Dep(Optional(Value("LinkQualityAging")), {"LinkQualityLevel" :> "2"}),
      Dep(Optional(List("LinkQualityAlgorithm", <<"etx_ff", "etx_fpm", "etx_float", "etx_ffeth">>)), {"LinkQualityLevel" :> "2"}),
      Optional(Default(Flag("LinkQualityFishEye"), "1"))>>
OlsrOlsrd6Olsrd62 ==
    <<Dep(Optional(Default(Switch(Flag("UseHysteresis"), "yes", "no"), "yes")), {"LinkQualityLevel" :> "0"}),
      Optional(Default(Value("OlsrPort"), "698")), Optional(Value("MainIp")),
      Optional(Default(List("Willingness", <<"*">>), "3")),
      Dep(Own(Optional(Default(Value("NatThreshold"), "1.0"))), {"LinkQualityAlgorithm" :> "etx_ff", "LinkQualityAlgorithm" :> "etx_float", "LinkQualityAlgorithm" :> "etx_fpm"})>>
OlsrOlsrd6InterfaceDefaults1 ==
    <<Optional(List("Mode", <<"mesh", "ether">>)), Optional(Value("Weight")),
      Optional(Multi("LinkQualityMult")), Optional(Value("IPv6Multicast")),
      Optional(Value("IPv6Src")), Own(Optional(Value("HelloInterval"))),
      Own(Optional(Value("HelloValidityTime"))), Own(Optional(Value("TcInterval"))),
      Own(Optional(Value("TcValidityTime"))), Own(Optional(Value("MidInterval"))),
      Own(Optional(Value("MidValidityTime")))>>
OlsrOlsrd6InterfaceDefaults2 ==
    <<Own(Optional(Value("HnaInterval"))), Own(Optional(Value("HnaValidityTime")))>>
OlsrOlsrd6Interface ==
    <<Own(Required(Switch(Flag("ignore"), "0", "1"))), Dummy("interface"), Dummy("Mode"),
      Dummy("_hello"), Dummy("_tc"), Dummy("_mid"), Dummy("_hna")>>

(* luci-app-olsr/view/olsr/frontend/olsrddisplay.js *)
OlsrOlsrddisplay ==
    <<Optional(Flag("resolve"))>>

(* luci-app-olsr/view/olsr/frontend/olsrdhna.js *)
OlsrOlsrdhnaHna4 ==
    <<Default(Value("netaddr"), "10.11.12.13"), Default(Value("netmask"), "255.255.255.255")>>
OlsrOlsrdhnaHna6 ==
    <<Default(Value("netaddr"), "fec0:2200:106:0:0:0:0:0"), Default(Value("prefix"), "128")>>

(* luci-app-olsr/view/olsr/frontend/olsrdhna6.js *)
OlsrOlsrdhna6 ==
    <<Default(Value("netaddr"), "fec0:2200:106:0:0:0:0:0"), Default(Value("prefix"), "128")>>

(* luci-app-olsr/view/olsr/frontend/olsrdiface.js *)
OlsrOlsrdiface1 ==
    <<Own(Required(Switch(Flag("ignore"), "0", "1"))), Value("interface"),
      Optional(List("Mode", <<"mesh", "ether">>)), Optional(Value("Weight")),
      Optional(Multi("LinkQualityMult")), Optional(Value("Ip4Broadcast")),
      Optional(Value("IPv6Multicast")), Optional(Value("IPv4Src")), Optional(Value("IPv6Src")),
      Own(Optional(Value("HelloInterval"))), Own(Optional(Value("HelloValidityTime"))),
      Own(Optional(Value("TcInterval")))>>
OlsrOlsrdiface2 ==
    <<Own(Optional(Value("TcValidityTime"))), Own(Optional(Value("MidInterval"))),
      Own(Optional(Value("MidValidityTime"))), Own(Optional(Value("HnaInterval"))),
      Own(Optional(Value("HnaValidityTime")))>>

(* luci-app-olsr/view/olsr/frontend/olsrdiface6.js *)
OlsrOlsrdiface61 ==
    <<Own(Required(Switch(Flag("ignore"), "0", "1"))), Value("interface"),
      Optional(List("Mode", <<"mesh", "ether">>)), Optional(Value("Weight")),
      Optional(Multi("LinkQualityMult")), Optional(Value("IPv6Multicast")),
      Optional(Value("IPv6Src")), Own(Optional(Value("HelloInterval"))),
      Own(Optional(Value("HelloValidityTime"))), Own(Optional(Value("TcInterval"))),
      Own(Optional(Value("TcValidityTime"))), Own(Optional(Value("MidInterval")))>>
OlsrOlsrdiface62 ==
    <<Own(Optional(Value("MidValidityTime"))), Own(Optional(Value("HnaInterval"))),
      Own(Optional(Value("HnaValidityTime")))>>

(* luci-app-olsr/view/olsr/frontend/olsrdplugins.js *)
OlsrOlsrdpluginsSid ==
    <<Own(Required(Switch(Flag("ignore"), "0", "1"))), Dummy("library")>>
OlsrOlsrdpluginsLoadPlugin ==
    <<Required(Switch(Flag("ignore"), "0", "1")), Dummy("library")>>

(* luci-app-olsr/view/olsr/frontend/olsrdplugins6.js *)
OlsrOlsrdplugins6Sid ==
    <<Own(Required(Switch(Flag("ignore"), "0", "1"))), Dummy("library")>>
OlsrOlsrdplugins6LoadPlugin ==
    <<Required(Switch(Flag("ignore"), "0", "1")), Dummy("library")>>

(* luci-app-omcproxy/view/omcproxy.js *)
Omcproxy ==
    <<List("scope", <<"", "global">>), Required(Value("uplink")), Required(Value("downlink"))>>

(* luci-app-openwisp/view/openwisp.js *)
Openwisp ==
    <<Value("uuid"), Value("key"),
      Default(List("enabled", <<"disabled", "monitoring">>), "monitoring"), Value("url"),
      Value("shared_secret"), Value("interval"), Default(Flag("verify_ssl"), "1"),
      Default(Flag("consistent_key"), "1"), Default(Value("mac_interface"), "eth0"),
      Value("management_interface"), Default(Flag("merge_config"), "1"), Multi("tags"),
      Default(Flag("test_config"), "1"), Dep(Value("test_script"), {"test_config" :> "1"}),
      Flag("hardware_id_key"), Dep(Value("hardware_id_script"), {"hardware_id_key" :> "1"}),
      Value("bootup_delay"), Value("connect_timeout"), Value("max_time"), Value("capath"),
      Value("cacert"), Value("pre_reload_hook"), Value("post_reload_hook")>>

(* luci-app-pagekitec/view/pagekitec.js *)
Pagekitec ==
    <<Value("kitename"), Value("kitesecret"), Flag("static"), Flag("simple_http"),
      Flag("simple_ssh"), Optional(Value("simple_ws"))>>

(* luci-app-pbr/view/pbr/overview.js *)
PbrOverviewConfig1 ==
    <<Default(List("verbosity", <<"0", "1", "2">>), "2"),
      Default(List("strict_enforcement", <<"0", "1">>), "1")>>
PbrOverviewConfig2 ==
    <<Default(List("resolver_set", <<"none", "adguardhome.ipset">>), "*"),
      List("ipv6_enabled", <<"0", "1">>), Multi("supported_interface"),
      Multi("ignored_interface"),
      Default(List("rule_create_option", <<"add", "insert">>), "add"),
      List("icmp_interface", <<"", "*">>), Value("wan_tid"), Value("wan_mark"), Value("fw_mask"),
      Default(List("webui_show_ignore_target", <<"0", "1">>), "0"),
      Multi("webui_supported_protocol")>>
PbrOverviewPolicy ==
    <<Default(Flag("enabled"), "1"), Value("name"), Value("src_addr"), Value("src_port"),
      Value("dest_addr"), Value("dest_port"), Default(List("proto", <<"", "*">>), "*"),
      Default(List("chain", <<"", "forward">>), "*"), Required(List("interface", <<"*">>))>>
PbrOverviewInclude ==
    <<Required(Flag("enabled")), Required(Value("path"))>>

(* luci-app-samba4/view/samba4.js *)
Samba4Samba ==
    <<Own(Multi("interface")), Value("workgroup"), Value("description"),
      Flag("enable_extra_tuning"), Flag("disable_async_io"), Flag("macos"),
      Flag("allow_legacy_protocols"), Flag("disable_netbios"), Flag("disable_ad_dc"),
      Flag("disable_winbind"), Own(TextValue("_tmpl"))>>
Samba4Sambashare ==
    <<Value("name"), Value("path"), Default(Switch(Flag("browseable"), "yes", "no"), "yes"),
      Required(Default(Switch(Flag("read_only"), "yes", "no"), "no")), Flag("force_root"),
      Value("users"), Required(Default(Switch(Flag("guest_ok"), "yes", "no"), "yes")),
      Default(Switch(Flag("guest_only"), "yes", "no"), "no"),
      Default(Switch(Flag("inherit_owner"), "yes", "no"), "no"),
      Required(Default(Value("create_mask"), "0666")),
      Required(Default(Value("dir_mask"), "0777")), Value("vfs_objects"), Flag("timemachine"),
      Value("timemachine_maxsize")>>

(* luci-app-ser2net/view/ser2net/leds.js *)
Ser2netLeds ==
    <<Required(Default(Value("driver"), "sysfs")),
      Required(Default(Value("device"), "duckbill:red:rs485")),
      Required(Default(Value("driver"), "20")), Required(Default(Value("state"), "1"))>>

(* luci-app-ser2net/view/ser2net/proxies.js *)
Ser2netProxies ==
    <<Required(Flag("enabled")), Required(Default(Value("port"), "5000")),
      Required(Default(List("protocol", <<"raw", "rawlp">>), "raw")),
      Required(Default(Value("timeout"), "0")),
      Required(Default(Value("device"), "/dev/ttyUSB0")),
      Required(Default(List("baudrate", <<"300", "1200", "9600">>), "9600")),
      Required(Default(List("databits", <<"8", "7">>), "8")),
      Required(Default(List("parity", <<"none", "even">>), "none")),
      Required(Default(List("stopbits", <<"1", "2">>), "1")), Flag("rtscts"), Flag("local"),
      Flag("remctl"), Multi("options"), Value("led_tx"), Value("led_rx")>>

(* luci-app-ser2net/view/ser2net/settings.js *)
Ser2netSettingsSer2net ==
    <<Required(Flag("enabled"))>>
Ser2netSettingsControlport ==
    <<Required(Flag("enabled")), Required(Default(Value("host"), "localhost")),
      Required(Default(Value("port"), "2000"))>>
Ser2netSettingsDefault ==
    <<Required(Default(List("speed", <<"300", "1200", "9600">>), "9600")),
      Required(Default(List("databits", <<"8", "7">>), "8")),
      Required(Default(List("parity", <<"none", "even">>), "none")),
      Required(Default(List("stopbits", <<"1", "2">>), "1")), Flag("rtscts"), Flag("local"),
      Flag("remctl")>>

(* luci-app-shadowsocks-libev/shadowsocks-libev.js *)
ShadowsocksLibev1 ==
    <<List("server", <<"*">>), Value("local_address"), Value("local_port")>>
ShadowsocksLibev2 ==
    <<Default(List("mode", <<"*">>), "tcp_and_udp"), Value("mtu"), Value("timeout"),
      Value("user"), Flag("verbose"), Flag("ipv6_first"), Flag("fast_open"), Flag("no_delay"),
      Flag("reuse_port")>>
ShadowsocksLibev3 ==
    <<Dummy("_install"), Dummy("_install")>>

(* luci-app-shadowsocks-libev/view/shadowsocks-libev/instances.js *)
ShadowsocksLibevInstances ==
    <<Flag("disabled"), Value("local_address"), Value("local_ipv4_address"),
      Value("local_ipv6_address"), Value("tunnel_address"), FileUpload("acl"), Dummy("overview"),
      Dummy("running")>>

(* luci-app-shadowsocks-libev/view/shadowsocks-libev/rules.js *)
ShadowsocksLibevRules ==
    <<Flag("disabled"), List("redir_tcp", <<"*">>), List("redir_udp", <<"*">>),
      List("local_default", <<"*">>), Multi("ifnames"), Value("nft_tcp_extra"),
      Value("nft_udp_extra"), List("src_default", <<"*">>), FileUpload("dst_ips_bypass_file"),
      FileUpload("dst_ips_forward_file"), List("dst_default", <<"*">>)>>

(* luci-app-shadowsocks-libev/view/shadowsocks-libev/servers.js *)
ShadowsocksLibevServers ==
    <<Flag("disabled")>>

(* luci-app-smartdns/view/smartdns/smartdns.js *)
SmartdnsSmartdns1 ==
    <<Required(Flag("enabled")), Default(Value("server_name"), "smartdns"),
      Default(Value("port"), "53"), Required(Default(Flag("auto_set_dnsmasq"), "1")),
      Value("speed_check_mode"), List("response_mode", <<"", "first-ping">>),
      Required(Default(Flag("tcp_server"), "1")), Required(Default(Flag("ipv6_server"), "1")),
      Required(Default(Flag("bind_device"), "1")), Value("bind_device_name"),
      Required(Default(Flag("dualstack_ip_selection"), "1")), Flag("prefetch_domain"),
      Required(Default(Flag("serve_expired"), "1")), Value("cache_size"),
      Required(Default(Flag("cache_persist"), "1")),
      Required(Default(Flag("resolve_local_hostnames"), "1")), Flag("force_aaaa_soa"),
      Required(Default(Flag("force_https_soa"), "1"))>>
SmartdnsSmartdns2 ==
    <<Value("ipset_no_speed"), Value("nftset_no_speed"), Value("rr_ttl"),
      Optional(Default(Value("rr_ttl_min"), "600")), Value("rr_ttl_max"),
      Value("rr_ttl_reply_max"), Value("server_flags"), Multi("conf_files"),
      Flag("seconddns_enabled"), Default(Value("seconddns_port"), "6553"),
      Required(Default(Flag("seconddns_tcp_server"), "1")), Value("seconddns_server_group"),
      Flag("seconddns_no_speed_check"), Flag("seconddns_no_rule_addr"),
      Flag("seconddns_no_rule_nameserver"), Flag("seconddns_no_rule_ipset"),
      Flag("seconddns_no_rule_soa"), Flag("seconddns_no_dualstack_selection")>>
SmartdnsSmartdns3 ==
    <<Flag("seconddns_no_cache"), Flag("seconddns_force_aaaa_soa"),
      Value("seconddns_ipset_name"), Value("seconddns_nftset_name"),
      Value("seconddns_server_flags"), Value("dns64"), Flag("enable_auto_update"),
      FileUpload("upload_conf_file"), FileUpload("upload_list_file"), Dummy("_update"),
      SectionValue("__files__")>>
SmartdnsSmartdns4 ==
    <<Value("proxy_server"), Own(TextValue("custom_conf")), Flag("coredump"), Value("log_size"),
      List("log_level", <<"", "debug">>), Value("log_num"), Value("log_file")>>
SmartdnsFiles ==
    <<Value("name"), Value("url"), Default(List("type", <<"list", "config">>), "list"),
      Value("desc")>>
SmartdnsServer1 ==
    <<Required(Default(Flag("enabled"), "1")), Value("name"), Required(Value("ip")),
      Dep(Value("port"), {"type" :> "udp", "type" :> "tcp", "type" :> "tls"}),
      Default(List("type", <<"udp", "tcp", "tls", "https">>), "udp"), Value("server_group"),
      Flag("exclude_default_group"), Flag("blacklist_ip"),
      Dep(Value("tls_host_verify"), {"type" :> "tls", "type" :> "https"}),
      Dep(Flag("no_check_certificate"), {"type" :> "tls", "type" :> "https"}),
      Dep(Value("host_name"), {"type" :> "tls", "type" :> "https"}),
      Dep(Value("http_host"), {"type" :> "https"}),
      Dep(Value("spki_pin"), {"type" :> "tls", "type" :> "https"}), Value("set_mark"),
      Optional(Flag("use_proxy"))>>
SmartdnsServer2 ==
    <<Value("addition_arg")>>
SmartdnsDomainRule1 ==
    <<Value("server_group")>>
SmartdnsDomainRule2 ==
    <<Flag("no_speed_check"), Flag("force_aaaa_soa"), Value("ipset_name"), Value("nftset_name"),
      Value("addition_flag"), FileUpload("forwarding_domain_set_file"),
      Own(TextValue("domain_forwarding_list")), FileUpload("block_domain_set_file"),
      Own(TextValue("domain_block_list")), SectionValue("__domain-rule-list__")>>
SmartdnsDomainRule3 ==
    <<Own(TextValue("blackip_ip_conf")), Own(TextValue("address_conf"))>>
SmartdnsDomainRuleList1 ==
    <<Required(Default(Flag("enabled"), "1")), Value("name"), Value("server_group")>>
SmartdnsDomainRuleList2 ==
    <<FileUpload("domain_list_file"), List("block_domain_type", <<"none", "all">>),
      Default(List("dualstack_ip_selection", <<"", "yes">>), "default"),
      Value("speed_check_mode"), Flag("force_aaaa_soa"), Value("ipset_name"),
      Value("nftset_name"), Value("addition_flag")>>
SmartdnsSmartdnsA ==
    <<Dummy("web"), Dummy("report"), Dummy("Donate"), Dummy("_restart")>>

(* luci-app-snmpd/view/snmpd/snmpd.js *)
SnmpdAgent ==
    <<Value("agentaddress")>>
SnmpdAgentx ==
    <<Value("agentxsocket")>>
SnmpdCom2sec ==
    <<Value("secname"), Value("source"), Value("community")>>
SnmpdGroup ==
    <<Value("group"), Value("version"), Value("secname")>>
SnmpdAccess ==
    <<Value("group"), Value("context"), Value("version"), Value("level"), Value("prefix"),
      Value("read"), Value("write"), Value("notify")>>
SnmpdSystem ==
    <<Value("sysLocation"), Value("sysContact"), Value("sysName")>>

(* luci-app-sqm/view/network/sqm.js *)
Sqm ==
    <<Own(Required(Flag("enabled"))), Required(Value("interface")), Required(Value("download")),
      Required(Value("upload")), Required(Flag("debug_logging")),
      Default(List("verbosity", <<"0", "1", "5">>), "5"),
      Required(Default(List("qdisc", <<"*">>), "cake")),
      Required(Default(List("script", <<"*">>), "piece_of_cake.qos")), Flag("qdisc_advanced"),
      Dep(Default(List("squash_dscp", <<"1", "0">>), "1"), {"qdisc_advanced" :> "1"}),
      Dep(Default(List("squash_ingress", <<"1", "0">>), "1"), {"qdisc_advanced" :> "1"}),
      Dep(Default(List("ingress_ecn", <<"ECN", "NOECN">>), "ECN"), {"qdisc_advanced" :> "1"}),
      Dep(Default(List("egress_ecn", <<"NOECN", "ECN">>), "NOECN"), {"qdisc_advanced" :> "1"}),
      Dep(Flag("qdisc_really_really_advanced"), {"qdisc_advanced" :> "1"}),
      Dep(Value("ilimit"), {"qdisc_really_really_advanced" :> "1"}),
      Dep(Value("elimit"), {"qdisc_really_really_advanced" :> "1"}),
      Dep(Value("itarget"), {"qdisc_really_really_advanced" :> "1"}),
      Dep(Value("etarget"), {"qdisc_really_really_advanced" :> "1"}),
      Dep(Value("iqdisc_opts"), {"qdisc_really_really_advanced" :> "1"}),
      Dep(Value("eqdisc_opts"), {"qdisc_really_really_advanced" :> "1"}),
      Default(List("linklayer", <<"none", "ethernet", "atm">>), "none"),
      Dep(Default(Value("overhead"), "0"), {"linklayer" :> "ethernet", "linklayer" :> "atm"}),
      Dep(Flag("linklayer_advanced"), {"linklayer" :> "ethernet", "linklayer" :> "atm"}),
      Dep(Default(Value("tcMTU"), "2047"), {"linklayer_advanced" :> "1"}),
      Dep(Default(Value("tcTSIZE"), "128"), {"linklayer_advanced" :> "1"}),
      Dep(Default(Value("tcMPU"), "0"), {"linklayer_advanced" :> "1"}),
      Dep(Default(List("linklayer_adaptation_mechanism", <<"default", "cake">>), "default"), {"linklayer_advanced" :> "1"})>>

(* luci-app-statistics/view/statistics/collectd.js *)
StatisticsCollectdCollectd ==
    <<Own(Value("Hostname")), Default(Value("BaseDir"), "/var/run/collectd"),
      Default(Value("Include"), "/etc/collectd/conf.d/*.conf"),
      Default(Value("PluginDir"), "/usr/lib/collectd/"),
      Default(Value("PIDFile"), "/var/run/collectd.pid"),
      Default(Value("TypesDB"), "/etc/collectd/types.db"), Default(Value("Interval"), "60"),
      Default(Value("ReadThreads"), "5"), Dep(Optional(Flag("FQDNLookup")), {"Hostname" :> ""})>>
StatisticsCollectdStatistics ==
    <<Flag("enable"), Dummy("_dummy")>>

(* luci-app-statistics/view/statistics/plugins/apcups.js *)
StatisticsApcups ==
    <<Flag("enable"), Dep(Default(Value("Host"), "localhost"), {"enable" :> "1"}),
      Dep(Default(Value("Port"), "3551"), {"enable" :> "1"})>>

(* luci-app-statistics/view/statistics/plugins/chrony.js *)
StatisticsChrony ==
    <<Flag("enable"), Dep(Default(Value("Host"), "127.0.0.1"), {"enable" :> "1"}),
      Dep(Default(Value("Port"), "323"), {"enable" :> "1"}),
      Dep(Default(Value("Timeout"), "2"), {"enable" :> "1"})>>

(* luci-app-statistics/view/statistics/plugins/cpu.js *)
StatisticsCpu ==
    <<Flag("enable"), Dep(Required(Default(Flag("ReportByCpu"), "1")), {"enable" :> "1"}),
      Dep(Required(Default(Flag("ReportByState"), "1")), {"enable" :> "1"}),
      Dep(Required(Flag("ShowIdle")), {"enable" :> "1" @@ "ReportByState" :> "1"}),
      Dep(Required(Default(Flag("ValuesPercentage"), "1")), {"enable" :> "1" @@ "ReportByCpu" :> "1" @@ "ReportByState" :> "1"})>>

(* luci-app-statistics/view/statistics/plugins/cpufreq.js *)
StatisticsCpufreq ==
    <<Flag("enable"), Dep(Flag("ExtraItems"), {"enable" :> "1"})>>

(* luci-app-statistics/view/statistics/plugins/csv.js *)
StatisticsCsv ==
    <<Flag("enable"), Dep(Default(Value("DataDir"), "/tmp/csv"), {"enable" :> "1"}),
      Dep(Flag("StoreRates"), {"enable" :> "1"})>>

(* luci-app-statistics/view/statistics/plugins/curl.js *)
StatisticsCurl ==
    <<Flag("enable"), Dep(SectionValue("__pages"), {"enable" :> "1"})>>
StatisticsCurlPages ==
    <<Required(Default(Flag("enable"), "1")), Value("name"), Value("url")>>

(* luci-app-statistics/view/statistics/plugins/df.js *)
StatisticsDf ==
    <<Flag("enable"), Dep(Own(Optional(Multi("Devices"))), {"enable" :> "1"}),
      Dep(Own(Optional(Default(Multi("MountPoints"), "[v]"))), {"enable" :> "1"}),
      Dep(Own(Optional(Default(Multi("FSTypes"), "[v]"))), {"enable" :> "1"}),
      Dep(Flag("IgnoreSelected"), {"enable" :> "1"}),
      Dep(Flag("ValuesPercentage"), {"enable" :> "1"})>>

(* luci-app-statistics/view/statistics/plugins/dhcpleases.js *)
StatisticsDhcpleases ==
    <<Flag("enable"), Default(Value("Path"), "/tmp/dhcp.leases")>>

(* luci-app-statistics/view/statistics/plugins/disk.js *)
StatisticsDisk ==
    <<Flag("enable"), Dep(Own(Multi("Disks")), {"enable" :> "1"}),
      Dep(Flag("IgnoreSelected"), {"enable" :> "1"})>>

(* luci-app-statistics/view/statistics/plugins/dns.js *)
StatisticsDns ==
    <<Flag("enable"), Dep(Default(Multi("Interfaces"), "[v]"), {"enable" :> "1"}),
      Dep(Default(Multi("IgnoreSources"), "[v]"), {"enable" :> "1"})>>

(* luci-app-statistics/view/statistics/plugins/email.js *)
StatisticsEmail ==
    <<Flag("enable"),
      Dep(Default(Value("SocketFile"), "/var/run/collectd/email.sock"), {"enable" :> "1"}),
      Dep(Optional(Default(Value("SocketGroup"), "nogroup")), {"enable" :> "1"}),
      Dep(Optional(Default(Value("SocketPerms"), "0770")), {"enable" :> "1"}),
      Dep(Optional(Default(Value("MaxConns"), "5")), {"enable" :> "1"})>>

(* luci-app-statistics/view/statistics/plugins/exec.js *)
StatisticsExec1 ==
    <<Flag("enable"), Dep(SectionValue("__input"), {"enable" :> "1"})>>
StatisticsExec2 ==
    <<Dep(SectionValue("__notify"), {"enable" :> "1"})>>
StatisticsExecInput ==
    <<Default(Value("cmdline"), "/usr/bin/stat-dhcpusers"),
      Optional(Default(Value("cmduser"), "nobody")),
      Optional(Default(Value("cmdgroup"), "nogroup"))>>
StatisticsExecNotify ==
    <<Default(Value("cmdline"), "/usr/bin/stat-dhcpusers"),
      Optional(Default(Value("cmduser"), "nobody")),
      Optional(Default(Value("cmdgroup"), "nogroup"))>>

(* luci-app-statistics/view/statistics/plugins/interface.js *)
StatisticsInterface ==
    <<Flag("enable"), Dep(Default(Multi("Interfaces"), "[v]"), {"enable" :> "1"}),
      Dep(Flag("IgnoreSelected"), {"enable" :> "1"})>>

(* luci-app-statistics/view/statistics/plugins/iptables.js *)
StatisticsIptables ==
    <<Flag("enable")>>
StatisticsIptablesA ==
    <<Value("name"), Optional(Default(Value("table"), "filter")), Optional(Value("chain")),
      Own(Optional(Value("rule")))>>

(* luci-app-statistics/view/statistics/plugins/irq.js *)
StatisticsIrq ==
    <<Flag("enable"), Dep(Own(Optional(Multi("Irqs"))), {"enable" :> "1"}),
      Dep(Flag("IgnoreSelected"), {"enable" :> "1"})>>

(* luci-app-statistics/view/statistics/plugins/iwinfo.js *)
StatisticsIwinfo ==
    <<Flag("enable"), Dep(Multi("Interfaces"), {"enable" :> "1"}),
      Dep(Flag("IgnoreSelected"), {"enable" :> "1"})>>

(* luci-app-statistics/view/statistics/plugins/memory.js *)
StatisticsMemory ==
    <<Flag("enable"), Dep(Default(Flag("ValuesAbsolute"), "1"), {"enable" :> "1"}),
      Dep(Flag("ValuesPercentage"), {"enable" :> "1"})>>

(* luci-app-statistics/view/statistics/plugins/netlink.js *)
StatisticsNetlink ==
    <<Flag("enable"), Dep(Multi("Interfaces"), {"enable" :> "1"}),
      Dep(Multi("VerboseInterfaces"), {"enable" :> "1"}),
      Dep(Multi("QDiscs"), {"enable" :> "1"}), Dep(Multi("Classes"), {"enable" :> "1"}),
      Dep(Multi("Filters"), {"enable" :> "1"}), Dep(Flag("IgnoreSelected"), {"enable" :> "1"})>>

(* luci-app-statistics/view/statistics/plugins/network.js *)
StatisticsNetwork1 ==
    <<Flag("enable"), Dep(Value("TimeToLive"), {"enable" :> "1"}),
      Dep(Value("MaxPacketSize"), {"enable" :> "1"}), Dep(Flag("Forward"), {"enable" :> "1"}),
      Dep(Flag("ReportStats"), {"enable" :> "1"}),
      Dep(SectionValue("__listeners"), {"enable" :> "1"})>>
StatisticsNetwork2 ==
    <<Dep(SectionValue("__servers"), {"enable" :> "1"})>>
StatisticsNetworkListeners ==
    <<Default(Value("host"), "0.0.0.0"), Default(Value("port"), "25826")>>
StatisticsNetworkServers ==
    <<Default(Value("host"), "0.0.0.0"), Default(Value("port"), "25826")>>

(* luci-app-statistics/view/statistics/plugins/nut.js *)
StatisticsNut ==
    <<Flag("enable"), Value("UPS")>>

(* luci-app-statistics/view/statistics/plugins/olsrd.js *)
StatisticsOlsrd ==
    <<Flag("enable"), Value("Host"), Value("Port"),
      Default(List("CollectLinks", <<"No", "Summary", "Detail">>), "Detail"),
      Default(List("CollectRoutes", <<"No", "Summary", "Detail">>), "Summary"),
      Default(List("CollectTopology", <<"No", "Summary", "Detail">>), "Summary")>>

(* luci-app-statistics/view/statistics/plugins/openvpn.js *)
StatisticsOpenvpn ==
    <<Flag("enable"), Dep(Flag("CollectIndividualUsers"), {"enable" :> "1"}),
      Dep(Flag("CollectUserCount"), {"enable" :> "1"}),
      Dep(Flag("CollectCompression"), {"enable" :> "1"}),
      Dep(Flag("ImprovedNamingSchema"), {"enable" :> "1"}),
      Dep(Own(Multi("StatusFile")), {"enable" :> "1"})>>

(* luci-app-statistics/view/statistics/plugins/ping.js *)
StatisticsPing ==
    <<Flag("enable"), Dep(Default(Multi("Hosts"), "[v]"), {"enable" :> "1"}),
      Dep(Default(List("AddressFamily", <<"any", "ipv4">>), "any"), {"enable" :> "1"}),
      Dep(Default(Value("TTL"), "127"), {"enable" :> "1"}),
      Dep(Default(Value("Interval"), "30"), {"enable" :> "1"}),
      Dep(Optional(Value("MaxMissed")), {"enable" :> "1"})>>

(* luci-app-statistics/view/statistics/plugins/processes.js *)
StatisticsProcesses ==
    <<Flag("enable"), Dep(Default(Multi("Processes"), "[v]"), {"enable" :> "1"})>>

(* luci-app-statistics/view/statistics/plugins/rrdtool.js *)
StatisticsRrdtool ==
    <<Flag("enable"), Dep(Default(Value("DataDir"), "/tmp/rrd"), {"enable" :> "1"}),
      Dep(Value("StepSize"), {"enable" :> "1"}), Dep(Value("HeartBeat"), {"enable" :> "1"}),
      Dep(Required(Default(Flag("RRASingle"), "1")), {"enable" :> "1"}),
      Dep(Flag("RRAMax"), {"RRASingle" :> "0"}),
      Dep(Default(Multi("RRATimespans"), "[v]"), {"enable" :> "1"}),
      Dep(Default(Value("RRARows"), "288"), {"enable" :> "1"}),
      Dep(Value("XFF"), {"enable" :> "1"}), Dep(Value("CacheTimeout"), {"enable" :> "1"}),
      Dep(Value("CacheFlush"), {"enable" :> "1"})>>

(* luci-app-statistics/view/statistics/plugins/sensors.js *)
StatisticsSensors ==
    <<Flag("enable"), Dep(Own(Multi("Sensor")), {"enable" :> "1"}),
      Dep(Flag("IgnoreSelected"), {"enable" :> "1"})>>

(* luci-app-statistics/view/statistics/plugins/snmp6.js *)
StatisticsSnmp6 ==
    <<Flag("enable"), Dep(Multi("Interfaces"), {"enable" :> "1"}),
      Dep(Flag("IgnoreSelected"), {"enable" :> "1"})>>

(* luci-app-statistics/view/statistics/plugins/syslog.js *)
StatisticsSyslog ==
    <<Flag("enable"),
      Required(Default(List("LogLevel", <<"err", "warning", "notice">>), "warning")),
      Required(Default(List("NotifyLevel", <<"FAILURE", "WARNING", "OKAY">>), "WARNING"))>>

(* luci-app-statistics/view/statistics/plugins/tcpconns.js *)
StatisticsTcpconns ==
    <<Flag("enable"), Dep(Required(Flag("ListeningPorts")), {"enable" :> "1"}),
      Dep(Optional(Default(Multi("LocalPorts"), "[v]")), {"enable" :> "1"}),
      Dep(Optional(Multi("RemotePorts")), {"enable" :> "1"}),
      Dep(Required(Flag("AllPortsSummary")), {"enable" :> "1"})>>

(* luci-app-statistics/view/statistics/plugins/thermal.js *)
StatisticsThermal ==
    <<Flag("enable"), Dep(Own(Optional(Multi("Device"))), {"enable" :> "1"}),
      Dep(Optional(Flag("IgnoreSelected")), {"enable" :> "1"})>>

(* luci-app-statistics/view/statistics/plugins/unixsock.js *)
StatisticsUnixsock ==
    <<Flag("enable"),
      Dep(Default(Value("SocketFile"), "/var/run/collectd/query.sock"), {"enable" :> "1"}),
      Dep(Optional(Value("SocketGroup")), {"enable" :> "1"}),
      Dep(Optional(Value("SocketPerms")), {"enable" :> "1"})>>

(* luci-app-transmission/view/transmission.js *)
TransmissionTransmission ==
    <<Required(Flag("enabled")), Value("config_dir"), Value("user"), Value("group"),
      Value("web_home")>>
TransmissionTransmissionA ==
    <<Switch(Flag("alt_speed_enabled"), "true", "false"),
      Dep(Value("alt_speed_up"), {"alt_speed_enabled" :> "true"}),
      Dep(Value("alt_speed_down"), {"alt_speed_enabled" :> "true"}),
      Switch(Flag("speed_limit_down_enabled"), "true", "false"),
      Dep(Value("speed_limit_down"), {"speed_limit_down_enabled" :> "true"}),
      Switch(Flag("speed_limit_up_enabled"), "true", "false"),
      Dep(Value("speed_limit_up"), {"speed_limit_up_enabled" :> "true"}),
      Value("upload_slots_per_torrent")>>
TransmissionTransmissionB ==
    <<Switch(Flag("blocklist_enabled"), "true", "false"),
      Dep(Value("blocklist_url"), {"blocklist_enabled" :> "true"})>>
TransmissionTransmissionC ==
    <<Value("download_dir"), Switch(Flag("incomplete_dir_enabled"), "true", "false"),
      Dep(Value("incomplete_dir"), {"incomplete_dir_enabled" :> "true"}),
      List("preallocation", <<"0", "1">>), Switch(Flag("rename_partial_files"), "true", "false"),
      Switch(Flag("start_added_torrents"), "true", "false"),
      Switch(Flag("trash_original_torrent_files"), "true", "false"), Value("umask"),
      Switch(Flag("watch_dir_enabled"), "true", "false"),
      Dep(Value("watch_dir"), {"watch_dir_enabled" :> "true"})>>
TransmissionTransmissionD ==
    <<Value("cache_size_mb"), Switch(Flag("dht_enabled"), "true", "false"),
      List("encryption", <<"0", "1">>), Switch(Flag("lazy_bitfield_enabled"), "true", "false"),
      Switch(Flag("lpd_enabled"), "true", "false"), List("message_level", <<"0", "1">>),
      Switch(Flag("pex_enabled"), "true", "false"), Flag("prefetch_enabled"),
      Switch(Flag("scrape_paused_torrents_enabled"), "true", "false"),
      Switch(Flag("script_torrent_done_enabled"), "true", "false"),
      Dep(Value("script_torrent_done_filename"), {"script_torrent_done_enabled" :> "true"}),
      Switch(Flag("utp_enabled"), "true", "false")>>
TransmissionTransmissionE ==
    <<Value("bind_address_ipv4"), Value("bind_address_ipv6"), Value("peer_congestion_algorithm"),
      Value("peer_id_ttl_hours"), Value("peer_limit_global"), Value("peer_limit_per_torrent"),
      Value("peer_socket_tos")>>
TransmissionTransmissionF ==
    <<Value("peer_port"), Switch(Flag("peer_port_random_on_start"), "true", "false"),
      Dep(Value("peer_port_random_high"), {"peer_port_random_on_start" :> "true"}),
      Dep(Value("peer_port_random_low"), {"peer_port_random_on_start" :> "true"}),
      Switch(Flag("port_forwarding_enabled"), "true", "false")>>
TransmissionTransmissionG ==
    <<Switch(Flag("download_queue_enabled"), "true", "false"),
      Switch(Flag("queue_stalled_enabled"), "true", "false"),
      Dep(Value("download_queue_size"), {"download_queue_enabled" :> "true"}),
      Switch(Flag("seed_queue_enabled"), "true", "false"),
      Dep(Value("queue_stalled_minutes"), {"queue_stalled_enabled" :> "true"}),
      Dep(Value("seed_queue_size"), {"seed_queue_enabled" :> "true"})>>
TransmissionTransmissionH ==
    <<Switch(Flag("rpc_enabled"), "true", "false"),
      Dep(Value("rpc_bind_address"), {"rpc_enabled" :> "true"}),
      Dep(Value("rpc_port"), {"rpc_enabled" :> "true"}),
      Dep(Value("rpc_url"), {"rpc_enabled" :> "true"}),
      Dep(Switch(Flag("rpc_host_whitelist_enabled"), "true", "false"), {"rpc_enabled" :> "true"}),
      Dep(Value("rpc_host_whitelist"), {"rpc_host_whitelist_enabled" :> "true"}),
      Dep(Switch(Flag("rpc_whitelist_enabled"), "true", "false"), {"rpc_enabled" :> "true"}),
      Dep(Value("rpc_whitelist"), {"rpc_whitelist_enabled" :> "true"}),
      Dep(Switch(Flag("rpc_authentication_required"), "true", "false"), {"rpc_enabled" :> "true"}),
      Dep(Value("rpc_username"), {"rpc_authentication_required" :> "true"}),
      Dep(Value("rpc_password"), {"rpc_authentication_required" :> "true"})>>
TransmissionTransmissionI ==
    <<Switch(Flag("alt_speed_time_enabled"), "true", "false"),
      Dep(Value("alt_speed_time_begin"), {"alt_speed_time_enabled" :> "true"}),
      Dep(Value("alt_speed_time_end"), {"alt_speed_time_enabled" :> "true"}),
      Dep(Value("alt_speed_time_day"), {"alt_speed_time_enabled" :> "true"}),
      Switch(Flag("idle_seeding_limit_enabled"), "true", "false"),
      Dep(Value("idle_seeding_limit"), {"idle_seeding_limit_enabled" :> "true"}),
      Switch(Flag("ratio_limit_enabled"), "true", "false"),
      Dep(Value("ratio_limit"), {"ratio_limit_enabled" :> "true"})>>

(* luci-app-travelmate/view/travelmate/overview.js *)
TravelmateOverviewGlobal ==
    <<Required(Flag("trm_enabled")), Required(Flag("trm_debug")), Value("trm_radio"),
      Required(Default(Flag("trm_captive"), "1")), Required(Default(Flag("trm_vpn"), "1")),
      Dep(Multi("trm_vpnifacelist"), {"trm_vpn" :> "1"}),
      Dep(Required(Flag("trm_netcheck")), {"trm_captive" :> "1"}),
      Required(Default(Flag("trm_proactive"), "1")), Required(Flag("trm_randomize")),
      Required(Flag("trm_autoadd")), Dep(Value("trm_maxautoadd"), {"trm_autoadd" :> "1"}),
      Value("trm_triggerdelay"), Value("trm_maxretry"), Value("trm_minquality"),
      Value("trm_maxwait"), Value("trm_timeout"), Value("trm_maxscan"),
      Optional(List("trm_captiveurl", <<"http://detectportal.firefox.com", "http://connectivity-check.ubuntu.com">>)),
      Optional(List("trm_useragent", <<"*">>)), Optional(List("trm_nice", <<"-20", "-10">>)),
      Required(Flag("trm_mail")), Dep(Value("trm_mailreceiver"), {"trm_mail" :> "1"}),
      Dep(Value("trm_mailsender"), {Holding("trm_mailreceiver" :> "@")}),
      Dep(Value("trm_mailtopic"), {Holding("trm_mailreceiver" :> "@")}),
      Dep(Value("trm_mailprofile"), {Holding("trm_mailreceiver" :> "@")})>>

(* luci-app-travelmate/view/travelmate/stations.js *)
TravelmateStationsWifiIface1 ==
    <<Own(Into(Required(Flag("_enabled")), "travelmate.uplink.enabled")), Value("device"),
      Value("ssid"), Value("bssid"),
      Default(List("encryption", <<"sae", "sae-mixed", "psk2", "psk2+ccmp", "wpa3", "wpa3-mixed", "owe", "none">>), "none"),
      Dep(Value("key"), {Holding("encryption" :> "sae"), Holding("encryption" :> "psk")}),
      Dep(Value("password"), {Holding("encryption" :> "wpa")}),
      Dep(Default(List("eap_type", <<"tls", "ttls", "peap">>), "peap"), {Holding("encryption" :> "wpa")})>>
TravelmateStationsWifiIface2 ==
    <<Dep(Default(List("auth", <<"PAP", "CHAP", "EAP-MSCHAPV2">>), "EAP-MSCHAPV2"), {Holding("encryption" :> "wpa")}),
      Dep(Value("identity"), {Holding("encryption" :> "wpa")}),
      Dep(Value("anonymous_identity"), {Holding("encryption" :> "wpa")}),
      Dep(Own(List("ieee80211w", <<"", "1">>)), {Holding("encryption" :> "sae"), Holding("encryption" :> "owe"), Holding("encryption" :> "wpa"), Holding("encryption" :> "psk")}),
      Dep(Flag("ca_cert_usesystem"), {Holding("encryption" :> "wpa")}),
      Dep(Value("ca_cert"), {Holding("encryption" :> "wpa"), "ca_cert_usesystem" :> "0"}),
      Dep(Value("client_cert"), {"eap_type" :> "tls"}),
      Dep(Value("priv_key"), {"eap_type" :> "tls"}),
      Dep(Value("priv_key_pwd"), {"eap_type" :> "tls"}),
      Own(Into(Required(Value("_ssid")), "travelmate.uplink.ssid")),
      Own(Into(Value("_bssid"), "travelmate.uplink.bssid")),
      Own(Into(Value("_con_start"), "travelmate.uplink.con_start")),
      Own(Into(Value("_con_end"), "travelmate.uplink.con_end")),
      Own(Into(Flag("_opensta"), "travelmate.uplink.opensta"))>>
TravelmateStationsWifiIface3 ==
    <<Own(Into(Value("_macaddr"), "travelmate.uplink.macaddr")),
      Own(Into(Required(Default(Value("_con_start_expiry"), "0")), "travelmate.uplink.con_start_expiry")),
      Own(Into(Required(Default(Value("_con_end_expiry"), "0")), "travelmate.uplink.con_end_expiry")),
      Own(Into(FileUpload("_script"), "travelmate.uplink.script")),
      Dep(Own(Into(Value("_args"), "travelmate.uplink.script_args")), {Holding("_script" :> "/etc/travelmate")}),
      Own(Into(Flag("_vpn"), "travelmate.uplink.vpn"))>>
TravelmateStationsWifiIface4 ==
    <<Own(Into(Optional(List("_vpnservice", <<"wireguard", "openvpn">>)), "travelmate.uplink.vpnservice")),
      Own(Into(Optional(Value("_vpniface")), "travelmate.uplink.vpniface"))>>
TravelmateStationsAddTrm ==
    <<Default(Value("device"), "*"), Default(Value("network"), "*"), Value("ssid"),
      Required(Default(Value("ssid"), "*")), Default(Flag("ignore_bssid"), "1"),
      Dep(Default(Value("bssid"), "*"), {"ignore_bssid" :> "0"}),
      Default(List("encryption", <<"sae", "sae-mixed", "psk2", "psk2+ccmp", "wpa3", "wpa3-mixed", "owe", "none">>), "*"),
      Dep(Value("key"), {Holding("encryption" :> "sae"), Holding("encryption" :> "psk")}),
      Dep(Value("password"), {Holding("encryption" :> "wpa")}),
      Dep(Default(List("eap_type", <<"tls", "ttls", "peap">>), "peap"), {Holding("encryption" :> "wpa")}),
      Dep(Default(List("auth", <<"PAP", "CHAP", "EAP-MSCHAPV2">>), "EAP-MSCHAPV2"), {Holding("encryption" :> "wpa")}),
      Dep(Value("identity"), {Holding("encryption" :> "wpa")}),
      Dep(Value("anonymous_identity"), {Holding("encryption" :> "wpa")}),
      Dep(Own(List("ieee80211w", <<"", "1">>)), {Holding("encryption" :> "sae"), Holding("encryption" :> "owe"), Holding("encryption" :> "wpa"), Holding("encryption" :> "psk")}),
      Dep(Flag("ca_cert_usesystem"), {Holding("encryption" :> "wpa")}),
      Dep(Value("ca_cert"), {Holding("encryption" :> "wpa"), "ca_cert_usesystem" :> "0"}),
      Dep(Value("client_cert"), {"eap_type" :> "tls"}),
      Dep(Value("priv_key"), {"eap_type" :> "tls"}),
      Dep(Value("priv_key_pwd"), {"eap_type" :> "tls"})>>

(* luci-app-ttyd/view/ttyd/config.js *)
TtydConfig ==
    <<Default(Flag("enable"), "1"), Value("port"), Value("interface"), Value("credential"),
      Value("uid"), Value("gid"), Value("signal"), Flag("url_arg"), Flag("readonly"),
      Multi("client_option"), Value("terminal_type"), Flag("check_origin"), Value("max_clients"),
      Flag("once"), Value("index"), Flag("ipv6"), Flag("ssl"),
      Dep(Value("ssl_cert"), {"ssl" :> "1"}), Dep(Value("ssl_key"), {"ssl" :> "1"}),
      Dep(Value("ssl_ca"), {"ssl" :> "1"}), Default(List("debug", <<"1", "3", "7">>), "7"),
      Value("command")>>

(* luci-app-udpxy/view/udpxy.js *)
Udpxy ==
    <<Required(Default(Switch(Flag("disabled"), "0", "1"), "1")), Flag("respawn"),
      Flag("verbose"), Flag("status"), Value("bind"), Value("port"), Value("source"),
      Value("max_clients"), Value("log_file"), Value("buffer_size"), Value("buffer_messages"),
      Value("buffer_time"), Value("nice_increment"), Value("mcsub_renew")>>

(* luci-app-uhttpd/view/uhttpd/uhttpd.js *)
UhttpdUhttpd1 ==
    <<Multi("listen_http")>>
UhttpdUhttpd2 ==
    <<Required(Default(Flag("redirect_https"), "1")),
      Required(Default(Flag("rfc1918_filter"), "1")), FileUpload("cert"), FileUpload("key"),
      Dummy("remove_old"), Dummy("remove_conf"), Optional(Multi("index_page")),
      Optional(Multi("interpreter")), Optional(Flag("no_symlinks")), Flag("no_dirlists"),
      Optional(Multi("alias")), Optional(Value("realm")), Optional(Value("config")),
      Optional(Value("error_page")), Default(Value("home"), "/www"),
      Optional(Value("cgi_prefix")), Optional(Value("lua_prefix")),
      Optional(Value("lua_handler")), Optional(Value("ubus_prefix")),
      Optional(Value("ubus_socket")), Optional(Flag("ubus_cors")), Optional(Flag("no_ubusauth")),
      Optional(Value("script_timeout")), Optional(Value("network_timeout")),
      Optional(Value("http_keepalive")), Optional(Default(Value("tcp_keepalive"), "1")),
      Optional(Value("max_connections")), Optional(Value("max_requests"))>>
UhttpdCert ==
    <<Default(Value("days"), "730"), Default(Value("bits"), "2048"),
      Default(Value("commonname"), "*"), Value("organization"),
      Default(Value("location"), "Unknown"), Default(Value("state"), "Unknown"),
      Default(Value("country"), "ZZ")>>

(* luci-app-upnp/view/upnp/upnp.js *)
UpnpConfig ==
    <<Required(Flag("enabled")), Flag("enable_upnp"), Flag("enable_natpmp"), Flag("secure_mode"),
      Flag("igdv1"), Flag("log_output"), Value("download"), Value("upload"),
      Default(Value("port"), "5000"), Flag("system_uptime"), Value("uuid"),
      Value("serial_number"), Value("model_number"), Value("notify_interval"),
      Value("clean_ruleset_threshold"), Value("clean_ruleset_interval"),
      Value("presentation_url"), Value("upnp_lease_file"), Flag("use_stun"),
      Dep(Value("stun_host"), {"use_stun" :> "1"}),
      Dep(Value("stun_port"), {"use_stun" :> "1"})>>
UpnpPermRule ==
    <<Value("comment"), Value("ext_ports"), Value("int_addr"), Value("int_ports"),
      List("action", <<"allow", "deny">>)>>

(* luci-app-vnstat2/view/vnstat2/config.js *)
Vnstat2Config ==
    <<Multi("interface"), Dummy("_database")>>

(* luci-app-watchcat/view/watchcat.js *)
Watchcat ==
    <<List("mode", <<"ping_reboot", "periodic_reboot", "restart_iface", "run_script">>),
      Dep(Default(Value("script"), "/etc/watchcat.user.sh"), {"mode" :> "run_script"}),
      Default(Value("period"), "6h"),
      Dep(Default(Value("pinghosts"), "8.8.8.8"), {"mode" :> "ping_reboot", "mode" :> "restart_iface", "mode" :> "run_script"}),
      Dep(Default(List("addressfamily", <<"any", "ipv4">>), "any"), {"mode" :> "ping_reboot", "mode" :> "restart_iface", "mode" :> "run_script"}),
      Dep(Default(Value("pingperiod"), "30s"), {"mode" :> "ping_reboot", "mode" :> "restart_iface", "mode" :> "run_script"}),
      Dep(Default(List("pingsize", <<"small", "windows", "standard">>), "standard"), {"mode" :> "ping_reboot", "mode" :> "restart_iface", "mode" :> "run_script"}),
      Dep(Default(Value("forcedelay"), "1m"), {"mode" :> "ping_reboot", "mode" :> "periodic_reboot"}),
      Dep(Value("interface"), {"mode" :> "ping_reboot", "mode" :> "restart_iface", "mode" :> "run_script"}),
      Dep(Optional(Value("mmifacename")), {"mode" :> "restart_iface"}),
      Dep(Flag("unlockbands"), {"mode" :> "restart_iface"})>>

(* luci-app-wol/view/wol.js *)
Wol ==
    <<List("executable", <<"/usr/bin/etherwake", "/usr/bin/wol">>),
      Dep(Required(Default(Value("iface"), "*")), {"executable" :> "/usr/bin/etherwake"}),
      Required(Value("mac")), Dep(Flag("broadcast"), {"executable" :> "/usr/bin/etherwake"})>>

(* luci-app-xfrpc/view/xfrpc.js *)
XfrpcCommon ==
    <<Value("server_addr"), Value("server_port"), Value("token"), SectionValue("init")>>
XfrpcInit ==
    <<Optional(Flag("disabled")), List("loglevel", <<"8", "7">>)>>
XfrpcXfrpc ==
    <<Value("type"), Value("local_ip"), Value("local_port"), List("type", <<"tcp", "http">>),
      Value("local_ip"), Value("local_port"), Optional(Value("remote_port")),
      Optional(Value("custom_domains")), Optional(Value("subdomain"))>>

(* luci-app-xinetd/view/xinetd/xinetd.js *)
Xinetd1 ==
    <<Required(Value("name")), Required(Default(Switch(Flag("disable"), "no", "yes"), "no")),
      Required(Default(Switch(Flag("flags"), "IPv6", "IPv4"), "IPv4")),
      Required(Default(List("type", <<"INTERNAL", "UNLISTED">>), "UNLISTED")),
      Dep(Value("id"), {"type" :> "INTERNAL"}),
      Dep(Required(Value("port")), {"type" :> "UNLISTED"}),
      Required(Default(List("protocol", <<"tcp", "udp">>), "tcp")),
      Required(Default(List("socket_type", <<"stream", "dgram">>), "stream")), Value("redirect"),
      Dep(Own(Required(Value("server"))), {"type" :> "UNLISTED"}),
      Dep(Value("server_args"), {"type" :> "UNLISTED"}), Required(Value("user")),
      Required(Default(List("wait", <<"yes", "no">>), "no")), MultiValue("log_on_success"),
      MultiValue("log_on_failure"), Multi("only_from"), Multi("no_access"), Value("instances"),
      Value("cps")>>
Xinetd2 ==
    <<Multi("access_times")>>

(* luci-app-yggdrasil/view/yggdrasil/keys.js *)
YggdrasilKeys ==
    <<Value("PublicKey"), Value("PrivateKey")>>

(* luci-app-yggdrasil/view/yggdrasil/peers.js *)
YggdrasilPeersPeer ==
    <<Value("uri")>>
YggdrasilPeersInterfacePeer ==
    <<Value("interface"), Value("uri")>>

(* luci-app-yggdrasil/view/yggdrasil/settings.js *)
YggdrasilSettingsYggdrasil ==
    <<Value("IfName"), Flag("NodeInfoPrivacy"), Value("NodeInfo"), Value("IfMTU")>>
YggdrasilSettingsListenAddress ==
    <<Value("uri")>>
YggdrasilSettingsMulticastInterface ==
    <<Value("regex"), Flag("beacon"), Flag("listen"), Value("port")>>

ViewsMoreAppsForms ==
    <<MinidlnaMinidlna, MjpgStreamerMjpgStreamer,
      Within({"output"}, MjpgStreamerMjpgStreamerA1 \o MjpgStreamerMjpgStreamerA2), Mwan3Globals,
      Mwan3Interface1 \o Mwan3Interface2, Mwan3Member, Mwan3Policy, Mwan3Rule, Natmap,
      NextdnsOverview, NlbwmonConfig, OlsrOlsrdOlsrd1 \o OlsrOlsrdOlsrd2,
      OlsrOlsrdInterfaceDefaults1 \o OlsrOlsrdInterfaceDefaults2, OlsrOlsrdInterface,
      OlsrOlsrd6Olsrd61 \o OlsrOlsrd6Olsrd62,
      OlsrOlsrd6InterfaceDefaults1 \o OlsrOlsrd6InterfaceDefaults2, OlsrOlsrd6Interface,
      OlsrOlsrddisplay, OlsrOlsrdhnaHna4, OlsrOlsrdhnaHna6, OlsrOlsrdhna6,
      OlsrOlsrdiface1 \o OlsrOlsrdiface2, OlsrOlsrdiface61 \o OlsrOlsrdiface62,
      OlsrOlsrdpluginsSid, OlsrOlsrdpluginsLoadPlugin, OlsrOlsrdplugins6Sid,
      OlsrOlsrdplugins6LoadPlugin, Omcproxy, Openwisp, Pagekitec,
      PbrOverviewConfig1 \o PbrOverviewConfig2, PbrOverviewPolicy, PbrOverviewInclude,
      Samba4Samba, Samba4Sambashare, Ser2netLeds, Ser2netProxies, Ser2netSettingsSer2net,
      Ser2netSettingsControlport, Ser2netSettingsDefault,
      ShadowsocksLibev1 \o ShadowsocksLibev2 \o ShadowsocksLibev3, ShadowsocksLibevInstances,
      ShadowsocksLibevRules, ShadowsocksLibevServers,
      SmartdnsSmartdns1 \o SmartdnsSmartdns2 \o SmartdnsSmartdns3 \o SmartdnsSmartdns4,
      SmartdnsFiles, SmartdnsServer1 \o SmartdnsServer2,
      SmartdnsDomainRule1 \o SmartdnsDomainRule2 \o SmartdnsDomainRule3,
      SmartdnsDomainRuleList1 \o SmartdnsDomainRuleList2, SmartdnsSmartdnsA, SnmpdAgent,
      SnmpdAgentx, SnmpdCom2sec, SnmpdGroup, SnmpdAccess, SnmpdSystem, Sqm,
      StatisticsCollectdCollectd, StatisticsCollectdStatistics, StatisticsApcups,
      StatisticsChrony, StatisticsCpu, StatisticsCpufreq, StatisticsCsv, StatisticsCurl,
      StatisticsCurlPages, StatisticsDf, StatisticsDhcpleases, StatisticsDisk, StatisticsDns,
      StatisticsEmail, StatisticsExec1 \o StatisticsExec2, StatisticsExecInput,
      StatisticsExecNotify, StatisticsInterface, StatisticsIptables, StatisticsIptablesA,
      StatisticsIrq, StatisticsIwinfo, StatisticsMemory, StatisticsNetlink,
      StatisticsNetwork1 \o StatisticsNetwork2, StatisticsNetworkListeners,
      StatisticsNetworkServers, StatisticsNut, StatisticsOlsrd, StatisticsOpenvpn,
      StatisticsPing, StatisticsProcesses, StatisticsRrdtool, StatisticsSensors, StatisticsSnmp6,
      StatisticsSyslog, StatisticsTcpconns, StatisticsThermal, StatisticsUnixsock,
      TransmissionTransmission, TransmissionTransmissionA, TransmissionTransmissionB,
      TransmissionTransmissionC, TransmissionTransmissionD, TransmissionTransmissionE,
      TransmissionTransmissionF, TransmissionTransmissionG, TransmissionTransmissionH,
      TransmissionTransmissionI, TravelmateOverviewGlobal,
      TravelmateStationsWifiIface1 \o TravelmateStationsWifiIface2 \o TravelmateStationsWifiIface3 \o TravelmateStationsWifiIface4,
      TravelmateStationsAddTrm, TtydConfig, Udpxy, UhttpdUhttpd1 \o UhttpdUhttpd2, UhttpdCert,
      UpnpConfig, UpnpPermRule, Vnstat2Config, Watchcat, Wol, XfrpcCommon, XfrpcInit, XfrpcXfrpc,
      Xinetd1 \o Xinetd2, YggdrasilKeys, YggdrasilPeersPeer, YggdrasilPeersInterfacePeer,
      YggdrasilSettingsYggdrasil, YggdrasilSettingsListenAddress,
      YggdrasilSettingsMulticastInterface>>
=============================================================================
