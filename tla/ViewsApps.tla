------------------------------- MODULE ViewsApps -------------------------------
(* Forms of the views of the applications a to l: the                      *)
(* fields of each section in the order of their declaration (see           *)
(* FormFields).  Of a long list of choices only those that something       *)
(* depends on are kept, with the first and one other; "*" stands for       *)
(* a choice or a default computed by the view.  A field declared under     *)
(* a condition is taken as declared.                                       *)
EXTENDS FormFields

(* luci-app-firewall/tools/firewall.js: the fields its views share *)
addDSCPOption(is_target) ==
    IF is_target THEN Dep(Required(Value("set_dscp")), {"target" :> "DSCP"}) ELSE Value("dscp")
addMarkOption(is_target) ==
    CASE is_target = 0 -> Value("mark")
      [] is_target = 1 -> Dep(Required(Value("set_mark")), {"target" :> "MARK_SET"})
      [] is_target = 2 -> Dep(Required(Value("set_xmark")), {"target" :> "MARK_XOR"})
addLimitOption == Value("limit")
addLimitBurstOption == Dep(Value("limit_burst"), {Unless("limit" :> "<null>")})
addIPOption(name, multiple) == IF multiple THEN Multi(name) ELSE Value(name)
addLocalIPOption(name) == Value(name)
addMACOption(name) == Multi(name)

(* luci-app-acl/view/system/acl.js *)
Acl ==
    <<Required(Value("username")), Own(List("_variant", <<"shadow", "crypted">>)),
      Dep(Own(Value("_account")), {"_variant" :> "shadow"}),
      Dep(Own(Required(Value("password"))), {"_variant" :> "crypted"}),
      Default(Value("timeout"), "300"), Own(Value("_read")), Own(Value("_write")),
      Own(List("_level", <<"write", "read", "individual">>)),
      Dep(Own(Value("_acl")), {"_level" :> "individual"})>>

(* luci-app-acme/view/acme.js *)
AcmeAcme ==
    <<Required(Value("account_email")), Required(Flag("debug"))>>
AcmeCert1 ==
    <<Required(Flag("enabled")), Multi("domains"),
      Default(List("validation_method", <<"standalone", "webroot", "dns">>), "webroot"),
      Dep(Optional(Value("webroot")), {"validation_method" :> "webroot"})>>
AcmeCert2 ==
    <<Dep(List("dns", <<"", "dns_acmedns">>), {"validation_method" :> "dns"})>>
AcmeCert3 ==
    <<Dep(Dummy("_wiki_url"), {"validation_method" :> "dns"})>>
AcmeCert4 ==
    <<Dep(Multi("credentials"), {"validation_method" :> "dns"}),
      Dep(Value("calias"), {"validation_method" :> "dns"}),
      Dep(Value("dalias"), {"validation_method" :> "dns"}), Required(Flag("use_staging")),
      Own(Optional(Required(List("key_type", <<"rsa2048", "rsa3072">>)))),
      Dep(Flag("use_acme_server"), {"use_staging" :> "0"}),
      Dep(Optional(Value("acme_server")), {"use_acme_server" :> "1"}), Optional(Value("days"))>>

(* luci-app-adblock-fast/view/adblock-fast/overview.js *)
AdblockFastOverviewConfig1 ==
    <<Default(List("dns", <<"dnsmasq.addnhosts", "dnsmasq.conf", "dnsmasq.ipset", "dnsmasq.nftset", "dnsmasq.servers">>), "dnsmasq.servers"),
      Dep(Value("dnsmasq_config_file_url"), {"dns" :> "dnsmasq.conf"}),
      Dep(Retain(Default(List("dnsmasq_instance", <<"*", "-">>), "*")), {"dns" :> "dnsmasq.addnhosts", "dns" :> "dnsmasq.servers"}),
      Default(List("force_dns", <<"0", "1">>), "1"),
      Default(List("verbosity", <<"0", "1", "2">>), "2"), List("led", <<"", "*">>),
      Default(List("config_update_enabled", <<"0", "1">>), "0")>>
AdblockFastOverviewConfig2 ==
    <<Dep(Retain(List("ipv6_enabled", <<"", "1">>)), {"dns" :> "dnsmasq.addnhosts", "dns" :> "dnsmasq.nftset"}),
      Default(Value("download_timeout"), "20"), Value("curl_max_file_size"),
      Default(Value("curl_retry"), "3"), Default(List("parallel_downloads", <<"0", "1">>), "1"),
      Default(List("compressed_cache", <<"0", "1">>), "0"),
      Dep(Retain(Default(Value("compressed_cache_dir"), "/etc")), {"compressed_cache" :> "1"}),
      Default(List("debug", <<"0", "1">>), "0")>>
AdblockFastOverviewConfigA ==
    <<Multi("allowed_domain"), Multi("blocked_domain")>>
AdblockFastOverviewFileUrl ==
    <<Dummy("_size"), Default(Flag("enabled"), "1"),
      Default(List("action", <<"allow", "block">>), "block"), Value("url")>>

(* luci-app-adblock/view/adblock/overview.js *)
AdblockOverviewGlobal1 ==
    <<Required(Flag("adb_enabled")), Value("adb_trigger"), Required(Flag("adb_forcedns")),
      Dep(Multi("adb_zonelist"), {"adb_forcedns" :> "1"}),
      Dep(Multi("adb_portlist"), {"adb_forcedns" :> "1"}), Required(Flag("adb_safesearch")),
      Dep(MultiValue("adb_safesearchlist"), {"adb_safesearch" :> "1"}),
      Dep(Flag("adb_safesearchmod"), {"adb_safesearch" :> "1"}), Required(Flag("adb_report")),
      Required(Flag("adb_mail")), Dep(Value("adb_mailreceiver"), {"adb_mail" :> "1"}),
      Required(Flag("adb_debug")), Switch(Flag("adb_nice"), "10", "0"),
      Value("adb_triggerdelay"), Value("adb_tmpbase"),
      Required(Default(Flag("adb_backup"), "1")),
      Dep(Value("adb_backupdir"), {"adb_backup" :> "1"}),
      Optional(List("adb_fetchutil", <<"uclient-fetch", "wget">>)), Flag("adb_fetchinsecure"),
      Optional(Value("adb_fetchparm")), Optional(List("adb_dns", <<"dnsmasq", "unbound">>)),
      Value("adb_dnsdir"),
      Dep(Optional(List("adb_dnsinstance", <<"0", "1">>)), {"adb_dns" :> "dnsmasq"}),
      Value("adb_dnstimeout"), Value("adb_lookupdomain"), Flag("adb_dnsflush"),
      Flag("adb_dnsallow")>>
AdblockOverviewGlobal2 ==
    <<Optional(Multi("adb_denyip")), Optional(Multi("adb_allowip")), Flag("adb_jail"),
      Dep(Value("adb_jaildir"), {"adb_jail" :> "1"}), Dummy("_sub"), Value("adb_repiface"),
      Value("adb_reportdir"), Value("adb_repchunkcnt"), Value("adb_repchunksize"),
      Value("adb_replisten"), Flag("adb_represolve"), Value("adb_mailsender"),
      Value("adb_mailtopic"), Value("adb_mailprofile"), Value("adb_mailcnt"), Dummy("_sub"),
      Optional(MultiValue("adb_sources")), Dummy("_sub"), Optional(Multi("adb_utc_sources")),
      Dummy("_sub"), Optional(Multi("adb_stb_sources"))>>

(* luci-app-apinger/view/apinger/alarm_delay.js *)
ApingerAlarmDelay ==
    <<Default(Value("delay_low"), "30"), Default(Value("delay_high"), "50")>>

(* luci-app-apinger/view/apinger/alarm_down.js *)
ApingerAlarmDown ==
    <<Default(Value("time"), "1")>>

(* luci-app-apinger/view/apinger/alarm_loss.js *)
ApingerAlarmLoss ==
    <<Default(Value("percent_low"), "10"), Default(Value("percent_high"), "20")>>

(* luci-app-apinger/view/apinger/interfaces.js *)
ApingerInterfaces ==
    <<Flag("debug"), Default(Value("status_interval"), "5"),
      Default(Value("rrd_interval"), "30")>>

(* luci-app-apinger/view/apinger/targets.js *)
ApingerTargets ==
    <<List("interface", <<"*">>), Value("address"), Value("probe_interval"),
      Value("avg_delay_samples"), Value("avg_loss_samples"), Value("avg_loss_delay_samples"),
      Flag("rrd"), Optional(List("alarm_down", <<"*">>)), Optional(List("alarm_delay", <<"*">>)),
      Optional(List("alarm_loss", <<"*">>))>>

(* luci-app-aria2/view/aria2/config.js *)
Aria2ConfigMain1 ==
    <<Required(Flag("enabled")), Value("user"), Required(Value("dir")), Value("config_dir"),
      Required(Flag("enable_logging")), Dep(Value("log"), {"enable_logging" :> "1"}),
      Dep(Default(List("log_level", <<"debug", "info", "warn">>), "warn"), {"enable_logging" :> "1"}),
      Value("max_concurrent_downloads"),
      Default(Switch(Flag("pause"), "true", "false"), "false"),
      Default(Switch(Flag("pause_metadata"), "true", "false"), "false"),
      Value("rpc_listen_port"), List("rpc_auth_method", <<"none", "user_pass", "token">>),
      Dep(Value("rpc_user"), {"rpc_auth_method" :> "user_pass"}),
      Dep(Value("rpc_passwd"), {"rpc_auth_method" :> "user_pass"}),
      Dep(Own(Value("rpc_secret")), {"rpc_auth_method" :> "token"}),
      Required(Switch(Flag("rpc_secure"), "true", "false")),
      Dep(Required(Value("rpc_certificate")), {"rpc_secure" :> "true"}),
      Dep(Required(Value("rpc_private_key")), {"rpc_secure" :> "true"}), Own(Value("_rpc_url")),
      Required(Flag("enable_proxy")), Dep(Value("all_proxy"), {"enable_proxy" :> "1"}),
      Dep(Value("all_proxy_user"), {"enable_proxy" :> "1"}),
      Dep(Value("all_proxy_passwd"), {"enable_proxy" :> "1"}),
      Required(Default(Switch(Flag("check_certificate"), "true", "false"), "true")),
      Dep(Value("ca_certificate"), {"check_certificate" :> "true"}), Value("certificate"),
      Value("private_key"), Default(Switch(Flag("http_accept_gzip"), "true", "false"), "false")>>
Aria2ConfigMain2 ==
    <<Default(Switch(Flag("http_no_cache"), "true", "false"), "false"), Multi("header"),
      Value("connect_timeout"), Value("timeout"), Value("lowest_speed_limit"),
      Value("max_connection_per_server"), Value("split"), Value("min_split_size"),
      Value("max_tries"), Value("retry_wait"), Value("user_agent"),
      Required(Default(Switch(Flag("enable_dht"), "true", "false"), "true")),
      Switch(Flag("enable_dht6"), "true", "false"),
      Default(Switch(Flag("bt_enable_lpd"), "true", "false"), "false"),
      Required(Default(Switch(Flag("enable_peer_exchange"), "true", "false"), "true")),
      Default(Switch(Flag("bt_save_metadata"), "true", "false"), "false"),
      Default(Switch(Flag("bt_remove_unselected_file"), "true", "false"), "false"),
      Default(Switch(Flag("bt_seed_unverified"), "true", "false"), "false"),
      Value("listen_port"),
      Dep(Value("dht_listen_port"), {"enable_dht" :> "true", "enable_dht6" :> "true"}),
      List("follow_torrent", <<"true", "false">>), Value("max_overall_upload_limit"),
      Value("max_upload_limit")>>
Aria2ConfigMain3 ==
    <<Value("bt_max_open_files"), Value("bt_max_peers"), Value("bt_request_peer_speed_limit"),
      Value("bt_stop_timeout"), Value("peer_id_prefix"), Value("seed_ratio"), Value("seed_time"),
      Multi("bt_tracker"), Default(Switch(Flag("disable_ipv6"), "true", "false"), "false"),
      Value("auto_save_interval"), Value("save_session_interval"), Value("disk_cache"),
      Default(List("file_allocation", <<"none", "prealloc", "trunc">>), "prealloc"),
      Default(Switch(Flag("force_save"), "true", "false"), "false"),
      Value("max_overall_download_limit"), Value("max_download_limit")>>
Aria2ConfigMainA ==
    <<Multi("extra_settings")>>

(* luci-app-attendedsysupgrade/view/attendedsysupgrade/configuration.js *)
AttendedsysupgradeConfigurationServer ==
    <<Value("url"), Multi("rebuilder")>>
AttendedsysupgradeConfigurationClient ==
    <<Required(Default(Flag("auto_search"), "1")), Required(Flag("advanced_mode"))>>

(* luci-app-attendedsysupgrade/view/attendedsysupgrade/overview.js *)
AttendedsysupgradeOverview ==
    <<List("version", <<"*">>), Value("profile"), Multi("packages")>>

(* luci-app-banip/view/banip/feeds.js *)
BanipFeedsFeed ==
    <<Into(Value("name"), ".name"), Value("url_4"), Value("rule_4"), Value("url_6"),
      Value("rule_6"), Value("descr"), Value("flag")>>

(* luci-app-banip/view/banip/overview.js *)
BanipOverviewGlobal1 ==
    <<Required(Flag("ban_enabled")), Required(Flag("ban_debug")),
      Required(Flag("ban_autodetect")),
      Dep(Retain(Optional(Flag("ban_protov4"))), {"ban_autodetect" :> "0"}),
      Dep(Retain(Optional(Flag("ban_protov6"))), {"ban_autodetect" :> "0"}),
      Dep(Retain(Optional(Multi("ban_dev"))), {"ban_autodetect" :> "0"}),
      Dep(Retain(Optional(Multi("ban_ifv4"))), {"ban_autodetect" :> "0"}),
      Dep(Retain(Optional(Multi("ban_ifv6"))), {"ban_autodetect" :> "0"}),
      Dep(Retain(Optional(List("ban_fetchcmd", <<"uclient-fetch", "wget">>))), {"ban_autodetect" :> "0"}),
      Dep(Retain(Optional(Value("ban_fetchparm"))), {"ban_autodetect" :> "0"}),
      Multi("ban_trigger"), Value("ban_triggerdelay"),
      Optional(List("ban_fetchretry", <<"1", "3">>)), Flag("ban_fetchinsecure"), Dummy("_sub"),
      Optional(List("ban_nicelimit", <<"-20", "-10">>)),
      Optional(List("ban_filelimit", <<"512", "1024">>)),
      Optional(List("ban_cores", <<"1", "2">>)),
      Optional(List("ban_splitsize", <<"256", "512">>)), Value("ban_basedir"),
      Value("ban_backupdir"), Value("ban_reportdir"),
      Required(Default(Flag("ban_deduplicate"), "1")),
      Optional(Default(Flag("ban_reportelements"), "1")), Dummy("_sub")>>
BanipOverviewGlobal2 ==
    <<Optional(List("ban_nftpolicy", <<"memory", "performance">>)),
      Optional(List("ban_nftpriority", <<"0", "-100">>)), Optional(Multi("ban_vlanallow")),
      Optional(Multi("ban_vlanblock")), Optional(List("ban_blocktype", <<"drop", "reject">>)),
      Optional(List("ban_blockpolicy", <<"input", "forwardwan">>)),
      Optional(MultiValue("ban_blockinput")), Optional(MultiValue("ban_blockforwardwan")),
      Optional(MultiValue("ban_blockforwardlan")), Dummy("_sub"),
      Optional(List("ban_nftloglevel", <<"emerg", "alert">>)),
      Required(Default(Flag("ban_loginput"), "1")),
      Required(Default(Flag("ban_logforwardwan"), "1")), Required(Flag("ban_logforwardlan")),
      Optional(List("ban_loglimit", <<"0", "50">>)), Value("ban_logcount"),
      Optional(Multi("ban_logterm")), Dummy("_sub"), Flag("ban_mailnotification"),
      Value("ban_mailreceiver"), Value("ban_mailsender"), Value("ban_mailtopic")>>
BanipOverviewGlobal3 ==
    <<Value("ban_mailprofile"), Dummy("_sub"), Optional(MultiValue("ban_feed")),
      Optional(MultiValue("ban_country")), Optional(Multi("ban_asn")), Dummy("_feeds"),
      Optional(Multi("ban_allowurl")), Dummy("_feeds"),
      Required(Default(Flag("ban_autoallowlist"), "1")),
      Dep(Optional(List("ban_autoallowuplink", <<"disable", "subnet">>)), {"ban_autoallowlist" :> "1"}),
      Required(Default(Flag("ban_autoblocklist"), "1")), Optional(Flag("ban_autoblocksubnet")),
      Optional(List("ban_nftexpiry", <<"10s", "1m">>)), Required(Flag("ban_allowlistonly"))>>

(* luci-app-bcp38/view/bcp38/form.js *)
Bcp38Form ==
    <<Required(Flag("enabled")), Required(Flag("detect_upstream")), Required(Value("interface")),
      Multi("match"), Multi("nomatch")>>

(* luci-app-commands/view/commands.js *)
Commands ==
    <<Value("name"), Value("command"), Flag("param"), Flag("public")>>

(* luci-app-ddns/view/ddns/overview.js *)
DdnsOverviewGlobal1 ==
    <<Dummy("_version"), Dummy("_enabled"), Dummy("_toggle"), Dummy("_restart"),
      Dummy("_services_list"), Dummy("_refresh_services"), Dummy("_no_ipv6"), Dummy("_no_https"),
      Dummy("_no_bind_network"), Dummy("_no_proxy"), Dummy("_no_force_ip"), Dummy("_no_dnstcp"),
      Dummy("_no_dnsserver"), Dummy("_no_certs"), Optional(Flag("upd_privateip"))>>
DdnsOverviewGlobal2 ==
    <<Optional(Default(Value("ddns_dateformat"), "%F %R")),
      Optional(Default(Value("ddns_rundir"), "/var/run/ddns")),
      Optional(Default(Value("ddns_logdir"), "/var/log/ddns")),
      Default(Value("ddns_loglines"), "250"), Optional(Flag("use_curl")), Value("cacert"),
      Value("services_url")>>
DdnsOverviewService1 ==
    <<Required(Default(Flag("enabled"), "1")), Required(Value("lookup_host")),
      Required(Default(List("use_ipv6", <<"0", "1">>), "0")),
      Own(List("service_name", <<"-", "*">>))>>
DdnsOverviewService2 ==
    <<Dummy("_download_service"), Dummy("_not_supported"),
      Dep(Dummy("_switch_proto"), {Unless("service_name" :> "*" @@ "use_ipv6" :> "0")}),
      Dep(Optional(Value("update_url")), {"service_name" :> "-"}),
      Dep(Optional(Value("update_script")), {"service_name" :> "-"}), Required(Value("domain")),
      Required(Value("username")), Required(Value("password")), Optional(Value("param_enc")),
      Optional(Value("param_opt")), Optional(Flag("use_https")),
      Dep(Required(Value("cacert")), {"use_https" :> "1"})>>
DdnsOverviewService3 ==
    <<Own(Default(List("ip_source", <<"network", "web", "interface", "script">>), "network")),
      Dep(Default(Value("ip_network"), "wan"), {"ip_source" :> "network"}),
      Dep(Value("ip_url"), {"ip_source" :> "web"}),
      Dep(Default(Value("ip_interface"), "wan"), {"ip_source" :> "interface"}),
      Dep(Value("ip_script"), {"ip_source" :> "script"}),
      Dep(Default(Value("interface"), "wan"), {"ip_source" :> "web", "ip_source" :> "script"}),
      Dep(Dummy("_interface"), {"ip_source" :> "interface", "ip_source" :> "network"}),
      Dep(Optional(Value("bind_network")), {"ip_source" :> "web"}),
      Optional(Flag("force_ipversion")), Optional(Value("dns_server")),
      Optional(Flag("force_dnstcp"))>>
DdnsOverviewService4 ==
    <<Optional(Value("proxy")), Optional(Default(List("use_syslog", <<"0", "1", "2">>), "2")),
      Own(Optional(Default(Flag("use_logfile"), "1"))), Value("check_interval"),
      Default(List("check_unit", <<"seconds", "minutes", "hours">>), "minutes"),
      Optional(Value("force_interval")),
      Optional(Default(List("force_unit", <<"minutes", "hours">>), "minutes")),
      Optional(Value("retry_count")), Optional(Value("retry_interval")),
      Optional(Default(List("retry_unit", <<"seconds", "minutes">>), "seconds")),
      Dep(Dummy("_read_log"), {"use_logfile" :> "1"}),
      Dep(Dummy("_logview"), {"use_logfile" :> "1"})>>
DdnsOverviewService5 ==
    <<Dummy("_cfg_status"), Dummy("_cfg_name"), Dummy("_cfg_detail_ip"), Dummy("_cfg_update")>>
DdnsOverviewNew ==
    <<Required(Value("name")), Default(List("use_ipv6", <<"0", "1">>), "0"),
      List("service_name", <<"-", "*">>)>>

(* luci-app-email/view/email/emailrelay.js *)
EmailEmailrelay1 ==
    <<Required(Flag("enabled")),
      Required(Default(List("mode", <<"server", "proxy", "cmdline">>), "server")),
      Default(Value("port"), "25"), Flag("remote_clients"), Flag("anonymous"),
      Dep(Optional(Required(Value("domain"))), {"anonymous" :> "0"}),
      Optional(Default(FileUpload("server_auth"), "/etc/emailrelay.auth")),
      Optional(Flag("server_tls")),
      Dep(Optional(FileUpload("server_tls_key")), {"server_tls" :> "1"}),
      Dep(Optional(Required(FileUpload("server_tls_certificate"))), {"server_tls" :> "1"}),
      Dep(Optional(Required(Default(Value("server_tls_verify"), "<default>"))), {"server_tls" :> "1"}),
      Optional(Required(Default(Value("spool_dir"), "/var/spool/emailrelay"))),
      Dep(Required(Value("smarthost")), {"mode" :> "proxy"}),
      Dep(Optional(Required(Default(FileUpload("client_auth"), "/etc/emailrelay.auth"))), {"mode" :> "proxy"})>>
EmailEmailrelay2 ==
    <<Dep(Optional(Required(Flag("client_tls"))), {"mode" :> "proxy"}),
      Dep(Optional(FileUpload("client_tls_key")), {"client_tls" :> "1"}),
      Dep(Optional(Required(FileUpload("client_tls_certificate"))), {"client_tls" :> "1"}),
      Dep(Optional(Required(Default(Value("client_tls_verify"), "<default>"))), {"client_tls" :> "1"}),
      Dep(Optional(Required(Flag("pop"))), {"mode" :> "server"}),
      Dep(Optional(Required(Default(FileUpload("pop_auth"), "/etc/emailrelay.auth"))), {"pop" :> "1"}),
      Dep(Optional(Required(Default(Flag("pop_by_name"), "1"))), {"pop" :> "1"}),
      Optional(Value("dnsbl")), Optional(Required(Value("address_verifier"))),
      Optional(Required(Value("filter"))), Optional(Required(Value("extra_cmdline")))>>

(* luci-app-eoip/view/eoip/eoip.js *)
Eoip ==
    <<Flag("enabled"), Required(Default(Value("name"), "0")),
      Required(Default(Value("idtun"), "1")), Required(Value("dst")), Flag("dynamic"),
      Multi("vlan")>>

(* luci-app-example/view/example/form.js *)
ExampleFormFirst ==
    <<Value("first_option")>>
ExampleFormSecond ==
    <<Required(Default(Flag("flag"), "1")), Required(List("select", <<"key1", "key2">>))>>

(* luci-app-firewall/view/firewall/forwards.js *)
FirewallForwards1 ==
    <<Value("name"), Own(List("family", <<"ipv4", "ipv6", "">>)), Dummy("_match"),
      List("_dest", <<"*">>), Default(Flag("enabled"), "1"),
      Own(Default(Multi("proto"), "[tcp,udp]")), Required(Default(Value("src"), "wan")),
      Value("ipset"), addMACOption("src_mac"), addIPOption("src_ip", FALSE),
      Dep(Value("src_port"), {Holding("proto" :> "tcp"), Holding("proto" :> "udp")}),
      addLocalIPOption("src_dip"),
      Dep(Required(Value("src_dport")), {Holding("proto" :> "tcp"), Holding("proto" :> "udp")}),
      Value("dest"), addIPOption("dest_ip", FALSE),
      Dep(Value("dest_port"), {Holding("proto" :> "tcp"), Holding("proto" :> "udp")}),
      Default(Flag("reflection"), "1"),
      Dep(Own(List("reflection_src", <<"internal", "external">>)), {"reflection" :> "1"}),
      Dep(Multi("reflection_zone"), {"reflection" :> "1"})>>
FirewallForwards2 ==
    <<Value("helper"), addMarkOption(0), addLimitOption, addLimitBurstOption, Value("extra")>>

(* luci-app-firewall/view/firewall/ipsets.js *)
FirewallIpsetsIpset1 ==
    <<Required(Value("name")), Dep(Value("name"), {"external" :> ""}), Value("comment"),
      Default(List("family", <<"ipv4", "ipv6">>), "*"), Required(Multi("match")), Multi("entry"),
      Value("maxelem"), Optional(Value("external")),
      List("storage", <<"bitmap", "hash", "list">>),
      Dep(Value("iprange"), {"family" :> "ipv4" @@ "storage" :> "bitmap" @@ "match" :> "/_ip|_mac/", "storage" :> "hash" @@ "match" :> "/_ip/"}),
      Dep(Multi("entry"), {"storage" :> "hash" @@ "match" :> "/_ip|_net|_mac/"}),
      Dep(Value("portrange"), {"family" :> "ipv4" @@ "storage" :> "bitmap" @@ "match" :> "/_port/", "family" :> "ipv4" @@ "storage" :> "hash" @@ "match" :> "/_port/", "family" :> "ipv6" @@ "storage" :> "hash" @@ "match" :> "/_port/"}),
      Dep(Value("netmask"), {"family" :> "ipv4" @@ "storage" :> "bitmap" @@ "match" :> "/_ip/", "storage" :> "hash" @@ "match" :> "/_ip/"}),
      Dep(Value("maxelem"), {"storage" :> "hash", "storage" :> "list"}),
      Dep(Value("hashsize"), {"storage" :> "hash"}), FileUpload("loadfile")>>
FirewallIpsetsIpset2 ==
    <<Value("timeout"), Flag("counters"), Default(Flag("enabled"), "1")>>

(* luci-app-firewall/view/firewall/rules.js *)
FirewallRules1 ==
    <<Value("name"), Dummy("_match"), List("_target", <<"*">>), Default(Flag("enabled"), "1"),
      Own(List("direction", <<"", "in", "out">>)),
      Dep(Required(Value("device")), {"direction" :> "in", "direction" :> "out"}),
      List("family", <<"", "ipv4">>), Own(Default(Multi("proto"), "[tcp,udp]"))>>
FirewallRules2 ==
    <<Dep(MultiValue("icmp_type"), {Holding("proto" :> "icmp"), Holding("proto" :> "icmpv6")}),
      Value("src"), Value("ipset"), addMACOption("src_mac"), addIPOption("src_ip", TRUE),
      Dep(Value("src_port"), {Holding("proto" :> "tcp"), Holding("proto" :> "udp")}),
      Value("dest"), addIPOption("dest_ip", TRUE),
      Dep(Value("dest_port"), {Holding("proto" :> "tcp"), Holding("proto" :> "udp")}),
      Own(Default(List("target", <<"DROP", "ACCEPT", "REJECT", "HELPER", "MARK_SET", "MARK_XOR", "DSCP">>), "ACCEPT")),
      addMarkOption(1), addMarkOption(2), addDSCPOption(TRUE)>>
FirewallRules3 ==
    <<Dep(List("set_helper", <<"*">>), {"target" :> "HELPER"}), Value("helper"),
      addMarkOption(0), addDSCPOption(FALSE), addLimitOption, addLimitBurstOption,
      Value("extra"), Own(MultiValue("weekdays")), Own(MultiValue("monthdays")),
      Value("start_time"), Value("stop_time"), Value("start_date"), Value("stop_date"),
      Flag("utc_time")>>

(* luci-app-firewall/view/firewall/snats.js *)
FirewallSnats1 ==
    <<Value("name"), Dummy("_match"), List("_target", <<"*">>), Default(Flag("enabled"), "1"),
      Own(List("family", <<"ipv4", "ipv6", "">>)), Own(Default(Multi("proto"), "[all]")),
      Required(Default(Value("src"), "lan")), addIPOption("src_ip", FALSE),
      Dep(Value("src_port"), {Holding("proto" :> "tcp"), Holding("proto" :> "udp")}),
      addIPOption("dest_ip", FALSE),
      Dep(Value("dest_port"), {Holding("proto" :> "tcp"), Holding("proto" :> "udp")}),
      Default(List("target", <<"SNAT", "MASQUERADE">>), "SNAT"),
      Dep(addLocalIPOption("snat_ip"), {"target" :> "SNAT"}),
      Dep(Value("snat_port"), {Holding("proto" :> "tcp"), Holding("proto" :> "udp")}),
      Value("ipset"), Value("device"), addMarkOption(0), addLimitOption, addLimitBurstOption>>
FirewallSnats2 ==
    <<Value("extra"), Own(MultiValue("weekdays")), Own(MultiValue("monthdays")),
      Value("start_time"), Value("stop_time"), Value("start_date"), Value("stop_date"),
      Flag("utc_time")>>

(* luci-app-firewall/view/firewall/zones.js *)
FirewallZonesDefaults ==
    <<Own(Flag("synflood_protect")), Flag("drop_invalid"), List("input", <<"*">>),
      List("output", <<"*">>), List("forward", <<"*">>)>>
FirewallZonesDefaultsA ==
    <<Optional(Flag("flow_offloading")),
      Dep(Optional(Flag("flow_offloading_hw")), {"flow_offloading" :> "1"})>>
FirewallZonesZone1 ==
    <<Dummy("_generalinfo"), Own(Required(Value("name"))), Own(Value("_info")),
      List("input", <<"*">>), List("output", <<"*">>), List("forward", <<"*">>), Flag("masq"),
      Flag("mtu_fix"), Own(Multi("network")), Dummy("_advancedinfo"), Multi("device"),
      Multi("subnet"), Flag("masq6"), List("family", <<"", "ipv4", "ipv6">>)>>
FirewallZonesZone2 ==
    <<Dep(Multi("masq_src"), {"family" :> "", "family" :> "ipv4"}),
      Dep(Multi("masq_dest"), {"family" :> "", "family" :> "ipv4"}), Flag("masq_allow_invalid"),
      Default(Flag("auto_helper"), "1"), Dep(MultiValue("helper"), {"auto_helper" :> "0"}),
      Flag("log"), Dep(Value("log_limit"), {"log" :> "1"}), Dummy("_extrainfo"),
      Own(Value("extra_src")), Own(Value("extra_dest")), Dummy("_forwardinfo"),
      Own(Multi("out")), Own(Multi("in"))>>

(* luci-app-frpc/view/frpc.js *)
(* The parameters that a table of options is added with: dependencies are *)
(* joined with that of the option itself, and a Boolean is written out *)
setParams(F, deps) ==
    [i \in DOMAIN F |->
        Dep(F[i], IF F[i].deps = {} THEN deps
                  ELSE {own @@ alt : own \in F[i].deps, alt \in deps})]
Bool(name) == Switch(Flag(name), "true", "false")
AllOptional(F) == [i \in DOMAIN F |-> Optional(F[i])]
FrpcStartup ==
    <<Flag("stdout"), Flag("stderr"), List("user", <<"*", "other">>),
      List("group", <<"*", "other">>), Flag("respawn"), Multi("env"), Multi("conf_inc")>>
FrpcCommon ==
    <<Value("server_addr"), Value("server_port"), Value("http_proxy"), Value("log_file"),
      List("log_level", <<"trace", "debug">>), Value("log_max_days"),
      Default(Bool("disable_log_color"), "false"), Value("token"), Value("admin_addr"),
      Value("admin_port"), Value("admin_user"), Value("admin_pwd"), Value("assets_dir"),
      Default(Bool("tcp_mux"), "true"), Value("user"), Default(Bool("login_fail_exit"), "true"),
      List("protocol", <<"tcp", "kcp">>), Bool("tls_enable"), Value("heartbeat_interval"),
      Value("heartbeat_timeout"), Multi("_")>>
FrpcBaseProxy ==
    <<Required(Value("name")), List("type", <<"tcp", "udp", "http", "https", "stcp", "xtcp">>),
      Bool("use_encryption"), Bool("use_compression"), Value("local_ip"), Value("local_port")>>
FrpcBindInfo ==
    <<Value("remote_port")>>
FrpcDomain ==
    <<Value("custom_domains"), Value("subdomain")>>
FrpcHttpProxy ==
    <<Value("locations"), Value("http_user"), Value("http_pwd"), Value("host_header_rewrite")>>
FrpcStcpProxy ==
    <<List("role", <<"server", "visitor">>), Dep(Value("server_name"), {"role" :> "visitor"}),
      Value("sk")>>
FrpcPlugin ==
    <<List("plugin", <<"", "http_proxy", "socks5", "unix_domain_socket">>),
      Dep(Value("plugin_http_user"), {"plugin" :> "http_proxy"}),
      Dep(Value("plugin_http_passwd"), {"plugin" :> "http_proxy"}),
      Dep(Value("plugin_user"), {"plugin" :> "socks5"}),
      Dep(Value("plugin_passwd"), {"plugin" :> "socks5"}),
      Dep(Default(Required(Value("plugin_unix_path")), "/var/run/docker.sock"),
          {"plugin" :> "unix_domain_socket"})>>
FrpcConf ==
    FrpcBaseProxy \o
    setParams(AllOptional(FrpcBindInfo), {"type" :> "tcp", "type" :> "udp"}) \o
    setParams(AllOptional(FrpcDomain), {"type" :> "http", "type" :> "https"}) \o
    setParams(AllOptional(FrpcHttpProxy), {"type" :> "http"}) \o
    setParams(FrpcStcpProxy, {"type" :> "stcp", "type" :> "xtcp"}) \o FrpcPlugin
FrpcMain == AllOptional(FrpcCommon) \o <<SectionValue("init")>>

(* luci-app-frps/view/frps.js *)
FrpsCommon ==
    <<Value("bind_addr"), Value("bind_port"), Value("bind_udp_port"), Value("kcp_bind_port"),
      Value("proxy_bind_addr"), Value("vhost_http_port"), Value("vhost_https_port"),
      Value("vhost_http_timeout"), Value("dashboard_addr"), Value("dashboard_port"),
      Value("dashboard_user"), Value("dashboard_pwd"), Value("assets_dir"), Value("log_file"),
      List("log_level", <<"trace", "debug">>), Value("log_max_days"),
      Default(Bool("disable_log_color"), "true"), Value("token"), Value("subdomain_host"),
      Default(Bool("tcp_mux"), "true"), Value("custom_404_page"), Value("allow_ports"),
      Value("max_ports_per_client"), Value("heartbeat_timeout"), Multi("_")>>
FrpsStartup == FrpcStartup
FrpsMain == AllOptional(FrpsCommon) \o <<SectionValue("init")>>

(* luci-app-fwknopd/view/fwknopd.js *)
FwknopdAccess ==
    <<Own(Value("qr")), Value("SOURCE"), Value("DESTINATION"),
      Dep(Value("KEY"), {"keytype" :> "KEY"}),
      Dep(Value("KEY_BASE64"), {"keytype" :> "KEY_BASE64"}), Own(Value("keytype")),
      Dep(Value("HMAC_KEY"), {"hkeytype" :> "HMAC_KEY"}),
      Dep(Value("HMAC_KEY_BASE64"), {"hkeytype" :> "HMAC_KEY_BASE64"}), Own(Value("hkeytype"))>>
FwknopdGlobal ==
    <<Flag("uci_enabled"), Own(Value("parse"))>>
FwknopdNetwork ==
    <<Value("network")>>
FwknopdAccessA ==
    <<Own(Value("qr")), Value("SOURCE"), Value("DESTINATION"), Own(Value("keys")),
      Dep(Value("KEY"), {"keytype" :> "KEY"}),
      Dep(Value("KEY_BASE64"), {"keytype" :> "KEY_BASE64"}), Own(Value("keytype")),
      Dep(Value("HMAC_KEY"), {"hkeytype" :> "HMAC_KEY"}),
      Dep(Value("HMAC_KEY_BASE64"), {"hkeytype" :> "HMAC_KEY_BASE64"}), Own(Value("hkeytype")),
      Value("OPEN_PORTS"), Value("RESTRICT_PORTS"), Value("FW_ACCESS_TIMEOUT"),
      Own(Value("REQUIRE_SOURCE_ADDRESS")), Own(Value("ENABLE_CMD_EXEC"))>>
FwknopdConfig ==
    <<Value("MAX_SPA_PACKET_AGE"), Value("PCAP_INTF"), Own(Value("ENABLE_IPT_FORWARDING")),
      Own(Value("ENABLE_NAT_DNS"))>>

(* luci-app-hd-idle/view/hd_idle.js *)
HdIdle ==
    <<Required(Flag("enabled")), List("disk", <<"*">>), Own(Value("_bus")),
      Own(Value("_vendorModel")), Default(Value("idle_time_interval"), "10"),
      Default(List("idle_time_unit", <<"seconds", "minutes", "hours">>), "minutes"),
      Own(Value("_prettytime"))>>

(* luci-app-https-dns-proxy/view/https-dns-proxy/overview.js *)
HttpsDnsProxyOverviewConfig ==
    <<Default(List("dnsmasq_config_update", <<"*", "-">>), "*"),
      Default(List("force_dns", <<"0", "1">>), "1"),
      Dep(Default(List("canary_domains_icloud", <<"0", "1">>), "1"), {"force_dns" :> "1"}),
      Dep(Default(List("canary_domains_mozilla", <<"0", "1">>), "1"), {"force_dns" :> "1"})>>
HttpsDnsProxyOverviewHttpsDnsProxy1 ==
    <<Own(List("_provider", <<"*">>))>>
HttpsDnsProxyOverviewHttpsDnsProxy2 ==
    <<Optional(Value("bootstrap_dns")), Optional(Value("listen_addr")),
      Optional(Value("listen_port")), Optional(Value("user")), Optional(Value("group")),
      Optional(Value("dscp_codepoint")), Optional(Value("verbosity")),
      Optional(Value("logfile")), Optional(Value("polling_interval")),
      Optional(Value("proxy_server")), Optional(List("use_http1", <<"", "1">>)),
      Optional(List("use_ipv6_resolvers_only", <<"", "1">>))>>

(* luci-app-keepalived/view/keepalived/globals.js *)
KeepalivedGlobals ==
    <<Optional(Value("router_id")), Optional(Default(Flag("linkbeat_use_polling"), "1")),
      Optional(Multi("notification_email")), Optional(Value("notification_email_from")),
      Optional(Value("smtp_server")), Optional(Value("smtp_connect_timeout")),
      Optional(Value("vrrp_mcast_group4")), Optional(Value("vrrp_mcast_group6")),
      Optional(Value("vrrp_startup_delay"))>>

(* luci-app-keepalived/view/keepalived/ipaddress.js *)
KeepalivedIpaddressIpaddress ==
    <<Required(Value("name")), Required(Value("address")), Optional(Value("device")),
      Optional(Value("label_suffix")), Optional(List("scope", <<"site", "link">>))>>
KeepalivedIpaddressStaticIpaddress ==
    <<Optional(Multi("address"))>>

(* luci-app-keepalived/view/keepalived/peers.js *)
KeepalivedPeers ==
    <<Value("name"), Required(Value("address")), Flag("sync"),
      Dep(Default(List("sync_mode", <<"send", "receive">>), "send"), {"sync" :> "1"}),
      Dep(Default(Value("ssh_port"), "22"), {"sync" :> "1" @@ "sync_mode" :> "send"}),
      Dep(Required(Default(Value("sync_dir"), "/usr/share/keepalived/rsync")), {"sync" :> "1"}),
      Dep(FileUpload("ssh_key"), {"sync" :> "1" @@ "sync_mode" :> "send"}),
      Dep(TextValue("ssh_pubkey"), {"sync" :> "1" @@ "sync_mode" :> "receive"}),
      Dep(Multi("sync_list"), {"sync" :> "1" @@ "sync_mode" :> "send"})>>

(* luci-app-keepalived/view/keepalived/route.js *)
KeepalivedRouteRoute ==
    <<Value("name"), Optional(Value("device")), Optional(Value("address")),
      Optional(Value("src_addr")), Optional(Value("gateway")), Optional(Value("table")),
      Optional(Flag("blackhole"))>>
KeepalivedRouteStaticRoutes ==
    <<Optional(Multi("route"))>>

(* luci-app-keepalived/view/keepalived/script.js *)
KeepalivedScriptTrackScript ==
    <<Required(Value("name")), Required(List("value", <<"*">>)), Optional(Value("weight")),
      Optional(List("direction", <<"reverse", "noreverse">>))>>
KeepalivedScriptVrrpScript ==
    <<Optional(Value("name")), Optional(FileUpload("script")),
      Optional(Default(Value("interval"), "60")), Optional(Value("weight")),
      Optional(Value("rise")), Optional(Value("fail"))>>

(* luci-app-keepalived/view/keepalived/servers.js *)
KeepalivedServersVirtualServer ==
    <<Optional(Flag("enabled")), Value("ipaddr"),
      Default(List("protocol", <<"TCP", "UDP">>), "TCP"), Required(Value("port")),
      Value("fwmark"), Multi("real_server"), Value("virtualhost"),
      Default(List("lb_kind", <<"NAT", "DR">>), "NAT"), Value("delay_loop"),
      Default(List("lb_algo", <<"rr", "wrr">>), "rr"),
      Default(Value("persistence_timeout"), "50"), Value("persistence_granularity"),
      Value("sorry_server_ip"), Value("sorry_server_port"), Optional(Value("rise")),
      Optional(Value("fail"))>>
KeepalivedServersRealServer ==
    <<Required(Value("name")), Default(Flag("enabled"), "1"), Required(Value("ipaddr")),
      Required(Value("port")), Required(Value("weight")),
      List("check", <<"HTTP_GET", "SSL_GET", "TCP_CHECK", "MISC_CHECK">>),
      Dep(Value("connect_timeout"), {"check" :> "TCP_CHECK"}),
      Dep(Value("connect_port"), {"check" :> "TCP_CHECK"}),
      Dep(Value("misc_path"), {"check" :> "MISC_CHECK"}),
      Dep(Multi("url"), {"check" :> "HTTP_GET", "check" :> "SSL_GET"}), Value("retry"),
      Value("delay_before_retry")>>

(* luci-app-keepalived/view/keepalived/track_interface.js *)
KeepalivedTrackInterface ==
    <<Required(Value("name")), Required(Value("value")), Value("weight")>>

(* luci-app-keepalived/view/keepalived/url.js *)
KeepalivedUrl ==
    <<Value("name"), Value("path"), Value("digest")>>

(* luci-app-keepalived/view/keepalived/vrrp_instance.js *)
KeepalivedVrrpInstance1 ==
    <<Required(Value("name")), Required(List("state", <<"MASTER", "BACKUP">>)),
      Required(Value("interface")), Required(Value("virtual_router_id")),
      Required(Value("priority")), Required(Default(List("advert_int", <<"1", "3">>), "1")),
      Required(Flag("nopreempt")), Required(Multi("virtual_ipaddress")),
      Optional(List("unicast_src_ip", <<"*">>)), Multi("unicast_peer"),
      Dep(Optional(Value("mcast_src_ip")), {"unicast_peer" :> ""}),
      List("auth_type", <<"PASS", "AH">>), Dep(Value("auth_pass"), {"auth_type" :> "PASS"}),
      List("garp_master_delay", <<"1", "3">>), List("garp_master_repeat", <<"1", "3">>),
      List("garp_master_refresh", <<"1", "3">>)>>
KeepalivedVrrpInstance2 ==
    <<List("garp_master_refresh_repeat", <<"1", "3">>), Optional(Value("use_vmac")),
      Optional(Flag("vmac_xmit_base")), Optional(Flag("native_ipv6")),
      Optional(Flag("dont_track_primary")), List("version", <<"", "2">>),
      Optional(Flag("accept")), Value("preempt_delay"),
      Default(List("preempt_delay", <<"0", "1">>), "0"), Flag("smtp_alert"),
      Multi("virtual_ipaddress_excluded"), Multi("virtual_routes"), Multi("track_interface"),
      Multi("track_script")>>

(* luci-app-keepalived/view/keepalived/vrrp_sync_group.js *)
KeepalivedVrrpSyncGroup ==
    <<Required(Value("name")), Required(Multi("group")), Optional(Flag("smtp_alert")),
      Optional(Flag("global_tracking"))>>

(* luci-app-ksmbd/view/ksmbd.js *)
KsmbdGlobals ==
    <<Value("interface"), Value("workgroup"), Value("description"),
      Flag("allow_legacy_protocols"), Own(TextValue("_tmpl"))>>
KsmbdShare ==
    <<Value("name"), Value("path"), Default(Switch(Flag("browseable"), "yes", "no"), "yes"),
      Required(Default(Switch(Flag("read_only"), "yes", "no"), "no")), Flag("force_root"),
      Value("users"), Required(Default(Switch(Flag("guest_ok"), "yes", "no"), "yes")),
      Default(Switch(Flag("inherit_owner"), "yes", "no"), "no"),
      Default(Switch(Flag("hide_dot_files"), "yes", "no"), "yes"),
      Required(Default(Value("create_mask"), "0666")),
      Required(Default(Value("dir_mask"), "0777"))>>

(* luci-app-ledtrig-rssi/view/system/led-trigger/rssi.js *)
LedtrigRssiRssi ==
    <<Dep(Into(Value("_rssi_iface"), "iface"), {"trigger" :> "rssi"}),
      Dep(Value("minq"), {"trigger" :> "rssi"}), Dep(Value("maxq"), {"trigger" :> "rssi"}),
      Dep(Value("offset"), {"trigger" :> "rssi"}), Dep(Value("factor"), {"trigger" :> "rssi"})>>

(* luci-app-ledtrig-switch/view/system/led-trigger/switch0.js *)
LedtrigSwitchSwitch0 ==
    <<Dep(Value("port_mask"), {"trigger" :> "switch0"}),
      Dep(Value("speed_mask"), {"trigger" :> "switch0"})>>

(* luci-app-ledtrig-switch/view/system/led-trigger/switch1.js *)
LedtrigSwitchSwitch1 ==
    <<Dep(Value("port_mask"), {"trigger" :> "switch1"}),
      Dep(Value("speed_mask"), {"trigger" :> "switch1"})>>

(* luci-app-ledtrig-usbport/view/system/led-trigger/usbport.js *)
LedtrigUsbportUsbport ==
    <<Dep(Own(MultiValue("port")), {"trigger" :> "usbport"})>>

(* luci-app-lldpd/view/lldpd/config.js *)
LldpdConfig1 ==
    <<Own(Required(Flag("enabled"))), Value("lldp_description"), Value("lldp_hostname"),
      Value("lldp_platform"), Value("lldp_mgmt_ip"),
      Required(Default(Value("lldp_tx_interval"), "30")),
      Required(Default(Value("lldp_tx_hold"), "4")), Required(Flag("readonly_mode")),
      Multi("interface")>>
LldpdConfig2 ==
    <<Multi("cid_interface")>>
LldpdConfig3 ==
    <<Default(List("lldp_class", <<"1", "2", "4">>), "4"), Flag("lldpmed_no_inventory"),
      Flag("lldp_no_version"), Own(Default(Value("filter"), "15")),
      Default(List("lldp_portidsubtype", <<"macaddress", "ifname">>), "macaddress"),
      Default(List("lldp_agenttype", <<"nearest-bridge", "nearest-nontpmr-bridge">>), "nearest-bridge"),
      SectionValue("_protocols")>>
LldpdConfigProtocols ==
    <<Default(Flag("enable_lldp"), "1"), Dep(Flag("force_lldp"), {"enable_lldp" :> "1"}),
      Required(Default(Flag("enable_cdp"), "1")),
      Dep(Default(List("cdp_version", <<"cdpv1v2", "cdpv2">>), "cdpv1v2"), {"enable_cdp" :> "1"}),
      Dep(Flag("force_cdp"), {"enable_cdp" :> "1"}),
      Dep(Flag("force_cdpv2"), {"force_cdp" :> "1" @@ "enable_cdp" :> "1" @@ "cdp_version" :> "cdpv1v2"}),
      Required(Default(Flag("enable_fdp"), "1")), Dep(Flag("force_fdp"), {"enable_fdp" :> "1"}),
      Required(Default(Flag("enable_edp"), "1")), Dep(Flag("force_edp"), {"enable_edp" :> "1"}),
      Required(Default(Flag("enable_sonmp"), "1")),
      Dep(Flag("force_sonmp"), {"enable_sonmp" :> "1"})>>

(* luci-app-lldpd/view/lldpd/status.js *)
LldpdStatusLocal ==
    <<Dummy("localChassis")>>
LldpdStatusRemote ==
    <<Dummy("neighbors"), Dummy("statistics")>>

(* luci-app-lorawan-basicstation/view/lorawan-basicstation/advanced.js *)
LorawanBasicstationAdvancedRfconf ==
    <<Default(List("type", <<"SX1250">>), "SX1250"), Default(Flag("txEnable"), "false"),
      Value("freq"), Value("antennaGain"), Value("rssiOffset"),
      Default(List("useRssiTcomp", <<"*">>), "std")>>
LorawanBasicstationAdvancedRssitcomp ==
    <<Value("coeff_a"), Value("coeff_b"), Value("coeff_c"), Value("coeff_d"), Value("coeff_e")>>
LorawanBasicstationAdvancedTxlut ==
    <<Value("rfPower"), Flag("paGain"), Value("pwrIdx"), Multi("usedBy")>>

(* luci-app-lorawan-basicstation/view/lorawan-basicstation/general.js *)
LorawanBasicstationGeneralStation ==
    <<Own(Default(Value("idGenIf"), "eth0")), Value("stationid")>>
LorawanBasicstationGeneralAuth ==
    <<Default(List("cred", <<"tc", "cups">>), "tc"),
      Default(List("mode", <<"no", "server", "serverAndClient", "serverAndClientToken">>), "no"),
      Required(Value("addr")), Required(Value("port")),
      Dep(Required(Value("token")), {"mode" :> "serverAndClientToken"}),
      Dep(Required(Value("key")), {"mode" :> "serverAndClient"}),
      Dep(Required(FileUpload("crt")), {"mode" :> "serverAndClient"}),
      Dep(Required(FileUpload("trust")), {Unless("mode" :> "no")})>>
LorawanBasicstationGeneralSx130x ==
    <<Default(List("comif", <<"usb">>), "usb"), Required(Value("devpath")), Flag("pps"),
      Default(Flag("public"), "1"), Default(List("clksrc", <<"0", "1">>), "0"),
      Default(List("radio0", <<"*">>), "rfconf0"), Default(List("radio1", <<"*">>), "rfconf1")>>
LorawanBasicstationGeneralStationA ==
    <<Default(List("logLevel", <<"XDEBUG", "DEBUG", "VERBOSE">>), "DEBUG"),
      Default(Value("logSize"), "1"), Default(Value("logRotate"), "1")>>

ViewsAppsForms ==
    <<Acl, AcmeAcme, AcmeCert1 \o AcmeCert2 \o AcmeCert3 \o AcmeCert4,
      AdblockFastOverviewConfig1 \o AdblockFastOverviewConfig2, AdblockFastOverviewConfigA,
      AdblockFastOverviewFileUrl, AdblockOverviewGlobal1 \o AdblockOverviewGlobal2,
      ApingerAlarmDelay, ApingerAlarmDown, ApingerAlarmLoss, ApingerInterfaces, ApingerTargets,
      Aria2ConfigMain1 \o Aria2ConfigMain2 \o Aria2ConfigMain3, Aria2ConfigMainA,
      AttendedsysupgradeConfigurationServer, AttendedsysupgradeConfigurationClient,
      AttendedsysupgradeOverview, BanipFeedsFeed,
      BanipOverviewGlobal1 \o BanipOverviewGlobal2 \o BanipOverviewGlobal3, Bcp38Form, Commands,
      DdnsOverviewGlobal1 \o DdnsOverviewGlobal2,
      Narrowed(DdnsOverviewService1 \o DdnsOverviewService2 \o DdnsOverviewService3 \o DdnsOverviewService4, {"enabled", "service_name", "use_ipv6", "update_script", "update_url", "lookup_host", "_switch_proto"}, "service_name" :> "*" @@ "use_ipv6" :> "0"),
      DdnsOverviewService5, DdnsOverviewNew, EmailEmailrelay1 \o EmailEmailrelay2, Eoip,
      ExampleFormFirst, ExampleFormSecond, FirewallForwards1 \o FirewallForwards2,
      FirewallIpsetsIpset1 \o FirewallIpsetsIpset2,
      FirewallRules1 \o FirewallRules2 \o FirewallRules3, FirewallSnats1 \o FirewallSnats2,
      FirewallZonesDefaults, FirewallZonesDefaultsA, FirewallZonesZone1 \o FirewallZonesZone2,
      FrpcStartup, FrpcMain, FrpcConf, FrpsStartup, FrpsMain, FwknopdAccess, FwknopdGlobal,
      FwknopdNetwork, FwknopdAccessA, FwknopdConfig, HdIdle, HttpsDnsProxyOverviewConfig,
      HttpsDnsProxyOverviewHttpsDnsProxy1 \o HttpsDnsProxyOverviewHttpsDnsProxy2,
      KeepalivedGlobals, KeepalivedIpaddressIpaddress, KeepalivedIpaddressStaticIpaddress,
      KeepalivedPeers, KeepalivedRouteRoute, KeepalivedRouteStaticRoutes,
      KeepalivedScriptTrackScript, KeepalivedScriptVrrpScript, KeepalivedServersVirtualServer,
      KeepalivedServersRealServer, KeepalivedTrackInterface, KeepalivedUrl,
      KeepalivedVrrpInstance1 \o KeepalivedVrrpInstance2, KeepalivedVrrpSyncGroup, KsmbdGlobals,
      KsmbdShare, Within({"trigger"}, LedtrigRssiRssi),
      Within({"trigger"}, LedtrigSwitchSwitch0), Within({"trigger"}, LedtrigSwitchSwitch1),
      Within({"trigger"}, LedtrigUsbportUsbport), LldpdConfig1 \o LldpdConfig2 \o LldpdConfig3,
      LldpdConfigProtocols, LldpdStatusLocal, LldpdStatusRemote,
      LorawanBasicstationAdvancedRfconf, LorawanBasicstationAdvancedRssitcomp,
      LorawanBasicstationAdvancedTxlut, LorawanBasicstationGeneralStation,
      LorawanBasicstationGeneralAuth, LorawanBasicstationGeneralSx130x,
      LorawanBasicstationGeneralStationA>>
=============================================================================
