------------------------------- MODULE ViewsTfortis -------------------------------
(* Forms of the views of the TFortis and TN applications: the              *)
(* fields of each section in the order of their declaration (see           *)
(* FormFields).  Of a long list of choices only those that something       *)
(* depends on are kept, with the first and one other; "*" stands for       *)
(* a choice or a default computed by the view.  A field declared under     *)
(* a condition is taken as declared.                                       *)
EXTENDS FormFields

(* luci-app-tfortis-autorestart/view/autorestart/settings.js *)
TfortisAutorestartSettings ==
    <<List("state", <<"disable", "link", "ping", "speed", "time">>),
      Dep(Value("host"), {"state" :> "ping"}), Dep(Value("min_speed"), {"state" :> "speed"}),
      Dep(Value("max_speed"), {"state" :> "speed"}), Dep(Value("timeUp"), {"state" :> "time"}),
      Dep(Value("timeDown"), {"state" :> "time"}), Dummy("status"), Dummy("reboot")>>

(* luci-app-tfortis-port/view/port/settings.js *)
TfortisPortSettings ==
    <<List("state", <<"enable", "disable">>),
      List("speed", <<"10 duplex full", "10 duplex half">>),
      List("flow", <<"enable", "disable">>), List("poe", <<"enable", "disable">>)>>

(* luci-app-tfortis-port/view/port/status.js *)
TfortisPortStatus ==
    <<Dummy("statistics")>>

(* luci-app-tfortis-vlan/view/vlan/8021q.js *)
TfortisVlan8021qInterface ==
    <<Own(Optional(Value("vlan")))>>
TfortisVlan8021qBridgeVlan ==
    <<Value("vlan"), List("state", <<"enable", "disable">>), Value("descr")>>

(* luci-app-tn-mstpd/view/mstpd/config.js *)
TnMstpdConfigBridge1 ==
    <<Dummy("_iface"), Default(List("forcevers", <<"stp", "rstp">>), "rstp"),
      Default(List("treeprio", <<"0", "1", "8">>), "8"), Default(Value("hello"), "2"),
      Default(Value("fdelay"), "15"), Default(Value("maxage"), "*"),
      Default(Value("ageing"), "300")>>
TnMstpdConfigBridge2 ==
    <<Default(Value("txholdcount"), "6")>>
TnMstpdConfigBridgePort ==
    <<Dummy("_iface"), Default(List("treeprio", <<"0", "1", "8">>), "8"),
      Default(Value("pathcost"), "0"),
      Required(Default(Switch(Flag("adminedge"), "yes", "no"), "no")),
      Required(Default(Switch(Flag("autoedge"), "yes", "no"), "yes")),
      Default(List("p2p", <<"no", "yes", "auto">>), "auto"),
      Required(Default(Switch(Flag("bpdufilter"), "yes", "no"), "no")),
      Required(Default(Switch(Flag("bpduguard"), "yes", "no"), "no")),
      Required(Default(Switch(Flag("restrrole"), "yes", "no"), "no")),
      Required(Default(Switch(Flag("restrtcn"), "yes", "no"), "no"))>>
TnMstpdConfigMstpd1 ==
    <<Default(List("loglevel", <<"0", "1", "2">>), "2"), Own(Value("bridge"))>>
TnMstpdConfigMstpd2 ==
    <<Dummy("__info")>>

(* luci-app-tn-mstpd/view/mstpd/status.js *)
TnMstpdStatusGlobal ==
    <<Dummy("__info")>>
TnMstpdStatusBrname ==
    <<Own(Value("_brinfo"))>>
TnMstpdStatus ==
    <<Own(Value("_brportsinfo"))>>

(* luci-app-tn-snmpd/view/snmpd/snmpd.js *)
TnSnmpdSnmpd1 ==
    <<Dummy("__download"), Own(Required(Flag("enabled"))),
      Own(Required(Default(List("ip_protocol", <<"*">>), "ipv4")))>>
TnSnmpdSnmpd2 ==
    <<Own(Required(Default(Value("snmp_port"), "161"))),
      Required(Default(List("snmp_version", <<"*">>), "v1/v2c")), Own(Value("__agentxsocket")),
      Own(Required(Default(Value("ro_community"), "public"))),
      Own(Required(Default(Value("ro_community_src"), "default"))),
      Own(Required(Default(Value("rw_community"), "private"))),
      Own(Required(Default(Value("rw_community_src"), "localhost")))>>
TnSnmpdSnmpd3 ==
    <<Required(Default(Value("snmp_v3_username"), "writeuser")),
      Required(Flag("snmp_v3_allow_write")),
      Required(Default(List("snmp_v3_auth_type", <<"none", "SHA", "MD5">>), "SHA")),
      Required(Default(Value("snmp_v3_auth_pass"), "passphrase")),
      Required(Default(List("snmp_v3_privacy_type", <<"none", "AES", "DES">>), "AES")),
      Default(Value("snmp_v3_privacy_pass"), "passphrase")>>
TnSnmpdSnmpd4 ==
    <<Own(Required(Flag("trap_enabled"))),
      Default(List("trap_snmp_version", <<"v1", "v2c">>), "v2c"),
      Required(Default(Value("trap_host"), "localhost")),
      Required(Default(Value("trap_port"), "162")),
      Required(Default(Value("trap_community"), "public"))>>
TnSnmpdSnmpd5 ==
    <<Own(Value("sysName")), Own(Value("sysContact")), Own(Value("sysLocation")),
      Required(Flag("log_file")),
      Dep(Required(Default(Value("log_file_path"), "/var/log/snmpd.log")), {"log_file" :> "1"}),
      Dep(Default(List("log_file_priority", <<"!", "a", "i">>), "i"), {"log_file" :> "1"}),
      Required(Flag("log_syslog")),
      Dep(Default(List("log_syslog_facility", <<"d", "u">>), "i"), {"log_syslog" :> "1"}),
      Dep(Default(List("log_syslog_priority", <<"!", "a", "i">>), "i"), {"log_syslog" :> "1"})>>

(* luci-app-tn-swupdate/view/swupdate/swupdate.js *)
TnSwupdateSwupdateSwupdate ==
    <<Dummy("information")>>
TnSwupdateSwupdateSwupdateA ==
    <<Dummy("progress")>>
TnSwupdateSwupdateSwupdateB ==
    <<Dummy("log")>>
TnSwupdateSwupdateControls ==
    <<Required(Flag("cleardata")), Dummy("browse"), Dummy("upgrade")>>
TnSwupdateSwupdateWarning ==
    <<Dummy("box")>>

(* luci-mod-system-tfortis/view/system/dropbear.js *)
SystemTfortisDropbear ==
    <<Value("Interface"), Value("Port"),
      Required(Default(Switch(Flag("PasswordAuth"), "on", "off"), "on")),
      Default(Switch(Flag("RootPasswordAuth"), "on", "off"), "on"),
      Default(Switch(Flag("GatewayPorts"), "on", "off"), "off")>>

(* luci-mod-system-tfortis/view/system/flash.js *)
SystemTfortisFlashActions1 ==
    <<SectionValue("actions"), SectionValue("actions")>>
SystemTfortisFlashActions2 ==
    <<SectionValue("actions")>>
SystemTfortisFlashActions3 ==
    <<SectionValue("actions")>>
SystemTfortisFlashActionsA ==
    <<Dummy("dl_backup")>>
SystemTfortisFlashActionsB ==
    <<Dummy("reset"), Dummy("restore")>>
SystemTfortisFlashActionsC ==
    <<List("mtdselect", <<"*">>), Dummy("mtddownload")>>
SystemTfortisFlashActionsD ==
    <<Dummy("sysupgrade")>>
SystemTfortisFlashConfig ==
    <<Dummy("showlist"), Own(TextValue("editlist"))>>

(* luci-mod-system-tfortis/view/system/led-trigger/heartbeat.js *)
SystemTfortisHeartbeat ==
    <<Dep(Flag("inverted"), {"trigger" :> "heartbeat"})>>

(* luci-mod-system-tfortis/view/system/led-trigger/netdev.js *)
SystemTfortisNetdev ==
    <<Dep(Into(Value("_net_dev"), "dev"), {"trigger" :> "netdev"}),
      Dep(MultiValue("mode"), {"trigger" :> "netdev"})>>

(* luci-mod-system-tfortis/view/system/led-trigger/none.js *)
SystemTfortisNone ==
    <<Dep(Required(Flag("default")), {"trigger" :> "none"})>>

(* luci-mod-system-tfortis/view/system/led-trigger/timer.js *)
SystemTfortisTimer ==
    <<Dep(Value("delayon"), {"trigger" :> "timer"}),
      Dep(Value("delayoff"), {"trigger" :> "timer"})>>

(* luci-mod-system-tfortis/view/system/leds.js *)
SystemTfortisLeds ==
    <<Value("name"), List("sysfs", <<"*">>), Own(List("trigger", <<"*">>))>>

(* luci-mod-system-tfortis/view/system/mounts.js *)
SystemTfortisMountsGlobal ==
    <<Dummy("_detect"), Dummy("_mountall"), Required(Flag("anon_swap")),
      Required(Flag("anon_mount")), Required(Default(Flag("auto_swap"), "1")),
      Required(Default(Flag("auto_mount"), "1")), Required(Flag("check_fs")), Dummy("_mtab")>>
SystemTfortisMountsMount ==
    <<Required(Default(Flag("enabled"), "1")), Dummy("_device"), Value("uuid"),
      Dep(Value("label"), {"uuid" :> ""}), Dep(Value("device"), {"uuid" :> "" @@ "label" :> ""}),
      Required(Value("target")), Dep(Dummy("__notice"), {"target" :> "/"}),
      List("fstype", <<"", "*">>), Value("options"), Flag("enabled_fsck")>>
SystemTfortisMountsSwap ==
    <<Required(Flag("enabled")), Dummy("_device"), Value("uuid"),
      Dep(Value("label"), {"uuid" :> ""}),
      Dep(Value("device"), {"uuid" :> "" @@ "label" :> ""})>>

(* luci-mod-system-tfortis/view/system/password.js *)
SystemTfortisPassword ==
    <<Value("pw1"), Value("pw2")>>

(* luci-mod-system-tfortis/view/system/system.js *)
SystemTfortisSystem1 ==
    <<Own(Value("_systime")), Value("hostname"), Optional(Value("description")),
      Optional(TextValue("notes")), Own(List("zonename", <<"UTC", "*">>)),
      Optional(Value("log_size")), Optional(Value("log_ip")), Optional(Value("log_port")),
      List("log_proto", <<"udp", "tcp">>), Optional(Value("log_file")),
      List("conloglevel", <<"8", "7">>), Default(List("cronloglevel", <<"5", "8", "9">>), "8"),
      Optional(Value("zram_size_mb")),
      Optional(Default(List("zram_comp_algo", <<"lzo", "lz4">>), "lzo")),
      Into(List("_lang", <<"auto", "*">>), "luci.main.lang"),
      Into(List("_mediaurlbase", <<"*">>), "luci.main.mediaurlbase")>>
SystemTfortisSystem2 ==
    <<Own(Elsewhere(Required(Flag("enabled")), "ntp.enabled")),
      Dep(Elsewhere(Flag("enable_server"), "ntp.enable_server"), {"enabled" :> "1"}),
      Dep(Elsewhere(Optional(Value("interface")), "ntp.interface"), {"enable_server" :> "1"}),
      Dep(Elsewhere(Default(Flag("use_dhcp"), "1"), "ntp.use_dhcp"), {"enabled" :> "1"}),
      Dep(Own(Elsewhere(Multi("server"), "ntp.server")), {"enabled" :> "1"})>>

(* luci-mod-system-tfortis/view/system/uhttpd.js *)
SystemTfortisUhttpd ==
    <<Required(Flag("redirect_https"))>>

ViewsTfortisForms ==
    <<TfortisAutorestartSettings, TfortisPortSettings, TfortisPortStatus,
      TfortisVlan8021qInterface, TfortisVlan8021qBridgeVlan,
      TnMstpdConfigBridge1 \o TnMstpdConfigBridge2, TnMstpdConfigBridgePort,
      TnMstpdConfigMstpd1 \o TnMstpdConfigMstpd2, TnMstpdStatusGlobal, TnMstpdStatusBrname,
      TnMstpdStatus,
      TnSnmpdSnmpd1 \o TnSnmpdSnmpd2 \o TnSnmpdSnmpd3 \o TnSnmpdSnmpd4 \o TnSnmpdSnmpd5,
      TnSwupdateSwupdateSwupdate, TnSwupdateSwupdateSwupdateA, TnSwupdateSwupdateSwupdateB,
      TnSwupdateSwupdateControls, TnSwupdateSwupdateWarning, SystemTfortisDropbear,
      SystemTfortisFlashActions1 \o SystemTfortisFlashActions2 \o SystemTfortisFlashActions3,
      SystemTfortisFlashActionsA, SystemTfortisFlashActionsB, SystemTfortisFlashActionsC,
      SystemTfortisFlashActionsD, SystemTfortisFlashConfig,
      Within({"trigger"}, SystemTfortisHeartbeat), Within({"trigger"}, SystemTfortisNetdev),
      Within({"trigger"}, SystemTfortisNone), Within({"trigger"}, SystemTfortisTimer),
      SystemTfortisLeds, SystemTfortisMountsGlobal, SystemTfortisMountsMount,
      SystemTfortisMountsSwap, SystemTfortisPassword,
      SystemTfortisSystem1 \o SystemTfortisSystem2, SystemTfortisUhttpd>>
=============================================================================
