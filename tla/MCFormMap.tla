----------------------------- MODULE MCFormMap -----------------------------
(* A section with a flag mode, two fields for the same option addr of      *)
(* which one is visible at a time, and a field that depends on one of      *)
(* them, declared in the reverse order of their dependencies.              *)
EXTENDS FormMap

MCFields ==
    <<Dep(Value("port"), {"addr_b" :> "b"}),
      Dep(Into(Value("addr_b"), "addr"), {"mode" :> "b"}),
      Required(Dep(Into(Value("addr_a"), "addr"), {Unless("mode" :> "b")})),
      Default(Switch(Flag("mode"), "b", "a"), "a")>>
MCConf ==
    <<[sid |-> "cfg1", opt |-> [mode |-> "b", addr |-> "b", port |-> "a"]],
      [sid |-> "cfg2", opt |-> [mode |-> "", addr |-> "a", port |-> ""]]>>
=============================================================================
