----------------------------- MODULE MCSettings -----------------------------
(* A small instance of Settings. *)
EXTENDS Settings

(* The settings files that other installations may have exported: one with *)
(* TUN mode in use, one of a stable release nobody changed, one of a       *)
(* stable release whose user asked for experimental features.              *)
MCImports ==
  { [mode |-> "tun", tun |-> TRUE, warned |-> TRUE, kill |-> TRUE,
     priv |-> "helper", channel |-> "beta", show |-> "yes",
     selected |-> [k \in Kinds |-> "elsewhere"]],
    [selected |-> [k \in Kinds |-> Fallback]],
    [mode |-> "proxy", tun |-> FALSE, kill |-> FALSE, priv |-> "gui",
     channel |-> "stable", show |-> "yes",
     selected |-> [k \in Kinds |-> Fallback]] }
=============================================================================
