----------------------------- MODULE MCInstall -----------------------------
(* Install with every kind of device the code supports. *)
EXTENDS Install

MCDevices ==
  {[type |-> "kOstree", fake_need_reboot |-> FALSE, rollback_mode |-> "kUbootMasked", apiThread |-> TRUE],
   [type |-> "kOstree", fake_need_reboot |-> FALSE, rollback_mode |-> "kUbootGeneric", apiThread |-> FALSE],
   [type |-> "kNone", fake_need_reboot |-> TRUE, rollback_mode |-> "kBootloaderNone", apiThread |-> FALSE],
   [type |-> "kNone", fake_need_reboot |-> FALSE, rollback_mode |-> "kBootloaderNone", apiThread |-> FALSE],
   [type |-> "kDebian", fake_need_reboot |-> FALSE, rollback_mode |-> "kBootloaderNone", apiThread |-> FALSE]}
=============================================================================
