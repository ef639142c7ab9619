----------------------------- MODULE MCDeviceUi -----------------------------
(* Small sizes for DeviceUi: two wheels or words, patterns of one or two     *)
(* steps, and vaults in every state the screens tell apart.                  *)
EXTENDS DeviceUi

MCDisks == {NoDisk}
           \cup {[status |-> "active", profile |-> 1, policy |-> Policy("none", 0, 0, 0)],
                 [status |-> "active", profile |-> 3, policy |-> Policy("lockout", 3, 0, 0)]}
=============================================================================
