---------------------------- MODULE MCGarageJobs ----------------------------
(* GarageJobs on small clusters.                                           *)
EXTENDS GarageJobs

ReadOnly == {"read"}
ReadWrite == {"read", "write"}

\* Jobs that make keys and take them back.
Making ==
    [cmds : {{"provision_bucket", "provision_additional_key", "rotate_key"}},
     tiers : {{ReadOnly}}, attached : {{}}, creators : {{}}, objects : {0}]

\* Jobs that change what a key may do on a bucket it shares.
Granting ==
    [cmds : {{"attach_account_key", "detach_account_key", "enforce_tier"}},
     tiers : {{ReadOnly, Perms}}, attached : {Perms}, creators : {{1}}, objects : {0}]

\* The rotation of an account key that goes on creating buckets.
Rotating ==
    [cmds : {{"provision_account_key", "set_capability", "delete_key", "snapshot_and_reap", "converge_rotation"}},
     tiers : {{}}, attached : {ReadWrite}, creators : {{1}}, objects : {0}]

\* Jobs on a bucket that is being written to.
Emptying ==
    [cmds : {{"clear_bucket", "purge", "delete_bucket", "set_quota", "set_cors"}},
     tiers : {{}}, attached : {{}}, creators : {{}}, objects : {1}]

\* Reads of the control plane beside jobs that change what they read.
Reading ==
    [cmds : {{"get_key_buckets", "get_bucket_owners", "get_cors", "set_cors", "attach_account_key", "delete_key"}},
     tiers : {{ReadOnly}}, attached : {ReadWrite}, creators : {{}}, objects : {0}]

AllScenarios == Making \cup Granting \cup Rotating \cup Emptying \cup Reading
=============================================================================
