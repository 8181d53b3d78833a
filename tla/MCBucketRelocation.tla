------------------------- MODULE MCBucketRelocation -------------------------
(* Instances of BucketRelocation for TLC.                                  *)
EXTENDS BucketRelocation

Moves == [k \in {"user", "provider", "write", "drift", "fault", "restart"} |->
            CASE k = "user" -> 2 [] k = "provider" -> 1 [] OTHER -> 0]
=============================================================================
