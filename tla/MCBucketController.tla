------------------------- MODULE MCBucketController -------------------------
(* Instances of BucketController for TLC.                                  *)
EXTENDS BucketController

CONSTANTS b1, b2, n1, n2

SharedName == [b \in Buckets |-> n1]
OwnNames   == [b \in Buckets |-> IF b = b1 THEN n1 ELSE n2]

Budgeted(user, prov, write, drift, fault, restart) ==
    [k \in Kinds |->
        CASE k = "user" -> user [] k = "provider" -> prov [] k = "write" -> write
          [] k = "drift" -> drift [] k = "fault" -> fault [] k = "restart" -> restart]

Disturbed  == Budgeted(3, 0, 2, 1, 1, 1)
Settling   == Budgeted(2, 1, 2, 1, 1, 0)
Intruding  == Budgeted(1, 0, 0, 1, 0, 0)
Twins      == Budgeted(2, 0, 0, 0, 0, 0)
Flapping   == Budgeted(1, 3, 0, 0, 0, 0)
=============================================================================
