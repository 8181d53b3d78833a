--------------------- MODULE MCProviderConfigController ---------------------
(* Instances of ProviderConfigController for TLC.                          *)
EXTENDS ProviderConfigController

CONSTANT c1

OneConfig == [b \in Buckets |-> c1]

Budgeted(config_, secret_, flake, mishap) ==
    [k \in Kinds |-> CASE k = "config" -> config_ [] k = "secret" -> secret_
                       [] k = "flake" -> flake [] k = "mishap" -> mishap]

Changing == Budgeted(2, 2, 1, 1)
Settling == Budgeted(2, 1, 1, 1)
Denied   == Budgeted(1, 1, 0, 0)
=============================================================================
