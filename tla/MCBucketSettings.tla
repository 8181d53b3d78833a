-------------------------- MODULE MCBucketSettings --------------------------
(* Instances of BucketSettings for TLC.                                    *)
EXTENDS BucketSettings

BucketOf(class, acl, versioning, tags, logging, encryption, fs) ==
    [class |-> class, acl |-> acl, versioning |-> versioning, tags |-> tags,
     logging |-> logging, encryption |-> encryption, parallelFS |-> fs]

(* Everything left out, everything asked for, and single settings between.  *)
Plain     == BucketOf("", "", FALSE, None, None, None, FALSE)
Full      == BucketOf("WARM", "log-delivery-write", TRUE, "t1", "l1", "k1", FALSE)
Other_    == BucketOf("COLD", "public-read", TRUE, None, "l1", "k2", FALSE)
FilePlain == BucketOf("STANDARD", "private", FALSE, "t1", None, None, TRUE)
FileFull  == BucketOf("WARM", "public-read-write", TRUE, None, "l1", "k1", TRUE)

SomeSpecs == {Plain, Full, Other_, FilePlain, FileFull}

Budgeted(edit, drift, vanish, fault, restart) ==
    [k \in Kinds |->
        CASE k = "edit" -> edit [] k = "drift" -> drift [] k = "vanish" -> vanish
          [] k = "fault" -> fault [] k = "restart" -> restart]

Interfered == Budgeted(1, 1, 1, 1, 1)
=============================================================================
