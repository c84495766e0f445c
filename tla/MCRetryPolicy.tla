--------------------------- MODULE MCRetryPolicy ---------------------------
(***************************************************************************)
(* Requests for TLC: the reads, with every combination of location modes,  *)
(* the writes, with every kind of body, and the classes of requests on     *)
(* which the code and its documentation disagree.                          *)
(***************************************************************************)
EXTENDS RetryPolicy

Reads ==
    {r \in [write : {FALSE}, mode : LocationModes, where : RequestModes,
            policy : Policies, absorb : {FALSE}, conditional : {FALSE},
            body : {"buffer"}, expires : BOOLEAN, secondaryHost : BOOLEAN] :
        r.policy = "none" => ~r.expires}

Writes ==
    {r \in [write : {TRUE}, mode : {"PRIMARY_ONLY"},
            where : {"PRIMARY_ONLY"}, policy : {"linear", "custom"}, absorb : BOOLEAN,
            conditional : BOOLEAN, body : {"buffer", "piped", "collected"},
            expires : BOOLEAN, secondaryHost : {TRUE}] :
        r.absorb => r.conditional}

ReadsAndWrites == Reads \cup Writes

BuiltInReads == {r \in Reads : r.policy = "linear" /\ r.where = "PRIMARY_OR_SECONDARY"}
CollectedWrites == {r \in Writes : r.body = "collected" /\ r.policy = "linear"}

Soon == {0, 3}
OnTime == {0}
OrLate == {0, 1}
=============================================================================
