--------------------------- MODULE StorageService ---------------------------
(***************************************************************************)
(* The storage service as the methods see it: what it answers to a request *)
(* and what the request changes.  It is not part of the repository; this   *)
(* is the part of its REST interface that the code in src/lib/services     *)
(* relies on.  One resource is modelled, the one a call names.             *)
(***************************************************************************)
EXTENDS Integers, StorageRequests

(* A copy of the resource, at one location: whether what contains it is     *)
(* there, its version (0 if it is not there), who wrote that, who holds its *)
(* lease, and the version a next write makes.  Version 1 is the one whose   *)
(* etag the program knows.                                                  *)
Absent == 0
SeenVersion == 1
Copy == [around : BOOLEAN, version : Nat, by : {"seen", "us", "them"},
         lease : {"none", "ours", "theirs"}, next : Nat]

Present(copy) == copy.around /\ copy.version # Absent

(* The service answers a request of type does with the options with, on a   *)
(* resource of type of; position is where "append" asks to append.          *)
NeedsTarget(does) == does \notin {"create", "put", "stage"}

FailsCondition(copy, does, with, position) ==
    \/ "match" \in with /\ copy.version # SeenVersion
    \/ "absent" \in with /\ copy.version # Absent
    \/ does = "append" /\ copy.version # position

FailsLease(copy, does, with) ==
    \/ "lease" \in with /\ copy.lease # "ours"
    \/ does \in Writes \cup {"stage"} /\ copy.lease # "none" /\ "lease" \notin with
    \/ does = "break" /\ copy.lease = "none"

Answer(copy, of, does, with, position) ==
    IF of = "account" THEN "ok"
    ELSE IF of = "child" /\ ~copy.around THEN "parentNotFound"
    ELSE IF does = "read" /\ "absent" \in with THEN "badRequest"
    ELSE IF NeedsTarget(does) /\ copy.version = Absent THEN "notFound"
    ELSE IF does = "create" /\ copy.version # Absent THEN "conflict"
    ELSE IF does # "stage" /\ FailsCondition(copy, does, with, position) THEN "precondition"
    ELSE IF does = "acquire" /\ copy.lease # "none" THEN "conflict"
    ELSE IF does # "acquire" /\ FailsLease(copy, does, with) THEN "lease"
    ELSE "ok"

(* What a request that is answered "ok" leaves behind.                      *)
After(copy, does, by) ==
    CASE does \in {"create", "put", "update", "append"} ->
           [copy EXCEPT !.version = copy.next, !.by = by, !.next = copy.next + 1]
      [] does = "delete" ->
           [copy EXCEPT !.version = Absent, !.by = by, !.lease = "none"]
      [] does = "acquire" ->
           [copy EXCEPT !.lease = IF by = "us" THEN "ours" ELSE "theirs"]
      [] does \in {"release", "break"} -> [copy EXCEPT !.lease = "none"]
      [] OTHER -> copy
=============================================================================
