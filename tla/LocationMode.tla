---------------------------- MODULE LocationMode ----------------------------
(***************************************************************************)
(* Where a request goes: options.locationMode, which the program gives for *)
(* an operation, and options.requestLocationMode, which the method sets    *)
(* (src/lib/common/services/storageserviceclient.js, util.js).             *)
(***************************************************************************)

Locations == {"PRIMARY", "SECONDARY"}
LocationModes == {"PRIMARY_ONLY", "SECONDARY_ONLY",
                  "PRIMARY_THEN_SECONDARY", "SECONDARY_THEN_PRIMARY"}
RequestModes == {"PRIMARY_ONLY", "SECONDARY_ONLY", "PRIMARY_OR_SECONDARY"}

(* _initializeLocation.                                                     *)
InitialLocation(mode) ==
    IF mode \in {"PRIMARY_ONLY", "PRIMARY_THEN_SECONDARY"}
    THEN "PRIMARY" ELSE "SECONDARY"

(* azureutil.getNextLocation.                                               *)
NextLocation(from, mode) ==
    CASE mode = "PRIMARY_ONLY" -> "PRIMARY"
      [] mode = "SECONDARY_ONLY" -> "SECONDARY"
      [] OTHER -> IF from = "PRIMARY" THEN "SECONDARY" ELSE "PRIMARY"

(* _validateLocation: whether it throws, and the location and mode it sets. *)
RefusesMode(where, mode, secondaryHost) ==
    \/ mode # "PRIMARY_ONLY" /\ ~secondaryHost
    \/ where = "PRIMARY_ONLY" /\ mode = "SECONDARY_ONLY"
    \/ where = "SECONDARY_ONLY" /\ mode = "PRIMARY_ONLY"

ForcedOnce(where, from, mode) ==            \* mutant: the mode is not forced
    CASE where = "PRIMARY_ONLY" -> <<"PRIMARY", mode>>
      [] where = "SECONDARY_ONLY" -> <<"SECONDARY", mode>>
      [] OTHER -> <<from, mode>>

ForcedLocation(where, from, mode) ==
    CASE where = "PRIMARY_ONLY" -> <<"PRIMARY", "PRIMARY_ONLY">>
      [] where = "SECONDARY_ONLY" -> <<"SECONDARY", "SECONDARY_ONLY">>
      [] OTHER -> <<from, mode>>
=============================================================================
