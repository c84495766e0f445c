-------------------------- MODULE StorageRequests --------------------------
(***************************************************************************)
(* The words in which the methods of BlobService, FileService,             *)
(* QueueService and TableService are described (src/lib/services): which   *)
(* requests a method sends, in which order, where it lets them be sent,    *)
(* which of the program's options each of them carries and what becomes of *)
(* the error that may answer it.                                           *)
(***************************************************************************)
EXTENDS Sequences, LocationMode

(* options.locationMode, options.leaseId and options.accessConditions,      *)
(* which either name a version (EtagMatch) or require that there be none    *)
(* (EtagNonMatch: '*').  An entity's etag and a message's pop receipt name  *)
(* a version as well.                                                       *)
Conditions == {"match", "absent"}
Options == {"location", "lease"} \cup Conditions

(* What a request does with the resource it names: "create" makes one that  *)
(* is not there yet, "put" makes or replaces one, "stage" stores a block    *)
(* that is not part of the blob yet, "append" asks for the position that    *)
(* the method knows, "use" changes something else (a message, a snapshot).  *)
LeaseActions == {"acquire", "renew", "release", "break"}
Writes == {"create", "put", "update", "append", "delete"}
Does == {"read", "use", "stage"} \cup Writes \cup LeaseActions

(* The errors that methods tell apart, by status and code; "lost" is that   *)
(* of a request without an answer.                                          *)
Errors == {"parentNotFound", "notFound", "conflict", "precondition", "lease",
           "badRequest", "lost"}

(* where is options.requestLocationMode ("TOKEN": the one of the            *)
(* continuation token); with are the options passed on to the request;      *)
(* given are those of which one is needed for it to be made; checks tells   *)
(* that building it throws on bad arguments.  An error in absorbs is the    *)
(* answer "no" (or "already so"), one in ignores is not looked at and one   *)
(* in chokes makes the callback throw (if it is that there was no answer,   *)
(* then only with EtagNonMatch); any other is given to the program.         *)
(* endsEmpty tells that a segment of a listing is the last if it is empty.  *)
Request == [does : Does, where : RequestModes \cup {"TOKEN"},
            with : SUBSET Options, given : SUBSET Options, checks : BOOLEAN,
            absorbs : SUBSET Errors, ignores : SUBSET Errors, chokes : SUBSET Errors,
            endsEmpty : BOOLEAN]

Primary == "PRIMARY_ONLY"            \* the default of _performRequest
Either == "PRIMARY_OR_SECONDARY"

Send(does, where, with) ==
    [does |-> does, where |-> where, with |-> with, given |-> {}, checks |-> FALSE,
     absorbs |-> {}, ignores |-> {}, chokes |-> {}, endsEmpty |-> FALSE]
Checked(r) == [r EXCEPT !.checks = TRUE]

(* A method works on the account, on a parent (container, share, queue or   *)
(* table) or on a child.  takes are the options its documentation names,    *)
(* must those that are arguments of it; programs are the sequences of       *)
(* requests it may send, which depend on the data.                          *)
Method == [of : {"account", "parent", "child"},
           kind : {"plain", "createIf", "deleteIf", "exists", "list", "batch"},
           takes : SUBSET Options, must : SUBSET Options,
           programs : SUBSET Seq(Request)]

Runs(of, takes, programs) ==
    [of |-> of, kind |-> "plain", takes |-> takes, must |-> {}, programs |-> programs]

(* One request with all the options.                                        *)
Sends(of, takes, does, where) == Runs(of, takes, {<<Send(does, where, takes)>>})
SendsChecked(of, takes, does, where) ==
    Runs(of, takes, {<<Checked(Send(does, where, takes))>>})
With(arguments, method) == [method EXCEPT !.must = arguments]

(* A call for one segment of a listing; the program calls again with the    *)
(* continuation token of the result.                                        *)
Lists(of, where) ==
    [Sends(of, {"location"}, "read", where) EXCEPT !.kind = "list"]

(* _doesContainerExist and its like, sent to the primary when another       *)
(* request follows.                                                         *)
Check(where, takes) ==
    [Send("read", where, takes) EXCEPT !.absorbs = {"notFound", "parentNotFound"}]
Exists(of, takes, where) ==
    [Runs(of, takes, {<<Check(where, takes)>>}) EXCEPT !.kind = "exists"]
CreatesUnless(of, takes, create) ==
    [Runs(of, takes, {<<Check(Primary, takes), create>>}) EXCEPT !.kind = "createIf"]
DeletesIfEither(of, takes, delete) ==       \* mutant: checked at either location
    [Runs(of, takes, {<<Check(Either, takes), delete>>}) EXCEPT !.kind = "deleteIf"]
DeletesIf(of, takes, delete) ==
    [Runs(of, takes, {<<Check(Primary, takes), delete>>}) EXCEPT !.kind = "deleteIf"]

(* The second request of those: somebody else was faster.                   *)
CreateRace(takes) == [Send("create", Primary, takes) EXCEPT !.absorbs = {"conflict"}]
DeleteRace(takes) == [Send("delete", Primary, takes) EXCEPT !.absorbs = {"notFound"}]
=============================================================================
