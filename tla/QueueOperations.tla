-------------------------- MODULE QueueOperations --------------------------
(***************************************************************************)
(* The requests of the methods of QueueService                             *)
(* (src/lib/services/queue/queueservice.js).                               *)
(***************************************************************************)
EXTENDS StorageRequests, TLC

LOCAL Loc == {"location"}
-----------------------------------------------------------------------------
ServiceMethods ==
    [getServiceStats      |-> Sends("account", Loc, "read", Either),
     getServiceProperties |-> Sends("account", Loc, "read", Either),
     setServiceProperties |-> Sends("account", Loc, "update", Primary)]

(* The marker of a segment without queues is not looked at.                 *)
ListsQueues ==
    LET r == [Send("read", "TOKEN", Loc) EXCEPT !.endsEmpty = TRUE]
    IN [Lists("account", "TOKEN") EXCEPT !.programs = {<<r>>}]

QueueLists ==
    [listQueuesSegmented           |-> ListsQueues,
     listQueuesSegmentedWithPrefix |-> ListsQueues]

Queues ==
    [doesQueueExist |-> Exists("parent", Loc, Either),
     createQueue    |-> Sends("parent", Loc, "create", Primary)]

(* On a race the callback sets created of a result that it was not given.   *)
QueueCreation ==
    [createQueueIfNotExists |->
        CreatesUnless("parent", Loc, [Send("create", Primary, Loc) EXCEPT !.chokes = {"conflict"}])]

QueueDeletion ==
    [deleteQueue         |-> Sends("parent", Loc, "delete", Primary),
     deleteQueueIfExists |-> DeletesIf("parent", Loc, DeleteRace(Loc))]

QueueMetadata ==
    [getQueueMetadata |-> Sends("parent", Loc, "read", Either),
     setQueueMetadata |-> Sends("parent", Loc, "update", Primary)]
-----------------------------------------------------------------------------
(* Messages.  The pop receipt is an argument; taking messages gives them    *)
(* new ones.                                                                *)

NewMessage == [createMessage |-> Sends("parent", Loc, "use", Primary)]

(* _getOrPeekMessages: only peeking may be done at the secondary.           *)
MessagesTaken ==
    [getMessages |-> Sends("parent", Loc, "use", Primary),
     getMessage  |-> Sends("parent", Loc, "use", Primary)]
MessagesPeeked ==
    [peekMessages |-> Sends("parent", Loc, "read", Either),
     peekMessage  |-> Sends("parent", Loc, "read", Either)]

WithReceipt(does) ==
    With({"match"}, SendsChecked("child", {"location", "match"}, does, Primary))

MessageDeletion ==
    [deleteMessage |-> WithReceipt("delete"),
     clearMessages |-> Sends("parent", Loc, "use", Primary)]

MessageUpdate == [updateMessage |-> WithReceipt("update")]

QueueAcl ==
    [getQueueAcl |-> Sends("parent", Loc, "read", Either),
     setQueueAcl |-> SendsChecked("parent", Loc, "update", Primary)]
-----------------------------------------------------------------------------
QueueMethods ==
    ServiceMethods @@ QueueLists @@ Queues @@ QueueCreation @@ QueueDeletion
    @@ QueueMetadata @@ NewMessage @@ MessagesTaken @@ MessagesPeeked
    @@ MessageDeletion @@ MessageUpdate @@ QueueAcl
=============================================================================
