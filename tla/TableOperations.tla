-------------------------- MODULE TableOperations --------------------------
(***************************************************************************)
(* The requests of the methods of TableService                             *)
(* (src/lib/services/table/tableservice.js, internal/requesthandler.js).   *)
(***************************************************************************)
EXTENDS StorageRequests, TLC

LOCAL Loc == {"location"}
-----------------------------------------------------------------------------
ServiceMethods ==
    [getServiceStats      |-> Sends("account", Loc, "read", Either),
     getServiceProperties |-> Sends("account", Loc, "read", Either),
     setServiceProperties |-> Sends("account", Loc, "update", Primary)]

TableLists ==
    [listTablesSegmented           |-> Lists("account", "TOKEN"),
     listTablesSegmentedWithPrefix |-> Lists("account", "TOKEN")]

TableAcl ==
    [getTableAcl |-> Sends("parent", Loc, "read", Either),
     setTableAcl |-> SendsChecked("parent", Loc, "update", Primary)]

Tables ==
    [doesTableExist |-> Exists("parent", Loc, Either),
     createTable    |-> Sends("parent", Loc, "create", Primary)]

TableCreation ==
    [createTableIfNotExists |-> CreatesUnless("parent", Loc, CreateRace(Loc))]

TableDeletion ==
    [deleteTable         |-> Sends("parent", Loc, "delete", Primary),
     deleteTableIfExists |-> DeletesIf("parent", Loc, DeleteRace(Loc))]
-----------------------------------------------------------------------------
(* Entities: _performEntityOperation and constructEntityWebResource.  An    *)
(* entity that is replaced, merged or deleted is named with its etag, or    *)
(* with '*' if it has none.                                                 *)

EntityQuery == [queryEntities |-> Lists("parent", "TOKEN")]

EntityReadAndInsert ==
    [retrieveEntity |-> SendsChecked("child", Loc, "read", Primary),
     insertEntity   |-> Sends("child", Loc, "create", Primary)]

WithEtag(does) == SendsChecked("child", {"location", "match"}, does, Primary)

EntityUpdates ==
    [insertOrReplaceEntity |-> SendsChecked("child", Loc, "put", Primary),
     replaceEntity         |-> WithEtag("update"),
     mergeEntity           |-> WithEtag("update"),
     insertOrMergeEntity   |-> SendsChecked("child", Loc, "put", Primary),
     deleteEntity          |-> WithEtag("delete")]

(* One request for all operations, which are done together or not at all.   *)
EntityGroup ==
    [executeBatch |-> [Sends("parent", Loc, "use", Primary) EXCEPT !.kind = "batch"]]
-----------------------------------------------------------------------------
TableMethods ==
    ServiceMethods @@ TableLists @@ TableAcl @@ Tables @@ TableCreation
    @@ TableDeletion @@ EntityQuery @@ EntityReadAndInsert @@ EntityUpdates
    @@ EntityGroup
=============================================================================
