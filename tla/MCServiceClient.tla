-------------------------- MODULE MCServiceClient --------------------------
(* Calls of every method for TLC.                                           *)
EXTENDS ServiceClient

Blob == INSTANCE BlobOperations
File == INSTANCE FileOperations
Queue == INSTANCE QueueOperations
Table == INSTANCE TableOperations

Services == {Blob!BlobMethods, File!FileMethods, Queue!QueueMethods, Table!TableMethods}

(* The calls of a method, with the options that its documentation names.    *)
GivenTo(method) ==
    {gives \in SUBSET (method.takes \ {"location"}) :
        method.must \subseteq gives /\ Cardinality(gives \cap Conditions) <= 1}

ChecksArguments(requests) == \E i \in DOMAIN requests : requests[i].checks

CallsOf(method) ==
    {[of |-> method.of, kind |-> method.kind, mode |-> m, gives |-> gives,
      good |-> good, requests |-> Program(requests, gives)] :
        m \in LocationModes, gives \in GivenTo(method),
        good \in IF \E p \in method.programs : ChecksArguments(p) THEN BOOLEAN ELSE {TRUE},
        requests \in method.programs}

CallsNamed(name) ==
    UNION {CallsOf(methods[name]) : methods \in {m \in Services : name \in DOMAIN m}}
-----------------------------------------------------------------------------
(* Methods that are given less than their documentation allows, because of  *)
(* the defects that the findings and the hazards describe.                  *)

Downloads == {"createReadStream", "getBlobToStream", "getBlobToLocalFile",
              "getFileToStream", "getFileToLocalFile"}
BlockUploads == {"createBlockBlobFromStream", "createBlockBlobFromLocalFile",
                 "createBlockBlobFromBrowserFile", "createWriteStreamToBlockBlob"}
AppendUploads == {"appendFromStream", "appendFromLocalFile", "appendFromBrowserFile",
                  "createWriteStreamToExistingAppendBlob"}
PieceUploads == {"createPageBlobFromStream", "createPageBlobFromLocalFile",
                 "createPageBlobFromBrowserFile", "createWriteStreamToExistingPageBlob",
                 "createWriteStreamToNewPageBlob", "createAppendBlobFromStream",
                 "createAppendBlobFromLocalFile", "createAppendBlobFromBrowserFile",
                 "createWriteStreamToNewAppendBlob"} \cup AppendUploads
FileUploads == {"createWriteStreamToExistingFile"}

(* Not called at all.                                                       *)
Odd == {"createAppendBlobFromText", "appendFromText"}

AskedFor(name, c) ==
    /\ c.mode = "SECONDARY_ONLY" =>
           name \notin Downloads \cup BlockUploads \cup PieceUploads \cup FileUploads
    /\ c.mode = "SECONDARY_THEN_PRIMARY" =>
           name \notin AppendUploads \cup {"createWriteStreamToBlockBlob"}
    /\ "lease" \in c.gives => name \notin PieceUploads
    /\ c.gives \cap Conditions # {} =>
           /\ name \notin PieceUploads
           /\ name \in Downloads => Len(c.requests) <= 2
    \* that there be nothing is asked of what makes something only
    /\ "absent" \in c.gives => c.requests[Len(c.requests)].does \in {"put", "create"}

AllCalls ==
    UNION {{c \in CallsNamed(name) : AskedFor(name, c)} :
           name \in UNION {DOMAIN methods : methods \in Services} \ Odd}

(* Calls of those, without options.                                         *)
PlainCalls(names) ==
    {c \in UNION {CallsNamed(name) : name \in names} :
        c.good /\ c.gives = {} /\ c.mode = "PRIMARY_ONLY"}
RaceCalls == PlainCalls({"deleteContainerIfExists", "deleteShareIfExists",
                         "deleteDirectoryIfExists"})
TextCalls == PlainCalls({"appendFromText"})
-----------------------------------------------------------------------------
NoCopy == [around |-> TRUE, version |-> Absent, by |-> "seen", lease |-> "none", next |-> 2]
Seen(lease) == [NoCopy EXCEPT !.version = SeenVersion, !.lease = lease]
Newer == [NoCopy EXCEPT !.version = 2, !.by = "them", !.next = 3]
Primaries == {NoCopy, [NoCopy EXCEPT !.around = FALSE], Newer}
             \cup {Seen(l) : l \in {"none", "ours", "theirs"}}

(* The secondary location may be behind.                                    *)
Stores ==
    {[l \in Locations |-> IF l = "PRIMARY" THEN new ELSE old] :
        <<new, old>> \in {<<n, o>> \in Primaries \X Primaries : o = n \/ o \in {NoCopy, Seen("none")}}}

Entities == [type : {"RETRIEVE", "INSERT"}, pk : {"a", "b"}]
=============================================================================
