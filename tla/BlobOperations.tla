--------------------------- MODULE BlobOperations ---------------------------
(***************************************************************************)
(* The requests of the methods of BlobService                              *)
(* (src/lib/services/blob/blobservice.core.js, blobservice.node.js).       *)
(***************************************************************************)
EXTENDS StorageRequests, TLC

LOCAL Loc == {"location"}
LOCAL Leased == {"location", "lease"}
LOCAL Conditional == {"location"} \cup Conditions
LOCAL All == Options
-----------------------------------------------------------------------------
(* The account and its containers.                                          *)

AccountReads ==
    [getServiceStats      |-> Sends("account", Loc, "read", Either),
     getServiceProperties |-> Sends("account", Loc, "read", Either),
     getAccountProperties |-> Sends("account", Loc, "read", Either)]

AccountAndTier ==
    [setServiceProperties |-> Sends("account", Loc, "update", Primary),
     setBlobTier          |-> Sends("child", Loc, "update", Primary)]

ContainerLists ==
    [listContainersSegmented           |-> Lists("account", "TOKEN"),
     listContainersSegmentedWithPrefix |-> Lists("account", "TOKEN")]

(* doesContainerExist looks at the lease although it does not name it.      *)
ContainerExists ==
    [doesContainerExist |-> Exists("parent", Loc, Either)]

(* On a race the callback is given neither an error nor a result.           *)
ContainerCreation ==
    [createContainer            |-> Sends("parent", Loc, "create", Primary),
     createContainerIfNotExists |-> CreatesUnless("parent", Loc, CreateRace(Loc))]

ContainerReads ==
    [getContainerProperties |-> Sends("parent", Leased, "read", Either),
     getContainerMetadata   |-> Sends("parent", Leased, "read", Either)]

ContainerMetadataAndAcl ==
    [setContainerMetadata |-> Sends("parent", All, "update", Primary),
     getContainerAcl      |-> Sends("parent", Leased, "read", Either)]

ContainerUpdates ==
    [setContainerAcl |-> SendsChecked("parent", All, "update", Primary),
     deleteContainer |-> Sends("parent", All, "delete", Primary)]

(* deleteError.statuscode is always undefined.                              *)
ContainerDeletion ==
    [deleteContainerIfExists |->
        DeletesIf("parent", All, Send("delete", Primary, All))]

BlobLists ==
    [listBlobDirectoriesSegmented           |-> Lists("parent", "TOKEN"),
     listBlobDirectoriesSegmentedWithPrefix |-> Lists("parent", "TOKEN"),
     listBlobsSegmented                     |-> Lists("parent", "TOKEN"),
     listBlobsSegmentedWithPrefix           |-> Lists("parent", "TOKEN")]
-----------------------------------------------------------------------------
(* Leases of containers and blobs: _leaseImpl.                              *)
LeaseImpl(does, arguments) ==
    With(arguments, Sends("child", Conditional \cup arguments, does, Primary))

LeaseTaking ==
    [acquireLease |-> LeaseImpl("acquire", {}),
     renewLease   |-> LeaseImpl("renew", {"lease"}),
     changeLease  |-> LeaseImpl("renew", {"lease"})]

LeaseEnding ==
    [releaseLease |-> LeaseImpl("release", {"lease"}),
     breakLease   |-> LeaseImpl("break", {})]
-----------------------------------------------------------------------------
(* Blobs of every type.                                                     *)

BlobReads ==
    [getBlobProperties |-> Sends("child", All, "read", Either),
     getBlobMetadata   |-> Sends("child", All, "read", Either)]

BlobUpdates ==
    [setBlobProperties |-> Sends("child", All, "update", Primary),
     setBlobMetadata   |-> Sends("child", All, "update", Primary)]

(* A download is one request (options.skipSizeCheck), a request for the     *)
(* properties and one for the blob, or, when the blob is large, requests    *)
(* for the properties, for the ranges (twice here) and, but for append      *)
(* blobs, for the list of them.  _getBlobToStream leaves the location mode  *)
(* of a request at its default; the requests for ranges take no options of  *)
(* the ones modelled.                                                       *)
Properties == Send("read", Either, Conditions)
WholeBlob == Checked(Send("read", Primary, All))
BlobRange == Send("read", Either, {})
RangeList == Send("read", Either, {"lease"})

Download == Runs("child", All,
    {<<WholeBlob>>, <<Properties, WholeBlob>>,
     <<Properties, BlobRange, BlobRange>>,
     <<Properties, RangeList, BlobRange, BlobRange>>})

DownloadsToStream ==
    [createReadStream |-> Download,
     getBlobToStream  |-> Download]

DownloadToText == [getBlobToText |-> SendsChecked("child", All, "read", Either)]

BlobDeletion ==
    [deleteBlob   |-> SendsChecked("child", All, "delete", Primary),
     undeleteBlob |-> Sends("child", Conditional, "use", Primary)]

BlobDeletionIfExists ==
    [doesBlobExist      |-> Exists("child", Leased, Either),
     deleteBlobIfExists |->
        DeletesIf("child", All, Checked(DeleteRace(All)))]

BlobSnapshot == [createBlobSnapshot |-> Sends("child", All, "use", Primary)]

BlobCopies ==
    [startCopyBlob |-> SendsChecked("child", All, "put", Primary),
     abortCopyBlob |-> Sends("child", Leased, "update", Primary)]
-----------------------------------------------------------------------------
(* The parts of an upload: what _uploadContentFromChunkStream sends for a   *)
(* chunk (rangeOptions) and, of page and append blobs, when all are stored  *)
(* (setBlobProperties without options).  Two chunks stand for any number.   *)
Page == Checked(Send("update", Primary, {"lease"}))
AppendedBlock == Send("append", Primary, {"lease"})
Block == Send("stage", Primary, {"lease"})
LastUpdate == Send("update", Primary, {})
Uploaded(chunk) == <<chunk, chunk, LastUpdate>>

(* _createBlob: createPageBlob or createOrReplaceAppendBlob.                *)
NewPageBlob == <<Checked(Send("put", Primary, All))>>
NewAppendBlob == <<Send("put", Primary, All)>>

(* getBlobProperties(options) of _uploadBlobFromStream, which overlooks     *)
(* status 400 if there must be no blob, whose look at the status throws if  *)
(* there is no response, and which then reads the length of properties that *)
(* an append blob was not given; that of _uploadBlobFromText does not.      *)
LookAtText == Send("read", Either, All)
LookAtBlob == [LookAtText EXCEPT !.chokes = {"badRequest", "lost"}]
LookedAt ==                                 \* mutant: status 400 is not overlooked
    <<[LookAtText EXCEPT !.given = Conditions, !.chokes = {"lost"}]>>
LookIfConditions ==
    <<[LookAtText EXCEPT !.given = Conditions, !.ignores = {"badRequest"},
                         !.chokes = {"lost"}]>>
-----------------------------------------------------------------------------
(* Page blobs.                                                              *)

PageBlobCreation ==
    [createPageBlob           |-> SendsChecked("child", All, "put", Primary),
     createPageBlobFromStream |-> Runs("child", All, {NewPageBlob \o Uploaded(Page)})]

PageBlobStreams ==
    [createWriteStreamToExistingPageBlob |->
        Runs("child", All, {LookIfConditions \o Uploaded(Page)}),
     createWriteStreamToNewPageBlob |-> Runs("child", All, {NewPageBlob \o Uploaded(Page)})]

PagesFromStream ==
    [createPagesFromStream |-> SendsChecked("child", All, "update", Primary)]

PageRanges == [listPageRanges |-> SendsChecked("child", All, "read", Either)]

PageRangesDiff == [getPageRangesDiff |-> SendsChecked("child", All, "read", Either)]

PageUpdates ==
    [clearPageRange |-> SendsChecked("child", All, "update", Primary),
     resizePageBlob |-> SendsChecked("child", All, "update", Primary)]

PageSequenceNumber ==
    [setPageBlobSequenceNumber |->
        SendsChecked("child", Conditional, "update", Primary)]
-----------------------------------------------------------------------------
(* Block blobs: one request (_putBlockBlob), or blocks and their list.      *)

PutAnyway == <<Send("put", Primary, Leased)>>  \* mutant: accessConditions not passed
PutBlockBlob == <<Send("put", Primary, All)>>
Blocks == <<Block, Block, Send("put", Primary, All)>>

BlockBlobs ==
    [createBlockBlobFromStream    |-> Runs("child", All, {PutBlockBlob, Blocks}),
     createBlockBlobFromText      |-> SendsChecked("child", All, "put", Primary),
     createWriteStreamToBlockBlob |-> Runs("child", All, {LookIfConditions \o Blocks})]

(* _createBlock.                                                            *)
BlocksFromData ==
    [createBlockFromStream |-> SendsChecked("child", All, "stage", Primary),
     createBlockFromText   |-> SendsChecked("child", All, "stage", Primary)]

BlocksFromURL == [createBlockFromURL |-> Sends("child", All, "stage", Primary)]

BlockCommit == [commitBlocks |-> Sends("child", All, "put", Primary)]

(* options.leaseId is documented and not sent.                              *)
BlockList ==
    [listBlocks |-> Runs("child", Leased, {<<Send("read", Either, {"location"})>>})]
-----------------------------------------------------------------------------
(* Append blobs.                                                            *)

AppendBlobCreation ==
    [createOrReplaceAppendBlob  |-> Sends("child", All, "put", Primary),
     createAppendBlobFromStream |-> Runs("child", All, {NewAppendBlob \o Uploaded(AppendedBlock)})]

(* _uploadBlobFromText: the callback of _appendBlock has a parameter error  *)
(* that it does not use, and sets the properties with the same options.     *)
TextUpload(does) ==
    <<[Checked(Send(does, Primary, All)) EXCEPT !.ignores = Errors],
      Send("update", Primary, All)>>

AppendBlobCreationFromText ==
    [createAppendBlobFromText         |-> Runs("child", All, {NewAppendBlob \o TextUpload("update")}),
     createWriteStreamToNewAppendBlob |-> Runs("child", All, {NewAppendBlob \o Uploaded(AppendedBlock)})]

AppendStream ==
    [createWriteStreamToExistingAppendBlob |->
        Runs("child", All, {<<LookAtBlob>> \o Uploaded(AppendedBlock)})]

Appends ==
    [appendFromStream |-> Runs("child", All, {<<LookAtBlob>> \o Uploaded(AppendedBlock)}),
     appendFromText   |-> Runs("child", All, {<<LookAtText>> \o TextUpload("append")})]

(* _appendBlock.                                                            *)
AppendBlocks ==
    [appendBlockFromStream |-> SendsChecked("child", All, "update", Primary),
     appendBlockFromText   |-> SendsChecked("child", All, "update", Primary)]
-----------------------------------------------------------------------------
(* Local files, and the files of a browser.                                 *)

DownloadToFile == [getBlobToLocalFile |-> Download]

BlobsFromFiles ==
    [createPageBlobFromLocalFile   |-> PageBlobCreation.createPageBlobFromStream,
     createBlockBlobFromLocalFile  |-> BlockBlobs.createBlockBlobFromStream,
     createAppendBlobFromLocalFile |-> AppendBlobCreation.createAppendBlobFromStream]

AppendFromFile == [appendFromLocalFile |-> Appends.appendFromStream]

BlobsFromBrowser ==
    [createBlockBlobFromBrowserFile  |-> BlockBlobs.createBlockBlobFromStream,
     createPageBlobFromBrowserFile   |-> PageBlobCreation.createPageBlobFromStream,
     createAppendBlobFromBrowserFile |-> AppendBlobCreation.createAppendBlobFromStream]

AppendFromBrowser == [appendFromBrowserFile |-> Appends.appendFromStream]
-----------------------------------------------------------------------------
BlobMethods ==
    AccountReads @@ AccountAndTier @@ ContainerLists @@ ContainerExists
    @@ ContainerCreation @@ ContainerReads @@ ContainerMetadataAndAcl
    @@ ContainerUpdates @@ ContainerDeletion @@ BlobLists
    @@ LeaseTaking @@ LeaseEnding @@ BlobReads @@ BlobUpdates
    @@ DownloadsToStream @@ DownloadToText @@ BlobDeletion @@ BlobDeletionIfExists
    @@ BlobSnapshot @@ BlobCopies
    @@ PageBlobCreation @@ PageBlobStreams @@ PagesFromStream @@ PageRanges
    @@ PageRangesDiff @@ PageUpdates @@ PageSequenceNumber
    @@ BlockBlobs @@ BlocksFromData @@ BlocksFromURL @@ BlockCommit @@ BlockList
    @@ AppendBlobCreation @@ AppendBlobCreationFromText @@ AppendStream
    @@ Appends @@ AppendBlocks
    @@ DownloadToFile @@ BlobsFromFiles @@ AppendFromFile
    @@ BlobsFromBrowser @@ AppendFromBrowser
=============================================================================
