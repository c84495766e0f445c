--------------------------- MODULE FileOperations ---------------------------
(***************************************************************************)
(* The requests of the methods of FileService                              *)
(* (src/lib/services/file/fileservice.core.js, fileservice.node.js).  No   *)
(* request but getShareAcl's may go to the secondary location: the lines   *)
(* that would allow it are commented out.                                  *)
(***************************************************************************)
EXTENDS StorageRequests, TLC

LOCAL Loc == {"location"}
LOCAL Conditional == Loc \cup Conditions
-----------------------------------------------------------------------------
(* The account and its shares.                                              *)

ServiceProperties ==
    [getServiceProperties |-> Sends("account", Loc, "read", Either),
     setServiceProperties |-> Sends("account", Loc, "update", Primary)]

ShareLists ==
    [listSharesSegmented           |-> Lists("account", Primary),
     listSharesSegmentedWithPrefix |-> Lists("account", Primary)]

Shares ==
    [doesShareExist      |-> Exists("parent", Loc, Primary),
     createShare         |-> Sends("parent", Loc, "create", Primary),
     createShareSnapshot |-> Sends("parent", Loc, "use", Primary)]

(* On a race the callback is given neither an error nor a result.           *)
ShareCreation ==
    [createShareIfNotExists |-> CreatesUnless("parent", Loc, CreateRace(Loc))]

ShareProperties ==
    [getShareProperties |-> Sends("parent", Loc, "read", Primary),
     setShareProperties |-> Sends("parent", Loc, "update", Primary)]

ShareReads ==
    [getShareStats    |-> Sends("parent", Loc, "read", Primary),
     getShareMetadata |-> Sends("parent", Loc, "read", Primary)]

ShareMetadataAndAcl ==
    [setShareMetadata |-> Sends("parent", Loc, "update", Primary),
     getShareAcl      |-> Sends("parent", Loc, "read", Either)]

ShareUpdates ==
    [setShareAcl |-> SendsChecked("parent", Loc, "update", Primary),
     deleteShare |-> SendsChecked("parent", Loc, "delete", Primary)]

(* deleteError.statuscode is always undefined.                              *)
ShareDeletion ==
    [deleteShareIfExists |-> DeletesIf("parent", Loc, Checked(Send("delete", Primary, Loc)))]
-----------------------------------------------------------------------------
(* Directories.                                                             *)

Directories ==
    [doesDirectoryExist |-> Exists("child", Loc, Primary),
     createDirectory    |-> Sends("child", Loc, "create", Primary)]

DirectoryCreation ==
    [createDirectoryIfNotExists |-> CreatesUnless("child", Loc, CreateRace(Loc))]

DirectoryUse ==
    [getDirectoryProperties |-> Sends("child", Loc, "read", Primary),
     deleteDirectory        |-> Sends("child", Loc, "delete", Primary)]

DirectoryDeletion ==
    [deleteDirectoryIfExists |-> DeletesIf("child", Loc, Send("delete", Primary, Loc))]

DirectoryLists ==
    [listFilesAndDirectoriesSegmented           |-> Lists("child", Primary),
     listFilesAndDirectoriesSegmentedWithPrefix |-> Lists("child", Primary)]

DirectoryMetadata ==
    [getDirectoryMetadata |-> Sends("child", Loc, "read", Primary),
     setDirectoryMetadata |-> Sends("child", Loc, "update", Primary)]
-----------------------------------------------------------------------------
(* Files.                                                                   *)

FileReads ==
    [getFileProperties |-> Sends("child", Loc, "read", Primary),
     getFileMetadata   |-> Sends("child", Loc, "read", Primary)]

FileUpdates ==
    [setFileProperties |-> Sends("child", Loc, "update", Primary),
     setFileMetadata   |-> Sends("child", Loc, "update", Primary)]

FileSize ==
    [resizeFile    |-> Sends("child", Loc, "update", Primary),
     doesFileExist |-> Exists("child", Loc, Primary)]

Files ==
    [createFile |-> Sends("child", Loc, "put", Primary),
     deleteFile |-> Sends("child", Loc, "delete", Primary)]

FileDeletion == [deleteFileIfExists |-> DeletesIf("child", Loc, DeleteRace(Loc))]

FileToText == [getFileToText |-> SendsChecked("child", Loc, "read", Primary)]

(* As a blob's download; getFileToStream's request for the properties, the  *)
(* list of ranges and the ranges do not carry the location mode.            *)
FileProperties == Send("read", Primary, {})
WholeFile == Checked(Send("read", Primary, Loc))
FileRange == Send("read", Primary, {})
FileRangeList == Send("read", Primary, {})

Download == Runs("child", Loc,
    {<<WholeFile>>, <<FileProperties, WholeFile>>,
     <<FileProperties, FileRangeList, FileRange, FileRange>>})

DownloadsToStream ==
    [createReadStream |-> Download,
     getFileToStream  |-> Download]

Ranges ==
    [listRanges |-> Sends("child", Loc, "read", Primary),
     clearRange |-> Sends("child", Loc, "update", Primary)]

RangesFromStream ==
    [createRangesFromStream |-> SendsChecked("child", Loc, "update", Primary)]

(* createFile and _createRanges, unless the text is empty.                  *)
NewFile == Send("put", Primary, Loc)
FileFromText ==
    [createFileFromText |->
        Runs("child", Loc,
             {<<Checked(NewFile)>>,
              <<Checked(NewFile), Send("update", Primary, Loc)>>})]

(* _createFileFromChunkStream: rangeOptions leave the location mode at its  *)
(* default, setFileProperties is called without options; chunks that are    *)
(* all zero are not sent.                                                   *)
FileContent == <<Send("update", Primary, {}), Send("update", Primary, {}),
                 Send("update", Primary, {})>>

FileFromStream ==
    [createFileFromStream |-> Runs("child", Loc, {<<NewFile>> \o FileContent})]

FileWriteStreams ==
    [createWriteStreamToExistingFile |-> Runs("child", Loc, {FileContent}),
     createWriteStreamToNewFile      |-> Runs("child", Loc, {<<NewFile>> \o FileContent})]

FileCopies ==
    [startCopyFile |-> Sends("child", Conditional, "put", Primary),
     abortCopyFile |-> Sends("child", Loc, "update", Primary)]
-----------------------------------------------------------------------------
(* Local files, and the files of a browser.                                 *)

DownloadToFile == [getFileToLocalFile |-> Download]

FileFromFile == [createFileFromLocalFile |-> FileFromStream.createFileFromStream]

FileFromBrowser == [createFileFromBrowserFile |-> FileFromStream.createFileFromStream]
-----------------------------------------------------------------------------
FileMethods ==
    ServiceProperties @@ ShareLists @@ Shares @@ ShareCreation @@ ShareProperties
    @@ ShareReads @@ ShareMetadataAndAcl @@ ShareUpdates @@ ShareDeletion
    @@ Directories @@ DirectoryCreation @@ DirectoryUse @@ DirectoryDeletion
    @@ DirectoryLists @@ DirectoryMetadata
    @@ FileReads @@ FileUpdates @@ FileSize @@ Files @@ FileDeletion @@ FileToText
    @@ DownloadsToStream @@ Ranges @@ RangesFromStream
    @@ FileFromText @@ FileFromStream @@ FileWriteStreams @@ FileCopies
    @@ DownloadToFile @@ FileFromFile @@ FileFromBrowser
=============================================================================
