----------------------------- MODULE MCDownload -----------------------------
(* Blobs for TLC.  A page has two bytes, the minimum of a range two pages,  *)
(* the maximum four, and a listing eight: all of the sizes of the code in   *)
(* proportion, but for the listing, which is of 37 maximal ranges.          *)
EXTENDS Download

File(kind, size, bytes, from, to) ==
    [kind |-> kind, size |-> size, bytes |-> bytes, cuts |-> {}, from |-> from, to |-> to,
     listFails |-> FALSE]
OfBlocks(cuts, from, to) == [File("block", 12, 0..11, from, to) EXCEPT !.cuts = cuts]
Far == 99
Pages(S) == UNION {{2 * p, 2 * p + 1} : p \in S}

(* Layouts of a page blob of nine pages, the last of which is a listing of  *)
(* its own, and of eight; parts of files; append blobs; block blobs of one  *)
(* block and of many, and parts that begin and end within a block, at its   *)
(* ends or with blocks around; and listings that fail.                      *)
Layouts ==
    {File("page", 18, Pages(S), 0, Far) : S \in SUBSET {0, 2, 3, 5, 7, 8}}
    \cup {File("page", 16, Pages(S), 0, Far) : S \in {{}, {0}, {7}, 1..6}}
    \cup {File("file", 19, 0..18, 2, 17),
          File("file", 19, Pages({1, 2, 7, 8}) \cup {18}, 3, Far),
          File("append", 19, 0..18, 0, Far), File("append", 19, 0..18, 3, 12),
          [File("page", 18, 0..17, 0, Far) EXCEPT !.listFails = TRUE]}
    \cup {OfBlocks({}, 0, Far), OfBlocks({}, 2, 7), OfBlocks({2, 3, 5, 9, 11}, 0, Far),
          OfBlocks({2, 3, 5, 9}, 3, 8), OfBlocks({2, 4, 6, 9}, 3, 6), OfBlocks({4}, 3, 4),
          [OfBlocks({3}, 0, Far) EXCEPT !.listFails = TRUE]}

(* All of them are as the theorem DownloadSuccessIsWhole asks for.          *)
ASSUME LayoutsAreWhole == \A b \in Layouts : WholePages(b)

(* A file one byte longer than what one request lists.                      *)
OddFiles == {File("file", 17, 0..16, 0, Far)}
FailingFiles == {[File("file", 18, 0..17, 0, Far) EXCEPT !.listFails = TRUE]}
=============================================================================
