------------------------------ MODULE MCUpload ------------------------------
(* Uploads for TLC.  A chunk has two units.                                 *)
EXTENDS Upload

File(kind, size, limit, piece) ==
    [kind |-> kind, source |-> "local", size |-> size, limit |-> limit, piece |-> piece,
     chunk |-> 2, zeros |-> {}, fileFails |-> FALSE]
Pipe(kind, size, piece) == [File(kind, size, 0, piece) EXCEPT !.source = "pipe"]

(* Files read in pieces of a chunk, less and more; that have grown or       *)
(* shrunk since their size was looked at; with zeros; and pipes that give   *)
(* less than a chunk at first, or a chunk of zeros, which nobody hears;     *)
(* files that fail.                                                         *)
Failing(u) == [u EXCEPT !.fileFails = TRUE]
FailingFiles == {Failing(File("block", 5, 5, 2)), Failing(File("file", 3, 0, 2))}
Typical ==
    {File("block", 7, 7, 2), File("block", 6, 6, 3), File("block", 8, 5, 2),
     File("block", 5, 7, 2), File("block", 8, 5, 4), File("block", 5, 5, 1),
     File("append", 5, 5, 2), File("append", 6, 3, 2),
     [File("page", 8, 8, 2) EXCEPT !.zeros = 3..6],
     [File("file", 7, 0, 2) EXCEPT !.zeros = {1, 2, 7}]}
    \cup {Pipe("block", 7, 1), Pipe("append", 5, 1), Pipe("page", 5, 1), Pipe("file", 7, 1),
          [Pipe("file", 4, 2) EXCEPT !.zeros = {1, 2}]}
    \cup FailingFiles

(* They meet the hypothesis under which every upload is proved whole.       *)
ASSUME TypicalStartsSmall == \A u \in Typical : StartsSmall(u)

(* A program that pipes a stream whose first piece is a chunk.              *)
LargePieces == {Pipe("append", 4, 2)}
=============================================================================
