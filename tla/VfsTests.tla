------------------------------ MODULE VfsTests ------------------------------
(***************************************************************************)
(* The tests of the file system layer (embedder_tests/vfs_unittest.cc), as *)
(* scripts for the model of the C library's files.  The random access      *)
(* tests read and write parts of a file that overlap at seven places; here *)
(* the blocks of the file are the pieces between these places.             *)
(***************************************************************************)
EXTENDS LibcVfs, TestScript

CONSTANTS TheFile,   \* the tests' file object
          kFileName

InVfsTest == phase[TheFile] \in {"none", "open"}

VfsCall ==
  /\ InVfsTest
  /\ \/ Now("Open") /\ Open(TheFile, Arg(1), kFileName,
                            [create_if_missing |-> Arg(2), error_if_exists |-> Arg(3)])
     \/ Now("Read") /\ Read(TheFile, Arg(1))
     \/ Now("Write") /\ Write(TheFile, Arg(1), Arg(2))
     \/ Now("Close") /\ Close(TheFile)
     \/ Now("RemoveFile") /\ RemoveFile(kFileName)
     \/ Now("Expect") /\ UNCHANGED vfsVars

\* The test expects kSuccess, and in value the file's size or what was read.
Succeeds == Expect("file", [status |-> "kSuccess"])
SucceedsWith(v) == Expect("file", [status |-> "kSuccess", value |-> v])
FailsWith == Expect("file", [status |-> "kIoError"])

OpenOptions(kind) ==
  << <<"Open", kind, FALSE, FALSE>>, FailsWith,
     <<"Open", kind, TRUE, TRUE>>, SucceedsWith(0), <<"Close">>, Succeeds,
     <<"Open", kind, TRUE, TRUE>>, FailsWith,
     <<"Open", kind, TRUE, FALSE>>, SucceedsWith(0), <<"Close">>, Succeeds,
     <<"Open", kind, FALSE, FALSE>>, SucceedsWith(0), <<"Close">>, Succeeds >>

OpenForBlockAccessOptions == OpenOptions("block")

OpenForRandomAccessOptions == OpenOptions("random")

\* Calls of Write and Read for consecutive pieces, first to last, of a buffer
\* whose i-th piece is base + i.
WritePieces(base, first, last) ==
  ForEach(last - first + 1, LAMBDA i :
    << <<"Write", first + i - 1, base + first + i - 1>>, Succeeds >>)

ReadPieces(base, first, last) ==
  ForEach(last - first + 1, LAMBDA i :
    << <<"Read", first + i - 1>>, SucceedsWith(base + first + i - 1) >>)

CloseAndRemove == << <<"Close">>, Succeeds, <<"RemoveFile">>, Succeeds >>

BlockAccessFilePersistence ==
  << <<"Open", "block", TRUE, FALSE>>, SucceedsWith(0) >> \o
  WritePieces(0, 0, 0) \o
  << <<"Close">>, Succeeds, <<"Open", "block", FALSE, FALSE>>, SucceedsWith(1) >> \o
  ReadPieces(0, 0, 0) \o CloseAndRemove

BlockAccessFileReadWriteOffsets ==
  << <<"Open", "block", TRUE, FALSE>>, SucceedsWith(0),
     <<"Write", 0, 2>>, Succeeds, <<"Write", 1, 1>>, Succeeds,
     <<"Write", 2, 3>>, Succeeds, <<"Write", 3, 0>>, Succeeds,
     <<"Read", 2>>, SucceedsWith(3), <<"Read", 1>>, SucceedsWith(1),
     <<"Read", 0>>, SucceedsWith(2), <<"Read", 3>>, SucceedsWith(0),
     <<"Write", 2, 2>>, Succeeds, <<"Write", 0, 0>>, Succeeds,
     <<"Write", 3, 3>>, Succeeds,
     <<"Read", 1>>, SucceedsWith(1), <<"Read", 0>>, SucceedsWith(0),
     <<"Read", 3>>, SucceedsWith(3), <<"Read", 2>>, SucceedsWith(2) >> \o
  CloseAndRemove

\* Bytes 0, 2000, 2500, 3000, 6000, 6500 and 7000 are where the pieces start.
WriteInOrder(base) ==
  WritePieces(base, 0, 0) \o WritePieces(base, 1, 2) \o WritePieces(base, 3, 3) \o
  WritePieces(base, 4, 4) \o WritePieces(base, 5, 6)

RandomAccessFilePersistence ==
  << <<"Open", "random", TRUE, FALSE>>, SucceedsWith(0) >> \o
  WriteInOrder(0) \o
  << <<"Close">>, Succeeds, <<"Open", "random", FALSE, FALSE>>, SucceedsWith(7) >> \o
  ReadPieces(0, 0, 1) \o ReadPieces(0, 2, 2) \o ReadPieces(0, 3, 3) \o
  ReadPieces(0, 4, 5) \o ReadPieces(0, 6, 6) \o CloseAndRemove

RandomAccessFileReadWriteOffsets ==
  << <<"Open", "random", TRUE, FALSE>>, SucceedsWith(0) >> \o
  WriteInOrder(0) \o
  ReadPieces(0, 3, 3) \o ReadPieces(0, 6, 6) \o ReadPieces(0, 0, 1) \o
  ReadPieces(0, 4, 5) \o ReadPieces(0, 2, 2) \o
  WritePieces(10, 3, 3) \o WritePieces(10, 4, 4) \o WritePieces(10, 0, 0) \o
  WritePieces(10, 5, 6) \o WritePieces(10, 1, 2) \o
  ReadPieces(10, 4, 5) \o ReadPieces(10, 3, 3) \o ReadPieces(10, 0, 1) \o
  ReadPieces(10, 6, 6) \o ReadPieces(10, 2, 2) \o CloseAndRemove

RemoveFileTest ==
  << <<"Open", "random", TRUE, TRUE>>, SucceedsWith(0) >> \o CloseAndRemove \o
  << <<"Open", "random", FALSE, FALSE>>, FailsWith >>

VfsTestCases ==
  \/ script = OpenForBlockAccessOptions
  \/ script = BlockAccessFilePersistence
  \/ script = BlockAccessFileReadWriteOffsets
  \/ script = OpenForRandomAccessOptions
  \/ script = RandomAccessFilePersistence
  \/ script = RandomAccessFileReadWriteOffsets
  \/ script = RemoveFileTest

RunVfsTest ==
  \/ VfsCall /\ Advance
  \/ (OpenExisting(TheFile) \/ MeasureFile(TheFile)) /\ UNCHANGED script

VfsExpectationHolds ==
  InVfsTest /\ Now("Expect") => \A k \in DOMAIN Arg(2) : result[k] = Arg(2)[k]
=============================================================================
