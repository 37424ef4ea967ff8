--------------------------- MODULE StoreFileTests ---------------------------
(***************************************************************************)
(* StoreTest.CreateOptions (api/store_unittest.cc), as a script for the    *)
(* model of stores and their files, where no I/O error occurs (CanFail is  *)
(* FALSE): whether OpenStore fails is up to the options and the files.     *)
(***************************************************************************)
EXTENDS StoreFiles, TestScript

CONSTANTS ThePool, TheStore, kFileName

InFileTest == pc[ThePool] = "idle"

OpenCall(o) == OpenDataFile(ThePool, TheStore, kFileName, o)

FileCall ==
  /\ InFileTest
  /\ \/ /\ Now("OpenStore")
        /\ OpenCall([create_if_missing |-> Arg(1), error_if_exists |-> Arg(2)])
     \/ Now("Close") /\ Close(TheStore)
     \/ Now("Release") /\ Release(TheStore)
     \/ Now("Expect") /\ UNCHANGED vars

FileStep == ~InFileTest /\ OpenStore(ThePool)

Opens == << Expect("store", [is_null |-> FALSE]), <<"Close">>, <<"Release">> >>
DoesNotOpen == << Expect("store", [is_null |-> TRUE]) >>

CreateOptions ==
  << <<"OpenStore", FALSE, FALSE>> >> \o DoesNotOpen \o
  << <<"OpenStore", TRUE, TRUE>> >> \o Opens \o
  << <<"OpenStore", TRUE, TRUE>> >> \o DoesNotOpen \o
  << <<"OpenStore", TRUE, FALSE>> >> \o Opens \o
  << <<"OpenStore", FALSE, FALSE>> >> \o Opens

RunFileTest == (FileCall /\ Advance) \/ (FileStep /\ UNCHANGED script)

FileExpectationHolds ==
  InFileTest /\ Now("Expect") => Arg(2).is_null = (state[TheStore] # "kOpen")
=============================================================================
