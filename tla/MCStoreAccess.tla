--------------------------- MODULE MCStoreAccess ---------------------------
(***************************************************************************)
(* Instances of StoreAccess for TLC.                                       *)
(***************************************************************************)
EXTENDS StoreAccess

\* The output called "out" of two, the other one first in the alphabet.
Second == 2

\* A module, whose contents are known, made from a source.
Module ==
  AddInputSrc(AddFODOutput(NewDerivation("fod"), Second, "nar", <<"sha256", "h">>),
              <<"source", "go.mod">>)

\* A package that needs two outputs of another derivation, named one by one
\* and once more.
Package ==
  LET d == AddCAOutput(AddCAOutput(NewDerivation("pkg"), 1, "sha256", "nar"),
                       Second, "sha256", "nar")
  IN AddInputDrv(AddInputDrv(d, DrvPath(Module), <<Second>>),
                 DrvPath(Module), <<1, Second>>)

SomeRequests ==
  { [op |-> "derivation", drv |-> Module],
    [op |-> "derivation", drv |-> Package],
    [op |-> "build", drvs |-> <<DrvPath(Module), DrvPath(Package)>>],
    [op |-> "source", tree |-> "go.mod"] }

\* Only the source is in the store.
WithSource == {<<"source", "go.mod">>}
=============================================================================
