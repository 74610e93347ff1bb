----------------------------- MODULE Derivation -----------------------------
(***************************************************************************)
(* Derivations as go2nix makes them, their .drv files and their paths:     *)
(* go/go2nix/pkg/nixdrv/derivation.go and drvpath.go.  Operators only.     *)
(*                                                                         *)
(* A store path is <<kind, what it is the hash of>>, so that two paths are *)
(* equal exactly if what they were made from is.  The name of an output is *)
(* its number in alphabetical order; the one called "out" is Out.          *)
(***************************************************************************)
EXTENDS Naturals, Sequences, SequencesExt

CONSTANTS
  Out,      \* the output called "out"
  Unset     \* an empty string

NewDerivation(name) ==
  [name |-> name, outputs |-> <<>>, inputDrvs |-> <<>>, inputSrcs |-> {},
   env |-> <<>>]

With(f, x, v) == [y \in DOMAIN f \cup {x} |-> IF y = x THEN v ELSE f[y]]

AddCAOutput(d, o, algo, method) ==
  [d EXCEPT !.outputs =
     With(@, o, [method |-> method, algo |-> algo, hash |-> Unset])]

\* hash is an SRI hash: the algorithm and the digest.
AddFODOutput(d, o, method, hash) ==
  [d EXCEPT !.outputs =
     With(@, o, [method |-> method, algo |-> Unset, hash |-> hash])]

\* a, and the elements of b it lacks.
MergeUnique(a, b) ==
  FoldLeft(LAMBDA s, x : IF x \in Range(s) THEN s ELSE Append(s, x), a, b)

AddInputDrv(d, drv, outs) ==
  [d EXCEPT !.inputDrvs =
     With(@, drv, IF drv \in DOMAIN @ THEN MergeUnique(@[drv], outs) ELSE outs)]

AddInputSrc(d, path) == [d EXCEPT !.inputSrcs = @ \cup {path}]

-----------------------------------------------------------------------------
(***************************************************************************)
(* The .drv file.                                                          *)
(***************************************************************************)
\* "r:" before the algorithm for method "nar"; the algorithm of an SRI hash
\* is taken out of it.
ConvertOutput(o) ==
  [recursive |-> o.method = "nar",
   algo |-> IF o.algo # Unset THEN o.algo ELSE o.hash[1],
   hash |-> IF o.algo # Unset THEN Unset ELSE o.hash[2],
   path |-> Unset]

ToGoNixDerivation(d) ==
  [d EXCEPT
     !.outputs = [o \in DOMAIN @ |-> ConvertOutput(@[o])],
     !.inputDrvs = [p \in DOMAIN @ |-> SortSeq(@[p], LAMBDA a, b : a < b)]]

IsFOD(a) == DOMAIN a.outputs = {Out} /\ a.outputs[Out].hash # Unset

\* CalculateOutputPaths: the path of a fixed output is that of its contents.
FixedPath(a) == <<"fixed", a.name, a.outputs[Out]>>

\* The path of a fixed output is known and stands in the file and in the
\* environment.
FillFOD(a) ==
  IF IsFOD(a)
  THEN [a EXCEPT !.outputs[Out].path = FixedPath(a),
                 !.env = With(@, Out, FixedPath(a))]
  ELSE a

ATerm(d) == FillFOD(ToGoNixDerivation(d))

\* What the .drv file refers to.
Refs(d) == d.inputSrcs \cup DOMAIN d.inputDrvs

\* The path of the .drv file, without asking Nix.
DrvPath(d) == <<"drv", FillFOD(ToGoNixDerivation(d))>>

-----------------------------------------------------------------------------
(***************************************************************************)
(* What Nix makes of the JSON: the outputs of an input are a set, written  *)
(* in order; the path of a fixed output is filled in.                      *)
(***************************************************************************)
ToJSON(d) == d

NixAdd(json) ==
  LET a == [json EXCEPT
              !.outputs = [o \in DOMAIN @ |-> ConvertOutput(@[o])],
              !.inputDrvs =
                 [p \in DOMAIN @ |->
                    SetToSortSeq(Range(@[p]), LAMBDA x, y : x < y)]]
  IN <<"drv",
       IF DOMAIN a.outputs = {Out} /\ a.outputs[Out].hash # Unset
       THEN [a EXCEPT !.outputs[Out].path = FixedPath(a),
                      !.env = With(@, Out, FixedPath(a))]
       ELSE a>>
=============================================================================
