------------------------------- MODULE Store -------------------------------
(***************************************************************************)
(* What a caller of the interface Store (go/go2nix/pkg/nixdrv/store.go) is *)
(* promised: a call that succeeds returns the path of what was asked for,  *)
(* which is then valid; a call that fails may have had any part of its     *)
(* effect; nothing else enters the store and nothing leaves it.            *)
(***************************************************************************)
EXTENDS Derivation

CONSTANTS
  Call,       \* calls of the interface
  Requests,   \* what may be asked for
  Valid0,     \* the paths that are valid at the start
  Pending, Error

VARIABLES
  request,    \* request[c]: what call c asks for
  valid,      \* the valid paths of the store
  answer      \* answer[c]: what it returned, or Pending, or Error

\* The output "out" of the derivation with path p.
OutputPath(p) == <<"output", p>>

\* What a call returns.
Returns(r) ==
  CASE r.op = "derivation" -> <<DrvPath(r.drv)>>
    [] r.op = "build" -> [i \in DOMAIN r.drvs |-> OutputPath(r.drvs[i])]
    [] r.op = "source" -> <<<<"source", r.tree>>>>

\* What has to be valid before.
Needs(r) ==
  CASE r.op = "derivation" -> r.drv.inputSrcs \cup DOMAIN r.drv.inputDrvs
    [] r.op = "build" -> Range(r.drvs)
    [] r.op = "source" -> {}

StoreInit ==
  /\ request \in [Call -> Requests]
  /\ valid = Valid0
  /\ answer = [c \in Call |-> Pending]

\* Part of what c asks for becomes valid.
Adds(c) ==
  \/ valid' = valid
  \/ /\ Needs(request[c]) \subseteq valid
     /\ \E paths \in SUBSET Range(Returns(request[c])) : valid' = valid \cup paths

StoreStep(c) ==
  /\ answer[c] = Pending
  /\ Adds(c)
  /\ \/ UNCHANGED answer
     \/ /\ Range(Returns(request[c])) \subseteq valid'
        /\ answer' = [answer EXCEPT ![c] = Returns(request[c])]
     \/ answer' = [answer EXCEPT ![c] = Error]
  /\ UNCHANGED request

StoreSpec == StoreInit /\ [][\E c \in Call : StoreStep(c)]_<<request, valid, answer>>
=============================================================================
