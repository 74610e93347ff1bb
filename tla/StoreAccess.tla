----------------------------- MODULE StoreAccess -----------------------------
(***************************************************************************)
(* The two implementations of Store: DaemonStore, by connections of a pool *)
(* to the daemon (go/go2nix/pkg/nixdrv/daemon.go), and NixTool, by the nix *)
(* command (tool.go); newStore of pkg/resolve chooses.                     *)
(*                                                                         *)
(* A directory is sent as a stream: a goroutine, here the dumper, writes   *)
(* it piece by piece into a pipe, and each write waits until it is read.   *)
(*                                                                         *)
(* The pool, the worker protocol and the daemon are not in the repository; *)
(* they are modelled from their use.                                       *)
(***************************************************************************)
EXTENDS Store, FiniteSets

CONSTANTS
  MaxConns,   \* connections at once
  Limit,      \* calls at once
  Pieces      \* pieces a directory is sent in

ASSUME StoreAccessAssumption ==
  MaxConns \in Nat \ {0} /\ Limit \in Nat \ {0} /\ Pieces \in Nat

Conn == 1..MaxConns

VARIABLES
  impl,     \* "daemon" or "tool" once chosen
  pc,       \* where call c is
  pool,     \* pool[k]: connection k is "closed", "idle" or "used"
  midway,   \* connections on which some request was left unfinished
  conn,     \* conn[c]: the connection call c uses, 0 if none
  rpcErr,   \* rpcErr[c]: the request on it failed
  got,      \* got[c]: the daemon's answer
  dumper,   \* what the dumper of call c does
  sent      \* pieces sent

vars == <<request, valid, answer, impl, pc, pool, midway, conn, rpcErr, got,
          dumper, sent>>
dumping == <<dumper, sent>>
store == <<request, valid, answer>>

Init ==
  /\ StoreInit
  /\ impl = "none"
  /\ pc = [c \in Call |-> "new"]
  /\ pool = [k \in Conn |-> "closed"]
  /\ midway = {}
  /\ conn = [c \in Call |-> 0]
  /\ rpcErr = [c \in Call |-> FALSE]
  /\ got = [c \in Call |-> Pending]
  /\ dumper = [c \in Call |-> "none"]
  /\ sent = [c \in Call |-> 0]

Goto(c, from, to) ==
  /\ pc[c] = from
  /\ pc' = [pc EXCEPT ![c] = to]

Requested(c) == request[c].op

\* newStore: one connection is made; if that fails, the tool serves.
NewStore ==
  /\ impl = "none"
  /\ \/ impl' = "daemon" /\ pool' = [pool EXCEPT ![1] = "idle"]
     \/ impl' = "tool" /\ UNCHANGED pool
  /\ UNCHANGED <<store, pc, midway, conn, rpcErr, got, dumping>>

Active == {c \in Call : pc[c] \notin {"new", "returned"}}

Begin(c) ==
  /\ impl # "none"
  /\ Cardinality(Active) < Limit
  /\ Goto(c, "new", IF impl = "daemon" THEN "acquire" ELSE "run")
  /\ dumper' = IF impl = "daemon" /\ Requested(c) = "source"
               THEN [dumper EXCEPT ![c] = "reading"] ELSE dumper
  /\ UNCHANGED <<store, impl, pool, midway, conn, rpcErr, got, sent>>

-----------------------------------------------------------------------------
(***************************************************************************)
(* A call of DaemonStore.                                                  *)
(***************************************************************************)
\* An idle connection, or a new one.
Acquire(c) ==
  /\ Goto(c, "acquire", "request")
  /\ \E k \in Conn :
       /\ pool[k] # "used"
       /\ pool[k] = "closed" => \A i \in Conn : pool[i] # "idle"
       /\ pool' = [pool EXCEPT ![k] = "used"]
       /\ conn' = [conn EXCEPT ![c] = k]
       /\ midway' = IF pool[k] = "closed" THEN midway \ {k} ELSE midway
  /\ UNCHANGED <<store, impl, rpcErr, got, dumping>>

\* No connection can be made.
AcquireFails(c) ==
  /\ Goto(c, "acquire", "return")
  /\ \A k \in Conn : pool[k] # "idle"
  /\ \E k \in Conn : pool[k] = "closed"
  /\ got' = [got EXCEPT ![c] = Error]
  /\ UNCHANGED <<store, impl, pool, midway, conn, rpcErr, dumping>>

Request(c) ==
  /\ Goto(c, "request", IF Requested(c) = "source" THEN "stream" ELSE "response")
  /\ midway' = midway \cup {conn[c]}
  /\ UNCHANGED <<store, impl, pool, conn, rpcErr, got, dumping>>

\* The next piece goes through the pipe to the daemon.
Transfer(c) ==
  /\ pc[c] = "stream"
  /\ dumper[c] = "writing"
  /\ dumper' = [dumper EXCEPT ![c] = "reading"]
  /\ sent' = [sent EXCEPT ![c] = @ + 1]
  /\ UNCHANGED <<store, impl, pc, pool, midway, conn, rpcErr, got>>

StreamEnds(c) ==
  /\ dumper[c] = "ended"
  /\ Goto(c, "stream", "response")
  /\ UNCHANGED <<store, impl, pool, midway, conn, rpcErr, got, dumping>>

\* The pipe hands the dumper's error to the request, which is given up.
StreamFails(c) ==
  /\ dumper[c] = "failed"
  /\ Goto(c, "stream", "release")
  /\ rpcErr' = [rpcErr EXCEPT ![c] = TRUE]
  /\ got' = [got EXCEPT ![c] = Error]
  /\ UNCHANGED <<store, impl, pool, midway, conn, dumping>>

\* What the daemon stores, with the references that are sent with a .drv.
DaemonNeeds(r) == IF r.op = "derivation" THEN Refs(r.drv) ELSE Needs(r)

DaemonReturns(r) ==
  IF r.op = "derivation" THEN <<<<"drv", ATerm(r.drv)>>>> ELSE Returns(r)

Respond(c) ==
  /\ Goto(c, "response", "release")
  /\ DaemonNeeds(request[c]) \subseteq valid
  /\ valid' = valid \cup Range(DaemonReturns(request[c]))
  /\ got' = [got EXCEPT ![c] = DaemonReturns(request[c])]
  /\ midway' = midway \ {conn[c]}
  /\ UNCHANGED <<request, answer, impl, pool, conn, rpcErr, dumping>>

\* The daemon answers with an error.
Refuse(c) ==
  /\ Goto(c, "response", "release")
  /\ rpcErr' = [rpcErr EXCEPT ![c] = TRUE]
  /\ got' = [got EXCEPT ![c] = Error]
  /\ midway' = midway \ {conn[c]}
  /\ UNCHANGED <<store, impl, pool, conn, dumping>>

\* Seeded fault: the status of each build is not looked at (ImplementsStore).
BuildFailsUnseen(c) ==
  /\ Requested(c) = "build"
  /\ Goto(c, "response", "release")
  /\ DaemonNeeds(request[c]) \subseteq valid
  /\ \E paths \in SUBSET Range(DaemonReturns(request[c])) : valid' = valid \cup paths
  /\ got' = [got EXCEPT ![c] = DaemonReturns(request[c])]
  /\ midway' = midway \ {conn[c]}
  /\ UNCHANGED <<request, answer, impl, pool, conn, rpcErr, dumping>>

\* The request to build succeeds, but one of the builds failed.
BuildFails(c) ==
  /\ Requested(c) = "build"
  /\ Goto(c, "response", "release")
  /\ DaemonNeeds(request[c]) \subseteq valid
  /\ \E paths \in SUBSET Range(DaemonReturns(request[c])) : valid' = valid \cup paths
  /\ got' = [got EXCEPT ![c] = Error]
  /\ midway' = midway \ {conn[c]}
  /\ UNCHANGED <<request, answer, impl, pool, conn, rpcErr, dumping>>

\* The connection breaks, before or after the daemon did what was asked.
ConnectionFails(c) ==
  /\ pc[c] \in {"stream", "response"}
  /\ pc' = [pc EXCEPT ![c] = "release"]
  /\ rpcErr' = [rpcErr EXCEPT ![c] = TRUE]
  /\ got' = [got EXCEPT ![c] = Error]
  /\ \/ UNCHANGED valid
     \/ /\ pc[c] = "response"
        /\ DaemonNeeds(request[c]) \subseteq valid
        /\ valid' = valid \cup Range(DaemonReturns(request[c]))
  /\ UNCHANGED <<request, answer, impl, pool, midway, conn, dumping>>

\* Seeded fault: the error is read before there is one, as by a deferred call
\* without a function around it (NoBrokenReuse).
ReleaseAsGood(c) ==
  /\ Goto(c, "release", "return")
  /\ pool' = [pool EXCEPT ![conn[c]] = "idle"]
  /\ conn' = [conn EXCEPT ![c] = 0]
  /\ UNCHANGED <<store, impl, midway, rpcErr, got, dumping>>

\* A connection whose request failed is closed.
Release(c) ==
  /\ Goto(c, "release", "return")
  /\ pool' = [pool EXCEPT ![conn[c]] = IF rpcErr[c] THEN "closed" ELSE "idle"]
  /\ conn' = [conn EXCEPT ![c] = 0]
  /\ UNCHANGED <<store, impl, midway, rpcErr, got, dumping>>

Return(c) ==
  /\ Goto(c, "return", "returned")
  /\ answer' = [answer EXCEPT ![c] = got[c]]
  /\ UNCHANGED <<request, valid, impl, pool, midway, conn, rpcErr, got, dumping>>

-----------------------------------------------------------------------------
(***************************************************************************)
(* The dumper.                                                             *)
(***************************************************************************)
SetDumper(c, from, to) ==
  /\ dumper[c] = from
  /\ dumper' = [dumper EXCEPT ![c] = to]
  /\ UNCHANGED <<store, impl, pc, pool, midway, conn, rpcErr, got, sent>>

\* It writes the next piece and waits.
DumpWrites(c) == sent[c] < Pieces /\ SetDumper(c, "reading", "writing")

DumpEnds(c) == sent[c] = Pieces /\ SetDumper(c, "reading", "ended")

\* A file cannot be read.
DumpFails(c) == SetDumper(c, "reading", "failed")

\* Seeded fault: the pipe is not closed when the call returns (Drained).
NeverClosed(c) == FALSE

\* The deferred pr.Close, once the connection is released.
PipeClosed(c) == pc[c] = "returned"

\* A write into a closed pipe fails.
DumpStops(c) == PipeClosed(c) /\ SetDumper(c, "writing", "stopped")

-----------------------------------------------------------------------------
(***************************************************************************)
(* A call of NixTool: one process.                                         *)
(***************************************************************************)
ToolReturns(r) ==
  IF r.op = "derivation" THEN <<NixAdd(ToJSON(r.drv))>> ELSE Returns(r)

RunTool(c) ==
  /\ Goto(c, "run", "returned")
  /\ Needs(request[c]) \subseteq valid
  /\ valid' = valid \cup Range(ToolReturns(request[c]))
  /\ answer' = [answer EXCEPT ![c] = ToolReturns(request[c])]
  /\ UNCHANGED <<request, impl, pool, midway, conn, rpcErr, got, dumping>>

\* The command fails, after a part of what it should do.
ToolFails(c) ==
  /\ Goto(c, "run", "returned")
  /\ \/ UNCHANGED valid
     \/ /\ Needs(request[c]) \subseteq valid
        /\ \E paths \in SUBSET Range(ToolReturns(request[c])) : valid' = valid \cup paths
  /\ answer' = [answer EXCEPT ![c] = Error]
  /\ UNCHANGED <<request, impl, pool, midway, conn, rpcErr, got, dumping>>

-----------------------------------------------------------------------------
Caller(c) ==
  \/ Begin(c) \/ Acquire(c) \/ AcquireFails(c) \/ Request(c) \/ Transfer(c)
  \/ StreamEnds(c) \/ StreamFails(c) \/ Respond(c) \/ Refuse(c)
  \/ BuildFails(c) \/ ConnectionFails(c) \/ Release(c) \/ Return(c)
  \/ RunTool(c) \/ ToolFails(c)

Dumper(c) == DumpWrites(c) \/ DumpEnds(c) \/ DumpFails(c) \/ DumpStops(c)

\* Every call has returned.
Done ==
  /\ \A c \in Call : pc[c] = "returned"
  /\ UNCHANGED vars

Next == NewStore \/ \E c \in Call : Caller(c) \/ Dumper(c)

Spec == Init /\ [][Next \/ Done]_vars

\* The daemon answers or the connection breaks; goroutines that can run do.
Fairness ==
  WF_vars(NewStore) /\ \A c \in Call : WF_vars(Caller(c)) /\ WF_vars(Dumper(c))

FairSpec == Spec /\ Fairness
-----------------------------------------------------------------------------
(***************************************************************************)
(* Properties                                                              *)
(***************************************************************************)
\* Both implementations do what the interface says, whatever breaks and when:
\* no call returns a path that is not valid, or another path than asked for,
\* the store stays closed, and the path of a derivation is the one computed
\* for it without Nix, on which those that depend on it were built.
ImplementsStore == StoreSpec

\* No request is made on a connection on which an earlier one was left
\* unfinished.
NoBrokenReuse ==
  \A c \in Call : pc[c] = "request" => conn[c] \notin midway

\* Every call returns, every connection is given back, and every dumper ends,
\* also if its call never read from it.
Drained ==
  <>[] /\ \A c \in Call : pc[c] = "returned" /\ dumper[c] \notin {"reading", "writing"}
       /\ \A k \in Conn : pool[k] # "used"
=============================================================================
