------------------------------ MODULE LinkJobs ------------------------------
(***************************************************************************)
(* The concurrent part of `go2nix link-binary`: linkOne and runLinkJobs of *)
(* go/go2nix/cmd/go2nix/linkbinary.go.                                     *)
(*                                                                         *)
(* N main packages are compiled and linked by goroutines of one errgroup   *)
(* with at most Limit slots.  Each goroutine writes to a log of its own;   *)
(* the logs are printed in list order.  The first failure cancels the      *)
(* group's context; binaries with the same name are linked one after the   *)
(* other.                                                                  *)
(*                                                                         *)
(* Binaries are numbered from 1 here (from 0 in the code), and 0 stands    *)
(* for the code's -1, "no earlier binary of that name".                    *)
(*                                                                         *)
(* Definitions under "Seeded fault" are no part of the model: each is the  *)
(* definition below it with a mistake the property named there must catch. *)
(***************************************************************************)
EXTENDS Integers, Sequences, FiniteSets

CONSTANTS
  N,        \* number of binaries, len(m.SubPackages)
  Limit,    \* number of errgroup slots, compile.BuildCores()
  BinName   \* the name in bin/ of each binary, targets[i].binname

Job == 1..N

ASSUME NAssumption == N \in Nat
ASSUME LimitAssumption == Limit \in Nat \ {0}
ASSUME BinNameAssumption == BinName = [i \in Job |-> BinName[i]]

Names == {BinName[i] : i \in Job}

\* Seeded fault: a binary counts as coming before itself (Termination).
SameNameUpTo(i) == {j \in Job : j <= i /\ BinName[j] = BinName[i]}

\* lastNamed and after: the binary of the same name listed last before i.
SameNameBefore(i) == {j \in Job : j < i /\ BinName[j] = BinName[i]}

\* Seeded fault: the first of that name (SameNameExclusive, LastListedWins).
AfterFirst(i) ==
  IF SameNameBefore(i) = {} THEN 0
  ELSE CHOOSE j \in SameNameBefore(i) : \A k \in SameNameBefore(i) : j <= k

After(i) ==
  IF SameNameBefore(i) = {} THEN 0
  ELSE CHOOSE j \in SameNameBefore(i) : \A k \in SameNameBefore(i) : k <= j

\* Seeded fault: no buffering at any limit (ImplementsOrderedLog).
NeverBuffered == TRUE

\* One binary at a time runs in index order, so its log can go straight to w.
Unbuffered == N = 1 \/ Limit = 1

VARIABLES
  spawned,    \* g.Go has been called for the binaries 1..spawned
  pc,         \* where the goroutine of each binary is
  errs,       \* errs[i]: "nil", "own" (a failure of its own), "canceled"
  logs,       \* logs[i]: the buffered log, one entry (i) per line written
  closed,     \* the binaries i whose channel done[i] is closed
  cancelled,  \* gctx is cancelled
  groupErr,   \* the binary whose error the errgroup keeps, 0 if none
  mu,         \* the binary whose goroutine holds the mutex, 0 if none
  finished, next, stopped,  \* what mu guards
  w,          \* the log as printed
  bin,        \* bin[name]: the binary whose completed link is in bin/name
  result      \* what runLinkJobs returns

vars == <<spawned, pc, errs, logs, closed, cancelled, groupErr, mu, finished,
          next, stopped, w, bin, result>>

(***************************************************************************)
(* A goroutine is "unborn" until g.Go starts it; "await" before the select *)
(* on the binary it comes after; "check" before it reads gctx.Err();       *)
(* "compile", "link" and "linker" (the linker process runs) inside run;    *)
(* "flush", "print" and "close" in the deferred calls; "return" when it    *)
(* hands errs[i] to the errgroup; "release" before it frees its slot.      *)
(***************************************************************************)
Running == {"compile", "link", "linker"}
Deferred == {"flush", "print", "close", "return", "release"}
Holding == {"await", "check"} \cup Running \cup Deferred   \* has a slot
PC == {"unborn", "exited"} \cup Holding

OwnFailure(i) == errs[i] = "own"

NoResult == [kind |-> "none", job |-> 0]

Init ==
  /\ spawned = 0
  /\ pc = [i \in Job |-> "unborn"]
  /\ errs = [i \in Job |-> "nil"]
  /\ logs = [i \in Job |-> <<>>]
  /\ closed = {}
  /\ cancelled = FALSE
  /\ groupErr = 0
  /\ mu = 0
  /\ finished = {}
  /\ next = 1
  /\ stopped = FALSE
  /\ w = <<>>
  /\ bin = [n \in Names |-> 0]
  /\ result = NoResult

Goto(i, from, to) ==
  /\ pc[i] = from
  /\ pc' = [pc EXCEPT ![i] = to]

\* errs[i] = e, the goroutine's function returns and its defers run.
Fail(i, from, e) ==
  /\ Goto(i, from, "flush")
  /\ errs' = [errs EXCEPT ![i] = e]

Active == {i \in Job : pc[i] \in Holding}

-----------------------------------------------------------------------------
(***************************************************************************)
(* The loop over g.Go, which blocks until one of the Limit slots is free.  *)
(***************************************************************************)
Spawn ==
  /\ spawned < N
  /\ Cardinality(Active) < Limit
  /\ spawned' = spawned + 1
  /\ Goto(spawned', "unborn", "await")
  /\ UNCHANGED <<errs, logs, closed, cancelled, groupErr, mu, finished, next,
                 stopped, w, bin, result>>

(***************************************************************************)
(* The select: done[after[i]] or gctx.Done(), either when both are ready.  *)
(* A binary whose predecessor failed is cancelled without looking at gctx, *)
(* which may not be cancelled yet.                                         *)
(***************************************************************************)
\* Seeded fault: the predecessor's error is not looked at
\* (NoRunAfterFailedPredecessor).
AwaitDoneOnly(i) ==
  /\ After(i) # 0 => After(i) \in closed
  /\ Goto(i, "await", "check")
  /\ UNCHANGED <<spawned, errs, logs, closed, cancelled, groupErr, mu,
                 finished, next, stopped, w, bin, result>>

AwaitDone(i) ==
  /\ After(i) # 0 => After(i) \in closed
  /\ IF After(i) # 0 /\ errs[After(i)] # "nil"
     THEN Fail(i, "await", "canceled")
     ELSE Goto(i, "await", "check") /\ UNCHANGED errs
  /\ UNCHANGED <<spawned, logs, closed, cancelled, groupErr, mu, finished,
                 next, stopped, w, bin, result>>

AwaitCancelled(i) ==
  /\ After(i) # 0
  /\ cancelled
  /\ Goto(i, "await", "check")
  /\ UNCHANGED <<spawned, errs, logs, closed, cancelled, groupErr, mu,
                 finished, next, stopped, w, bin, result>>

(***************************************************************************)
(* errs[i] = gctx.Err(), then the scratch directory, which may fail.       *)
(***************************************************************************)
\* Seeded fault: gctx.Err() is not looked at (IInv).
CheckNothing(i) ==
  /\ Goto(i, "check", "compile") /\ UNCHANGED errs
  /\ UNCHANGED <<spawned, logs, closed, cancelled, groupErr, mu, finished,
                 next, stopped, w, bin, result>>

CheckContext(i) ==
  /\ IF cancelled
     THEN Fail(i, "check", "canceled")
     ELSE \/ Goto(i, "check", "compile") /\ UNCHANGED errs
          \/ Fail(i, "check", "own")
  /\ UNCHANGED <<spawned, logs, closed, cancelled, groupErr, mu, finished,
                 next, stopped, w, bin, result>>

-----------------------------------------------------------------------------
(***************************************************************************)
(* linkOne.  The compile and what linkOne prepares for the link fail by    *)
(* themselves only: they know nothing of the context.  The linker is not   *)
(* started once the context is cancelled and is killed when it becomes so; *)
(* a failed link is put down to the context if that is cancelled by then.  *)
(* A linker that is started overwrites bin/name, and leaves a binary there *)
(* only if it succeeds.                                                    *)
(***************************************************************************)
Log(i) ==
  IF Unbuffered
  THEN w' = Append(w, i) /\ UNCHANGED logs
  ELSE logs' = [logs EXCEPT ![i] = Append(@, i)] /\ UNCHANGED w

CompileMain(i) ==
  /\ \/ Goto(i, "compile", "link") /\ UNCHANGED errs
     \/ Fail(i, "compile", "own")
  /\ Log(i)
  /\ UNCHANGED <<spawned, closed, cancelled, groupErr, mu, finished, next,
                 stopped, bin, result>>

StartLinker(i) ==
  /\ IF cancelled
     THEN Fail(i, "link", "canceled") /\ UNCHANGED bin
     ELSE /\ Goto(i, "link", "linker")
          /\ bin' = [bin EXCEPT ![BinName[i]] = 0]
          /\ UNCHANGED errs
  /\ Log(i)
  /\ UNCHANGED <<spawned, closed, cancelled, groupErr, mu, finished, next,
                 stopped, result>>

LinkerSucceeds(i) ==
  /\ Goto(i, "linker", "flush")
  /\ bin' = [bin EXCEPT ![BinName[i]] = i]
  /\ UNCHANGED <<spawned, errs, logs, closed, cancelled, groupErr, mu,
                 finished, next, stopped, w, result>>

\* Seeded fault: every failed link is put down to the context
\* (CancelHasACause).
LinkerCancelled(i) ==
  /\ Fail(i, "linker", "canceled")
  /\ UNCHANGED <<spawned, logs, closed, cancelled, groupErr, mu, finished,
                 next, stopped, w, bin, result>>

LinkerFails(i) ==
  /\ Fail(i, "linker", IF cancelled THEN "canceled" ELSE "own")
  /\ UNCHANGED <<spawned, logs, closed, cancelled, groupErr, mu, finished,
                 next, stopped, w, bin, result>>

-----------------------------------------------------------------------------
(***************************************************************************)
(* The deferred flush(i), under mu: print the logs of all binaries that    *)
(* are next in line, up to and including the first that failed by itself.  *)
(***************************************************************************)
FlushBegin(i) ==
  /\ mu = 0
  /\ mu' = i
  /\ finished' = finished \cup {i}
  /\ Goto(i, "flush", "print")
  /\ UNCHANGED <<spawned, errs, logs, closed, cancelled, groupErr, next,
                 stopped, w, bin, result>>

\* Seeded fault: a failure does not end the log (ImplementsOrderedLog).
CanPrintPastFailure == next <= N /\ next \in finished

CanPrint == ~stopped /\ next <= N /\ next \in finished

PrintNext(i) ==
  /\ pc[i] = "print"
  /\ CanPrint
  /\ w' = w \o logs[next]
  /\ stopped' = OwnFailure(next)
  /\ next' = next + 1
  /\ UNCHANGED <<spawned, pc, errs, logs, closed, cancelled, groupErr, mu,
                 finished, bin, result>>

\* Seeded fault: one log per flush (NoLogHeldBack).
FlushEndEarly(i) ==
  /\ mu' = 0
  /\ Goto(i, "print", "close")
  /\ UNCHANGED <<spawned, errs, logs, closed, cancelled, groupErr, finished,
                 next, stopped, w, bin, result>>

FlushEnd(i) ==
  /\ ~CanPrint
  /\ mu' = 0
  /\ Goto(i, "print", "close")
  /\ UNCHANGED <<spawned, errs, logs, closed, cancelled, groupErr, finished,
                 next, stopped, w, bin, result>>

\* The deferred close(done[i]).
CloseDone(i) ==
  /\ closed' = closed \cup {i}
  /\ Goto(i, "close", "return")
  /\ UNCHANGED <<spawned, errs, logs, cancelled, groupErr, mu, finished, next,
                 stopped, w, bin, result>>

(***************************************************************************)
(* The errgroup: it keeps the first error and cancels gctx, and only then  *)
(* frees the slot.                                                         *)
(***************************************************************************)
\* Seeded fault: the error is kept, gctx is not cancelled (IInv,
\* NoLogPastFailure with one slot).
GroupErrorOnly(i) ==
  /\ errs[i] # "nil"
  /\ Goto(i, "return", "release")
  /\ groupErr' = IF groupErr = 0 THEN i ELSE groupErr
  /\ UNCHANGED <<spawned, errs, logs, closed, cancelled, mu, finished, next,
                 stopped, w, bin, result>>

GroupError(i) ==
  /\ errs[i] # "nil"
  /\ Goto(i, "return", "release")
  /\ groupErr' = IF groupErr = 0 THEN i ELSE groupErr
  /\ cancelled' = TRUE
  /\ UNCHANGED <<spawned, errs, logs, closed, mu, finished, next, stopped, w,
                 bin, result>>

GroupOK(i) ==
  /\ errs[i] = "nil"
  /\ Goto(i, "return", "release")
  /\ UNCHANGED <<spawned, errs, logs, closed, cancelled, groupErr, mu,
                 finished, next, stopped, w, bin, result>>

ReleaseSlot(i) ==
  /\ Goto(i, "release", "exited")
  /\ UNCHANGED <<spawned, errs, logs, closed, cancelled, groupErr, mu,
                 finished, next, stopped, w, bin, result>>

(***************************************************************************)
(* g.Wait, then the lowest-numbered failure that is not a cancellation.    *)
(***************************************************************************)
LowestOwnFailure ==
  CHOOSE i \in Job : OwnFailure(i) /\ \A j \in Job : OwnFailure(j) => i <= j

Return ==
  /\ result = NoResult
  /\ spawned = N
  /\ \A i \in Job : pc[i] = "exited"
  /\ result' =
       IF \E i \in Job : OwnFailure(i)
       THEN [kind |-> "own", job |-> LowestOwnFailure]
       ELSE IF groupErr # 0 THEN [kind |-> errs[groupErr], job |-> groupErr]
       ELSE [kind |-> "nil", job |-> 0]
  /\ UNCHANGED <<spawned, pc, errs, logs, closed, cancelled, groupErr, mu,
                 finished, next, stopped, w, bin>>

\* runLinkJobs has returned: nothing is left to do.
Done == result # NoResult /\ UNCHANGED vars

Step(i) ==
  \/ AwaitDone(i) \/ AwaitCancelled(i) \/ CheckContext(i)
  \/ CompileMain(i) \/ StartLinker(i) \/ LinkerSucceeds(i) \/ LinkerFails(i)
  \/ FlushBegin(i) \/ PrintNext(i) \/ FlushEnd(i) \/ CloseDone(i)
  \/ GroupError(i) \/ GroupOK(i) \/ ReleaseSlot(i)

Next == Spawn \/ (\E i \in Job : Step(i)) \/ Return \/ Done

(***************************************************************************)
(* The Go scheduler runs every goroutine that can run, and the compiler    *)
(* and the linker end by themselves.  A goroutine takes mu once, so weak   *)
(* fairness is enough for the one that waits for it.                       *)
(***************************************************************************)
Fairness ==
  /\ WF_vars(Spawn)
  /\ WF_vars(Return)
  /\ \A i \in Job : WF_vars(Step(i))

Spec == Init /\ [][Next]_vars

FairSpec == Spec /\ Fairness
-----------------------------------------------------------------------------
(***************************************************************************)
(* Properties                                                              *)
(***************************************************************************)

\* The variables hold values of their types.
TypeOK ==
  /\ spawned \in 0..N
  /\ pc \in [Job -> PC]
  /\ errs \in [Job -> {"nil", "own", "canceled"}]
  /\ logs \in [Job -> Seq(Job)]
  /\ closed \subseteq Job
  /\ cancelled \in BOOLEAN
  /\ groupErr \in 0..N
  /\ mu \in 0..N
  /\ finished \subseteq Job
  /\ next \in 1..(N + 1)
  /\ stopped \in BOOLEAN
  /\ w \in Seq(Job)
  /\ bin \in [Names -> 0..N]
  /\ result \in [kind : {"none", "nil", "own", "canceled"}, job : 0..N]

\* "The logs reach w in index order whatever order the binaries finish in":
\* for every interleaving, and also when the logs are not buffered.
LogInIndexOrder ==
  \A a, b \in 1..Len(w) : a <= b => w[a] <= w[b]

\* "No log is printed past it": nothing in w comes from a binary listed after
\* one that failed for a reason of its own, whenever that one failed.
NoLogPastFailure ==
  \A a \in 1..Len(w) : \A j \in Job : j < w[a] => ~OwnFailure(j)

\* "Each as soon as every binary before it is done": when no goroutine is
\* printing, the next log in line is one that is not complete yet, so no
\* finished log is held back by another goroutine's flush.
NoLogHeldBack ==
  mu = 0 => ~CanPrint

\* A cancellation never hides what caused it: if the context is cancelled or
\* a binary was given up, some binary failed for a reason of its own.
CancelHasACause ==
  (cancelled \/ \E i \in Job : errs[i] = "canceled") => \E i \in Job : OwnFailure(i)

\* Binaries with the same name share bin/name: never two of them are inside
\* linkOne together.
SameNameExclusive ==
  \A i, j \in Job :
    i # j /\ BinName[i] = BinName[j] => ~(pc[i] \in Running /\ pc[j] \in Running)

\* A binary that comes after one that failed or was cancelled does not run,
\* even before the failure has cancelled the context.
NoRunAfterFailedPredecessor ==
  \A i \in Job :
    After(i) # 0 /\ errs[After(i)] # "nil" => pc[i] \notin Running /\ errs[i] # "own"

\* The error returned and the log agree: with an error, the log ends with the
\* binary whose error it is; without one every binary's log is printed. The
\* error is never a bare cancellation.
ResultMatchesLog ==
  result # NoResult =>
    \/ result.kind = "own" /\ stopped /\ next = result.job + 1
    \/ result.kind = "nil" /\ ~stopped /\ next = N + 1

\* When runLinkJobs returns nil, bin/ holds under every name the binary
\* listed last under that name, completely linked.
LastListedWins ==
  result.kind = "nil" =>
    \A n \in Names :
      /\ bin[n] # 0
      /\ BinName[bin[n]] = n
      /\ \A i \in Job : BinName[i] = n => i <= bin[n]

\* runLinkJobs returns, whatever fails, at every limit and for every chain of
\* binaries that wait for one another.
Termination == <>(result # NoResult)
=============================================================================
