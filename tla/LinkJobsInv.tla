---------------------------- MODULE LinkJobsInv -----------------------------
(***************************************************************************)
(* The inductive invariant of LinkJobs and the promise LinkJobs is shown   *)
(* to keep.  TLC checks both on small instances; LinkJobs_proofs proves    *)
(* them for every number of binaries, every limit and every naming.        *)
(***************************************************************************)
EXTENDS LinkJobs

Promise == INSTANCE OrderedLog WITH
  log <- w, current <- next, halted <- stopped, verdict <- result

\* runLinkJobs implements its promise: a log in list order that ends with the
\* first binary that failed, which is also the error it returns.
ImplementsOrderedLog == Promise!Spec

Before == {"unborn", "await", "check"}
Printed == {"close", "return", "release", "exited"}

\* Goroutines are started in list order.
SpawnOrder == \A i \in Job : pc[i] = "unborn" <=> i > spawned

\* What each shared variable says of the goroutines' positions.
Bookkeeping ==
  /\ \A i \in Job : pc[i] \in Before \cup Running => errs[i] = "nil"
  /\ \A i \in Job : i \in finished <=> pc[i] \in {"print"} \cup Printed
  /\ \A i \in Job : i \in closed <=> pc[i] \in Printed \ {"close"}
  /\ \A i \in Job : pc[i] = "print" <=> mu = i

\* Every log before next is complete, and only the last printed one can be
\* that of a failure; nothing printable waits while mu is free.
Cursor ==
  /\ \A j \in Job : j < next => j \in finished
  /\ \A j \in Job : j < next /\ OwnFailure(j) => stopped /\ j = next - 1
  /\ stopped => next > 1 /\ OwnFailure(next - 1)
  /\ NoLogHeldBack

\* The group is cancelled by the time a failed goroutine gives up its slot.
Cancelling ==
  /\ \A i \in Job : pc[i] \in {"release", "exited"} /\ errs[i] # "nil" => cancelled
  /\ cancelled <=> groupErr # 0
  /\ groupErr # 0 => errs[groupErr] # "nil"
  /\ CancelHasACause

\* Without buffers one goroutine exists at a time, and the one that may write
\* to w is the one whose log is next in line.
OneAtATime ==
  Unbuffered =>
    /\ \A i, j \in Active : i = j
    /\ \A i \in Job : pc[i] \in Running => i = next /\ ~stopped

\* The lines a log holds are those of its binary; w holds only lines up to
\* the one in line, in order.
Lines ==
  /\ \A i \in Job : \A a \in 1..Len(logs[i]) : logs[i][a] = i
  /\ Unbuffered => \A i \in Job : logs[i] = <<>>
  /\ \A a \in 1..Len(w) : w[a] <= next /\ (stopped \/ ~Unbuffered => w[a] < next)
  /\ LogInIndexOrder

\* Binary i has passed the checks on its predecessor and on the context.
Admitted(i) ==
  \/ pc[i] = "check" /\ ~cancelled
  \/ pc[i] \in Running
  \/ pc[i] \notin Before \cup Running /\ errs[i] # "canceled"

\* A binary is admitted only after all of its name before it were built.
Chain ==
  \A i \in Job : Admitted(i) =>
    \A j \in SameNameBefore(i) : j \in closed /\ errs[j] = "nil"

LastNamed(i) == \A j \in Job : BinName[j] = BinName[i] => j <= i

\* What the last binary of a name linked stays in bin/.
Output ==
  \A i \in Job :
    pc[i] \notin Before \cup Running /\ errs[i] = "nil" /\ LastNamed(i)
      => bin[BinName[i]] = i

Outcome ==
  /\ result # NoResult => spawned = N /\ \A i \in Job : pc[i] = "exited"
  /\ result.kind = "nil" => \A i \in Job : errs[i] = "nil"
  /\ ResultMatchesLog

\* The inductive invariant: the code keeps its shared variables and its
\* goroutines' positions in step.
IInv ==
  /\ TypeOK
  /\ SpawnOrder
  /\ Bookkeeping
  /\ Cursor
  /\ Cancelling
  /\ OneAtATime
  /\ Lines
  /\ Chain
  /\ Output
  /\ Outcome
=============================================================================
