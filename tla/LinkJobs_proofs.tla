-------------------------- MODULE LinkJobs_proofs --------------------------
(***************************************************************************)
(* Proofs about LinkJobs, for every number of binaries, every limit and    *)
(* every naming of the binaries.                                           *)
(***************************************************************************)
EXTENDS LinkJobsInv, FiniteSetTheorems, WellFoundedInduction, TLAPS

-----------------------------------------------------------------------------
(***************************************************************************)
(* The chain of binaries with the same name.                               *)
(***************************************************************************)
\* A non-empty set of binaries has a last one in the list.
LEMMA LastExists ==
  ASSUME NEW S, S \subseteq Job, S # {}
  PROVE  \E j \in S : \A k \in S : k <= j
<1> DEFINE R == OpToRel(<, Nat)
           T == {N - j : j \in S}
<1>1. IsWellFoundedOn(R, Nat) BY NatLessThanWellFounded
<1>0. \A j \in S : N - j \in Nat
  BY NAssumption DEF Job
<1>2. T \subseteq Nat /\ T # {}
  BY <1>0
<1> HIDE DEF R
<1>3. PICK x \in T : \A y \in T : ~(<<y, x>> \in R)
  BY <1>1, <1>2, WFMin
<1>4. \A y \in T : ~(y < x)
  BY <1>2, <1>3 DEF R, OpToRel
<1>5. PICK j \in S : x = N - j
  OBVIOUS
<1>6. ASSUME NEW k \in S PROVE k <= j
  <2>1. ~(N - k < x)
    BY <1>4
  <2> QED
    BY <2>1, <1>5, NAssumption DEF Job
<1> QED BY <1>6

\* after[i] is a binary of the same name, and following it reaches all the
\* earlier binaries of that name.
LEMMA AfterIsLast ==
  ASSUME NEW i \in Job
  PROVE  /\ After(i) = 0 => SameNameBefore(i) = {}
         /\ After(i) # 0 =>
              /\ After(i) \in SameNameBefore(i)
              /\ SameNameBefore(i) = SameNameBefore(After(i)) \cup {After(i)}
<1>1. SameNameBefore(i) \subseteq Job
  BY DEF SameNameBefore
<1>2. CASE SameNameBefore(i) = {}
  BY <1>2 DEF After
<1>3. CASE SameNameBefore(i) # {}
  <2>1. \E j \in SameNameBefore(i) : \A k \in SameNameBefore(i) : k <= j
    BY <1>1, <1>3, LastExists
  <2>2. /\ After(i) \in SameNameBefore(i)
        /\ \A k \in SameNameBefore(i) : k <= After(i)
    BY <1>3, <2>1 DEF After
  <2> QED
    BY <2>2, NAssumption DEF SameNameBefore, Job
<1> QED BY <1>2, <1>3

USE NAssumption, LimitAssumption, BinNameAssumption
USE DEF Job, PC, Holding, Running, Deferred, Before, Printed

-----------------------------------------------------------------------------
(***************************************************************************)
(* What the actions have in common.                                        *)
(***************************************************************************)
\* A goroutine that gives up disturbs no part of the invariant, provided a
\* cancellation has a cause and a failure of its own comes after admission.
LEMMA GivingUp ==
  ASSUME IInv, NEW i \in Job, NEW e \in {"own", "canceled"},
         NEW from \in {"await", "check", "compile", "link", "linker"},
         Fail(i, from, e),
         e = "canceled" => \E j \in Job : OwnFailure(j),
         e = "own" => Admitted(i),
         UNCHANGED <<spawned, closed, cancelled, groupErr, mu, finished, next,
                     stopped, bin, result>>
  PROVE  /\ SpawnOrder' /\ Bookkeeping' /\ Cursor' /\ Cancelling'
         /\ OneAtATime' /\ Chain' /\ Output' /\ Outcome'
<1> USE DEF IInv, Fail, Goto
<1>0. /\ i \notin finished /\ i \notin closed /\ errs[i] = "nil" /\ mu # i
      /\ result = NoResult
      /\ pc'[i] = "flush" /\ errs'[i] = e
      /\ \A j \in Job : j # i => pc'[j] = pc[j] /\ errs'[j] = errs[j]
      /\ next \in 1..(N + 1)
  BY DEF TypeOK, Bookkeeping, Outcome
<1>1. SpawnOrder'
  BY DEF SpawnOrder, TypeOK
<1>2. Bookkeeping'
  BY DEF Bookkeeping, TypeOK
<1>3. Cursor'
  <2>1. \A j \in Job : j < next => j # i
    BY <1>0 DEF Cursor
  <2>2. \A j \in Job : j < next /\ OwnFailure(j)' => stopped /\ j = next - 1
    BY <1>0, <2>1 DEF Cursor, OwnFailure
  <2>3. stopped => next > 1 /\ OwnFailure(next - 1)'
    BY <1>0, <2>1 DEF Cursor, OwnFailure
  <2>4. NoLogHeldBack'
    BY DEF Cursor, NoLogHeldBack, CanPrint
  <2> QED
    BY <2>2, <2>3, <2>4 DEF Cursor, OwnFailure
<1>4. Cancelling'
  BY DEF Cancelling, TypeOK, Bookkeeping, CancelHasACause, OwnFailure
<1>5. OneAtATime'
  BY DEF OneAtATime, Active, TypeOK, Bookkeeping
<1>6. Chain'
  <2>1. \A j \in Job : Admitted(j)' => Admitted(j)
    BY <1>0 DEF Admitted
  <2>2. \A j \in Job : \A k \in SameNameBefore(j) : k \in closed => k # i /\ errs'[k] = errs[k]
    BY <1>0 DEF SameNameBefore
  <2> QED
    BY <2>1, <2>2 DEF Chain, SameNameBefore
<1>7. Output'
  BY DEF Output, LastNamed, TypeOK, Names, Bookkeeping
<1>8. Outcome'
  BY <1>0 DEF Outcome, ResultMatchesLog, NoResult
<1> QED BY <1>1, <1>2, <1>3, <1>4, <1>5, <1>6, <1>7, <1>8

\* A goroutine that goes on inside its function disturbs no part of the
\* invariant, provided it enters linkOne admitted and, without buffers, when
\* its log is in line.
LEMMA GoingOn ==
  ASSUME IInv, NEW i \in Job,
         NEW from \in {"await", "check", "compile", "link"},
         NEW to \in {"check", "compile", "link", "linker"},
         Goto(i, from, to),
         to = "check" /\ ~cancelled =>
           \A j \in SameNameBefore(i) : j \in closed /\ errs[j] = "nil",
         to # "check" => Admitted(i) /\ (Unbuffered => i = next /\ ~stopped),
         UNCHANGED <<spawned, errs, closed, cancelled, groupErr, mu, finished,
                     next, stopped, result>>
  PROVE  /\ SpawnOrder' /\ Bookkeeping' /\ Cursor' /\ Cancelling'
         /\ OneAtATime' /\ Chain' /\ Outcome'
<1> USE DEF IInv, Goto
<1>1. SpawnOrder'
  BY DEF SpawnOrder, TypeOK
<1>2. Bookkeeping'
  BY DEF Bookkeeping, TypeOK
<1>3. Cursor'
  BY DEF Cursor, TypeOK, Bookkeeping, NoLogHeldBack, CanPrint, OwnFailure
<1>4. Cancelling'
  BY DEF Cancelling, TypeOK, Bookkeeping, CancelHasACause, OwnFailure
<1>5. OneAtATime'
  <2>1. Active' = Active
    BY DEF Active, TypeOK
  <2>2. \A j \in Job : pc'[j] \in Running => j = i \/ pc[j] \in Running
    BY DEF TypeOK
  <2>3. CASE to = "check"
    BY <2>1, <2>2, <2>3 DEF OneAtATime, TypeOK, Unbuffered
  <2>4. CASE to # "check"
    BY <2>1, <2>2, <2>4 DEF OneAtATime, Unbuffered
  <2> QED BY <2>3, <2>4
<1>6. Chain'
  BY DEF Chain, Admitted, TypeOK, Bookkeeping, SameNameBefore
<1>7. Outcome'
  BY DEF Outcome, ResultMatchesLog, TypeOK, NoResult, Cursor, Bookkeeping
<1> QED BY <1>1, <1>2, <1>3, <1>4, <1>5, <1>6, <1>7

\* A line written inside linkOne keeps the logs and w as they should be.
LEMMA Logging ==
  ASSUME IInv, NEW i \in Job, pc[i] \in Running, Log(i),
         UNCHANGED <<next, stopped>>
  PROVE  /\ logs' \in [Job -> Seq(Job)] /\ w' \in Seq(Job)
         /\ Lines'
<1> USE DEF IInv
<1>1. CASE Unbuffered
  <2>1. i = next /\ ~stopped
    BY <1>1 DEF OneAtATime
  <2>2. w' = Append(w, i) /\ logs' = logs
    BY <1>1 DEF Log
  <2>3. w \in Seq(Job) /\ logs \in [Job -> Seq(Job)] /\ next \in 1..(N+1)
    BY DEF TypeOK
  <2>4. w' \in Seq(Job) /\ Len(w') = Len(w) + 1
        /\ \A a \in 1..Len(w') : w'[a] = IF a <= Len(w) THEN w[a] ELSE i
    BY <2>2, <2>3
  <2>5. \A a \in 1..Len(w) : w[a] <= next /\ w[a] \in Job
    BY <2>3 DEF Lines
  <2>6. \A a \in 1..Len(w') : w'[a] <= next
    <3>1. ASSUME NEW a \in 1..Len(w') PROVE w'[a] <= next
      <4>1. CASE a <= Len(w)
        <5>1. a \in 1..Len(w) /\ w'[a] = w[a]
          BY <2>3, <2>4, <4>1
        <5> QED BY <2>5, <5>1
      <4>2. CASE ~(a <= Len(w))
        BY <2>1, <2>3, <2>4, <3>1, <4>2
      <4> QED BY <4>1, <4>2
    <3> QED BY <3>1
  <2>7. LogInIndexOrder'
    <3>1. ASSUME NEW a \in 1..Len(w'), NEW b \in 1..Len(w'), a <= b
          PROVE  w'[a] <= w'[b]
      <4>1. CASE b <= Len(w)
        <5>1. w'[a] = w[a] /\ w'[b] = w[b] /\ a \in 1..Len(w) /\ b \in 1..Len(w)
          BY <2>3, <2>4, <3>1, <4>1
        <5> QED
          BY <3>1, <5>1 DEF Lines, LogInIndexOrder
      <4>2. CASE ~(b <= Len(w))
        <5>1. w'[b] = next
          BY <2>1, <2>4, <4>2
        <5> QED
          BY <2>6, <5>1
      <4> QED BY <4>1, <4>2
    <3> QED BY <3>1 DEF LogInIndexOrder
  <2> QED
    BY <1>1, <2>1, <2>2, <2>3, <2>4, <2>6, <2>7 DEF Lines
<1>2. CASE ~Unbuffered
  <2>1. logs' = [logs EXCEPT ![i] = Append(@, i)] /\ w' = w
    BY <1>2 DEF Log
  <2>2. logs[i] \in Seq(Job) /\ w \in Seq(Job) /\ logs \in [Job -> Seq(Job)]
    BY DEF TypeOK
  <2>3. logs' \in [Job -> Seq(Job)]
    BY <2>1, <2>2
  <2>4. \A j \in Job : \A a \in 1..Len(logs'[j]) : logs'[j][a] = j
    BY <2>1, <2>2 DEF Lines
  <2> QED
    BY <1>2, <2>1, <2>2, <2>3, <2>4 DEF Lines, LogInIndexOrder
<1> QED BY <1>1, <1>2

-----------------------------------------------------------------------------
(***************************************************************************)
(* Each action preserves the invariant.                                    *)
(***************************************************************************)
\* Starting a goroutine (g.Go) preserves the invariant; with one slot no other
\* goroutine exists then.
LEMMA SpawnStep == ASSUME IInv, Spawn PROVE IInv'
<1> USE DEF IInv, Spawn, Goto
<1>1. TypeOK'
  BY DEF TypeOK, NoResult
<1>2. SpawnOrder'
  BY DEF SpawnOrder, TypeOK
<1>3. Bookkeeping'
  BY DEF Bookkeeping, TypeOK
<1>4. Cursor'
  BY DEF Cursor, TypeOK, Bookkeeping, NoLogHeldBack, CanPrint, OwnFailure
<1>5. Cancelling'
  BY DEF Cancelling, TypeOK, Bookkeeping, CancelHasACause, OwnFailure
<1>6. OneAtATime'
  <2>1. IsFiniteSet(Active)
    <3>1. IsFiniteSet(1..N) /\ Active \in SUBSET (1..N)
      BY FS_Interval DEF Active
    <3> QED BY <3>1, FS_Subset
  <2>2. CASE N = 1
    BY <2>2 DEF OneAtATime, Active, TypeOK
  <2>3. CASE Limit = 1
    <3>1. Cardinality(Active) = 0
      BY <2>1, <2>3, FS_CardinalityType
    <3>2. Active = {}
      BY <2>1, <3>1, FS_EmptySet
    <3> QED
      BY <3>2 DEF OneAtATime, Active, TypeOK
  <2> QED BY <2>2, <2>3 DEF OneAtATime, Unbuffered
<1>7. Lines'
  BY DEF Lines, TypeOK, LogInIndexOrder, OneAtATime
<1>8. Chain'
  BY DEF Chain, Admitted, TypeOK, Bookkeeping, SameNameBefore
<1>9. Output'
  BY DEF Output, LastNamed, TypeOK, Names, Bookkeeping
<1>10. Outcome'
  BY DEF Outcome, ResultMatchesLog, TypeOK, NoResult, Cursor, Bookkeeping
<1> QED BY <1>1, <1>2, <1>3, <1>4, <1>5, <1>6, <1>7, <1>8, <1>9, <1>10

\* The select's done[after[i]] branch preserves the invariant: a binary goes on
\* only after all of its name before it were built.
LEMMA AwaitDoneStep == ASSUME IInv, NEW i \in Job, AwaitDone(i) PROVE IInv'
<1> USE DEF IInv, AwaitDone
<1>1. After(i) \in {0} \cup Job
  BY AfterIsLast DEF SameNameBefore
<1>2. CASE After(i) # 0 /\ errs[After(i)] # "nil"
  <2>1. \E j \in Job : OwnFailure(j)
    BY <1>1, <1>2 DEF TypeOK, Cancelling, CancelHasACause, OwnFailure
  <2>2. Fail(i, "await", "canceled")
    BY <1>2
  <2>3. TypeOK' /\ Lines'
    BY <2>2 DEF Fail, Goto, TypeOK, Lines, LogInIndexOrder
  <2> QED
    BY <2>1, <2>2, <2>3, GivingUp
<1>3. CASE ~(After(i) # 0 /\ errs[After(i)] # "nil")
  <2>1. Goto(i, "await", "check") /\ UNCHANGED errs
    BY <1>3
  <2>2. \A j \in SameNameBefore(i) : j \in closed /\ errs[j] = "nil"
    <3>1. CASE After(i) = 0
      BY <3>1, AfterIsLast
    <3>2. CASE After(i) # 0
      <4>1. After(i) \in closed /\ errs[After(i)] = "nil" /\ After(i) \in Job
        BY <1>1, <1>3, <3>2
      <4>2. Admitted(After(i))
        BY <4>1 DEF Bookkeeping, Admitted
      <4> QED
        BY <3>2, <4>1, <4>2, AfterIsLast DEF Chain
    <3> QED BY <3>1, <3>2
  <2>3. TypeOK' /\ Lines' /\ Output'
    BY <2>1 DEF Goto, TypeOK, Lines, LogInIndexOrder, Output, LastNamed
  <2> QED
    BY <2>1, <2>2, <2>3, GoingOn
<1> QED BY <1>2, <1>3

\* The select's gctx.Done() branch preserves the invariant.
LEMMA AwaitCancelledStep == ASSUME IInv, NEW i \in Job, AwaitCancelled(i) PROVE IInv'
<1> USE DEF IInv, AwaitCancelled, Goto
<1>1. TypeOK'
  BY DEF TypeOK, NoResult
<1>2. SpawnOrder'
  BY DEF SpawnOrder, TypeOK
<1>3. Bookkeeping'
  BY DEF Bookkeeping, TypeOK
<1>4. Cursor'
  BY DEF Cursor, TypeOK, Bookkeeping, NoLogHeldBack, CanPrint, OwnFailure
<1>5. Cancelling'
  BY DEF Cancelling, TypeOK, Bookkeeping, CancelHasACause, OwnFailure
<1>6. OneAtATime'
  BY DEF OneAtATime, Active, TypeOK, Bookkeeping
<1>7. Lines'
  BY DEF Lines, TypeOK, LogInIndexOrder, OneAtATime
<1>8. Chain'
  BY DEF Chain, Admitted, TypeOK, Bookkeeping, SameNameBefore
<1>9. Output'
  BY DEF Output, LastNamed, TypeOK
<1>10. Outcome'
  BY DEF Outcome, ResultMatchesLog, TypeOK, NoResult, Cursor, Bookkeeping
<1> QED BY <1>1, <1>2, <1>3, <1>4, <1>5, <1>6, <1>7, <1>8, <1>9, <1>10

\* Reading gctx.Err() preserves the invariant: what passes is admitted and,
\* without buffers, next in line.
LEMMA CheckContextStep == ASSUME IInv, NEW i \in Job, CheckContext(i) PROVE IInv'
<1> USE DEF IInv, CheckContext
<1>1. ASSUME NEW e \in {"own", "canceled"}, Fail(i, "check", e)
      PROVE  TypeOK' /\ Lines'
  BY <1>1 DEF Fail, Goto, TypeOK, Lines, LogInIndexOrder
<1>2. CASE cancelled
  <2>1. Fail(i, "check", "canceled") /\ \E j \in Job : OwnFailure(j)
    BY <1>2 DEF Cancelling, CancelHasACause
  <2> QED
    BY <2>1, <1>1, GivingUp
<1>3. CASE ~cancelled /\ Fail(i, "check", "own")
  <2>1. Admitted(i)
    BY <1>3 DEF Fail, Goto, Admitted
  <2> QED
    BY <1>3, <2>1, <1>1, GivingUp
<1>4. CASE ~cancelled /\ Goto(i, "check", "compile") /\ UNCHANGED errs
  <2>1. Admitted(i)
    BY <1>4 DEF Goto, Admitted
  <2>2. ASSUME Unbuffered PROVE i = next /\ ~stopped
    <3>1. \A j \in Job : j # i => pc[j] \in {"unborn", "exited"}
      BY <1>4, <2>2 DEF OneAtATime, Active, Goto, TypeOK
    <3>2. \A j \in Job : j < i => j \in finished
      BY <1>4, <3>1 DEF SpawnOrder, Bookkeeping, Goto, TypeOK
    <3>3. mu = 0 /\ i \notin finished /\ next \in 1..(N + 1)
      <4>1. \A j \in Job : pc[j] # "print"
        BY <1>4, <3>1 DEF Goto
      <4> QED
        <5>1. mu # 0 => mu \in Job
          BY DEF TypeOK
        <5>2. mu # 0 => pc[mu] = "print"
          BY <5>1 DEF Bookkeeping
        <5>3. i \notin finished
          BY <1>4 DEF Bookkeeping, Goto
        <5> QED
          BY <4>1, <5>1, <5>2, <5>3 DEF TypeOK
    <3>4. ~stopped
      <4>1. SUFFICES ASSUME stopped PROVE FALSE
        OBVIOUS
      <4>2. next - 1 \in Job /\ OwnFailure(next - 1)
        BY <3>3, <4>1 DEF Cursor
      <4>3. pc[next - 1] = "exited"
        BY <1>4, <3>1, <4>2 DEF Bookkeeping, OwnFailure, Goto
      <4> QED
        BY <1>4, <4>2, <4>3 DEF Cancelling, OwnFailure
    <3> QED
      BY <3>2, <3>3, <3>4 DEF Cursor, NoLogHeldBack, CanPrint
  <2>3. TypeOK' /\ Lines' /\ Output'
    BY <1>4 DEF Goto, TypeOK, Lines, LogInIndexOrder, Output, LastNamed
  <2> QED
    BY <1>4, <2>1, <2>2, <2>3, GoingOn
<1> QED BY <1>2, <1>3, <1>4

\* Compiling the main package preserves the invariant.
LEMMA CompileMainStep == ASSUME IInv, NEW i \in Job, CompileMain(i) PROVE IInv'
<1> USE DEF IInv, CompileMain
<1>1. pc[i] = "compile" /\ Admitted(i)
  BY DEF Fail, Goto, Admitted
<1>2. logs' \in [Job -> Seq(Job)] /\ w' \in Seq(Job) /\ Lines'
  BY <1>1, Logging
<1>3. TypeOK'
  BY <1>2 DEF Fail, Goto, TypeOK
<1>4. CASE Fail(i, "compile", "own")
  BY <1>1, <1>2, <1>3, <1>4, GivingUp
<1>5. CASE Goto(i, "compile", "link") /\ UNCHANGED errs
  <2>1. Unbuffered => i = next /\ ~stopped
    BY <1>1 DEF OneAtATime
  <2>2. Output'
    BY <1>5 DEF Goto, TypeOK, Output, LastNamed
  <2> QED
    BY <1>1, <1>2, <1>3, <1>5, <2>1, <2>2, GoingOn
<1> QED BY <1>4, <1>5

\* Starting the linker, which truncates bin/name, preserves the invariant.
LEMMA StartLinkerStep == ASSUME IInv, NEW i \in Job, StartLinker(i) PROVE IInv'
<1> USE DEF IInv, StartLinker
<1>0. Log(i) /\ UNCHANGED <<spawned, closed, cancelled, groupErr, mu, finished,
                            next, stopped, result>>
  OBVIOUS
<1>1. pc[i] = "link" /\ Admitted(i)
  BY DEF Fail, Goto, Admitted
<1>2. logs' \in [Job -> Seq(Job)] /\ w' \in Seq(Job) /\ Lines'
  BY <1>1, Logging
<1>3. TypeOK'
  <2>1. pc' \in [Job -> PC] /\ errs' \in [Job -> {"nil", "own", "canceled"}]
    BY DEF Fail, Goto, TypeOK
  <2>2. bin' \in [Names -> 0..N]
    <3>1. bin \in [Names -> 0..N] /\ 0 \in 0..N
      BY DEF TypeOK
    <3>2. bin' = bin \/ bin' = [bin EXCEPT ![BinName[i]] = 0]
      OBVIOUS
    <3> HIDE DEF IInv, StartLinker
    <3> QED
      BY <3>1, <3>2
  <2> QED
    BY <1>0, <1>2, <2>1, <2>2 DEF TypeOK
<1>4. CASE cancelled
  <2>1. Fail(i, "link", "canceled") /\ \E j \in Job : OwnFailure(j)
    BY <1>4 DEF Cancelling, CancelHasACause
  <2> QED
    BY <1>2, <1>3, <1>4, <2>1, GivingUp
<1>5. CASE ~cancelled
  <2>1. Goto(i, "link", "linker") /\ UNCHANGED errs
        /\ bin' = [bin EXCEPT ![BinName[i]] = 0]
    BY <1>5
  <2>2. Unbuffered => i = next /\ ~stopped
    BY <1>1 DEF OneAtATime
  <2>3. Output'
    <3>1. SUFFICES ASSUME NEW j \in Job, pc'[j] \notin Before \cup Running,
                          errs[j] = "nil", LastNamed(j)
                   PROVE  bin'[BinName[j]] = j
      BY <2>1 DEF Output, LastNamed
    <3>2. j # i /\ pc[j] = pc'[j] /\ bin[BinName[j]] = j
      BY <2>1, <3>1 DEF Goto, TypeOK, Output
    <3>3. BinName[j] # BinName[i]
      <4>1. SUFFICES ASSUME BinName[j] = BinName[i] PROVE FALSE
        OBVIOUS
      <4>2. i \in SameNameBefore(j) /\ Admitted(j)
        BY <3>1, <3>2, <4>1 DEF LastNamed, SameNameBefore, Admitted
      <4> QED
        BY <1>1, <4>2 DEF Chain, Bookkeeping
    <3> QED
      BY <2>1, <3>2, <3>3 DEF TypeOK, Names
  <2> QED
    BY <1>1, <1>2, <1>3, <2>1, <2>2, <2>3, GoingOn
<1> QED BY <1>4, <1>5

\* A successful link preserves the invariant: no later binary of the name has
\* written bin/name.
LEMMA LinkerSucceedsStep == ASSUME IInv, NEW i \in Job, LinkerSucceeds(i) PROVE IInv'
<1> USE DEF IInv, LinkerSucceeds, Goto
<1>1. TypeOK'
  BY DEF TypeOK, Names
<1>2. SpawnOrder'
  BY DEF SpawnOrder, TypeOK
<1>3. Bookkeeping'
  BY DEF Bookkeeping, TypeOK
<1>4. Cursor'
  BY DEF Cursor, TypeOK, Bookkeeping, NoLogHeldBack, CanPrint, OwnFailure
<1>5. Cancelling'
  BY DEF Cancelling, TypeOK, Bookkeeping, CancelHasACause, OwnFailure
<1>6. OneAtATime'
  BY DEF OneAtATime, Active, TypeOK, Bookkeeping
<1>7. Lines'
  BY DEF Lines, TypeOK, LogInIndexOrder, OneAtATime
<1>8. Chain'
  BY DEF Chain, Admitted, TypeOK, Bookkeeping, SameNameBefore
<1>9. Output'
  <2>1. SUFFICES ASSUME NEW j \in Job, pc'[j] \notin Before \cup Running,
                        errs[j] = "nil", LastNamed(j)
                 PROVE  bin'[BinName[j]] = j
    BY DEF Output, LastNamed
  <2>2. CASE j = i
    BY <2>2 DEF TypeOK, Names
  <2>3. CASE j # i
    <3>1. pc[j] = pc'[j] /\ bin[BinName[j]] = j
      BY <2>1, <2>3 DEF TypeOK, Output
    <3>2. BinName[j] # BinName[i]
      <4>1. SUFFICES ASSUME BinName[j] = BinName[i] PROVE FALSE
        OBVIOUS
      <4>2. i \in SameNameBefore(j) /\ Admitted(j)
        BY <2>1, <2>3, <3>1, <4>1 DEF LastNamed, SameNameBefore, Admitted
      <4> QED
        BY <4>2 DEF Chain, Bookkeeping
    <3> QED
      BY <3>1, <3>2 DEF TypeOK, Names
  <2> QED BY <2>2, <2>3
<1>10. Outcome'
  BY DEF Outcome, ResultMatchesLog, TypeOK, NoResult, Cursor, Bookkeeping
<1> QED BY <1>1, <1>2, <1>3, <1>4, <1>5, <1>6, <1>7, <1>8, <1>9, <1>10

\* A failed or killed link preserves the invariant.
LEMMA LinkerFailsStep == ASSUME IInv, NEW i \in Job, LinkerFails(i) PROVE IInv'
<1> USE DEF IInv, LinkerFails
<1> DEFINE e == IF cancelled THEN "canceled" ELSE "own"
<1>1. Fail(i, "linker", e) /\ e \in {"own", "canceled"}
  OBVIOUS
<1>2. e = "canceled" => \E j \in Job : OwnFailure(j)
  BY DEF Cancelling, CancelHasACause
<1>3. e = "own" => Admitted(i)
  BY DEF Fail, Goto, Admitted
<1>4. TypeOK' /\ Lines'
  BY <1>1 DEF Fail, Goto, TypeOK, Lines, LogInIndexOrder
<1> HIDE DEF e
<1> QED
  BY <1>1, <1>2, <1>3, <1>4, GivingUp

\* Taking mu in flush preserves the invariant.
LEMMA FlushBeginStep == ASSUME IInv, NEW i \in Job, FlushBegin(i) PROVE IInv'
<1> USE DEF IInv, FlushBegin, Goto
<1>1. TypeOK'
  BY DEF TypeOK, NoResult
<1>2. SpawnOrder'
  BY DEF SpawnOrder, TypeOK
<1>3. Bookkeeping'
  <2>1. /\ \A j \in Job : pc'[j] = IF j = i THEN "print" ELSE pc[j]
        /\ pc[i] = "flush" /\ mu' = i /\ mu = 0 /\ finished' = finished \cup {i}
        /\ errs' = errs /\ closed' = closed
    BY DEF TypeOK
  <2> QED
    BY ONLY <2>1, i \in Job, Bookkeeping DEF Bookkeeping
<1>4. Cursor'
  BY DEF Cursor, TypeOK, Bookkeeping, NoLogHeldBack, CanPrint, OwnFailure
<1>5. Cancelling'
  BY DEF Cancelling, TypeOK, Bookkeeping, CancelHasACause, OwnFailure
<1>6. OneAtATime'
  BY DEF OneAtATime, Active, TypeOK, Bookkeeping
<1>7. Lines'
  BY DEF Lines, TypeOK, LogInIndexOrder, OneAtATime
<1>8. Chain'
  BY DEF Chain, Admitted, TypeOK, Bookkeeping, SameNameBefore
<1>9. Output'
  BY DEF Output, LastNamed, TypeOK, Names, Bookkeeping
<1>10. Outcome'
  BY DEF Outcome, ResultMatchesLog, TypeOK, NoResult, Cursor, Bookkeeping
<1> QED BY <1>1, <1>2, <1>3, <1>4, <1>5, <1>6, <1>7, <1>8, <1>9, <1>10

\* Printing the log next in line preserves the invariant.
LEMMA PrintNextStep == ASSUME IInv, NEW i \in Job, PrintNext(i) PROVE IInv'
<1> USE DEF IInv, PrintNext
<1>1. /\ next \in Job /\ next \in finished /\ ~stopped /\ mu = i
      /\ w \in Seq(Job) /\ logs[next] \in Seq(Job)
  BY DEF CanPrint, TypeOK, Bookkeeping
<1>2. /\ w' \in Seq(Job) /\ Len(w') = Len(w) + Len(logs[next])
      /\ \A a \in 1..Len(w') :
           w'[a] = IF a <= Len(w) THEN w[a] ELSE logs[next][a - Len(w)]
  BY <1>1
<1>3. \A a \in 1..Len(w') : a > Len(w) => w'[a] = next
  <2>1. \A a \in 1..Len(logs[next]) : logs[next][a] = next
    BY <1>1 DEF Lines
  <2>2. ASSUME NEW a \in 1..Len(w'), a > Len(w)
        PROVE  a - Len(w) \in 1..Len(logs[next])
    BY <1>1, <1>2, <2>2
  <2> HIDE DEF PrintNext, IInv
  <2>3. ASSUME NEW a \in 1..Len(w'), a > Len(w) PROVE w'[a] = next
    <3>1. w'[a] = logs[next][a - Len(w)]
      BY <1>1, <1>2, <2>3
    <3> QED
      BY <2>1, <2>2, <2>3, <3>1
  <2> QED BY <2>3
<1>4. TypeOK'
  BY <1>1, <1>2 DEF TypeOK, OwnFailure
<1>5. SpawnOrder'
  BY <1>1 DEF SpawnOrder, TypeOK
<1>6. Bookkeeping'
  BY <1>1 DEF Bookkeeping, TypeOK
<1>7. Cursor'
  <2>1. \A j \in Job : j < next' => j \in finished
    BY <1>1 DEF Cursor, TypeOK
  <2>2. \A j \in Job : j < next' /\ OwnFailure(j)' => stopped' /\ j = next' - 1
    <3>1. next' = next + 1 /\ errs' = errs /\ (OwnFailure(next) => stopped')
      OBVIOUS
    <3>2. \A j \in Job : j < next => ~OwnFailure(j)
      BY <1>1 DEF Cursor
    <3>3. ASSUME NEW j \in Job, j < next', OwnFailure(j)'
          PROVE  stopped' /\ j = next' - 1
      <4>1. OwnFailure(j)
        BY <3>1, <3>3 DEF OwnFailure
      <4>2. j = next
        BY <1>1, <3>1, <3>2, <3>3, <4>1
      <4> QED
        BY <1>1, <3>1, <4>1, <4>2
    <3> QED BY <3>3
  <2>3. stopped' => next' > 1 /\ OwnFailure(next - 1)'
    BY <1>1 DEF Cursor, TypeOK, OwnFailure
  <2>4. NoLogHeldBack'
    BY <1>1 DEF NoLogHeldBack
  <2> QED
    BY <1>1, <2>1, <2>2, <2>4 DEF Cursor, OwnFailure, TypeOK
<1>8. Cancelling'
  BY <1>1 DEF Cancelling, TypeOK, Bookkeeping, CancelHasACause, OwnFailure
<1>9. OneAtATime'
  BY <1>1 DEF OneAtATime, Active, TypeOK, Bookkeeping
<1>10. Lines'
  <2>1. \A a \in 1..Len(w') : w'[a] < next'
    <3>1. next' = next + 1 /\ next \in Nat
      BY DEF TypeOK
    <3>2. ASSUME NEW a \in 1..Len(w') PROVE w'[a] <= next /\ w'[a] \in Nat
      <4>1. CASE a <= Len(w)
        <5>1. a \in 1..Len(w) /\ w'[a] = w[a] /\ w[a] \in Job
          BY <1>1, <1>2, <4>1
        <5> QED BY <5>1 DEF Lines
      <4>2. CASE ~(a <= Len(w))
        <5>1. a > Len(w)
          BY <1>1, <1>2, <4>2
        <5> QED
          BY ONLY <1>3, <3>1, <5>1, a \in 1..Len(w')
      <4> QED BY <4>1, <4>2
    <3> QED
      BY <3>1, <3>2
  <2>2. LogInIndexOrder'
    <3>1. ASSUME NEW a \in 1..Len(w'), NEW b \in 1..Len(w'), a <= b
          PROVE  w'[a] <= w'[b]
      <4>1. CASE b <= Len(w)
        <5>1. w'[a] = w[a] /\ w'[b] = w[b] /\ a \in 1..Len(w) /\ b \in 1..Len(w)
          BY <1>1, <1>2, <3>1, <4>1
        <5> QED
          BY <3>1, <5>1 DEF Lines, LogInIndexOrder
      <4>2. CASE ~(b <= Len(w))
        <5>1. b > Len(w)
          BY <1>1, <1>2, <4>2
        <5>2. w'[b] = next /\ next \in Nat
          BY ONLY <1>1, <1>3, <5>1, b \in 1..Len(w')
        <5>3. w'[a] < next + 1
          BY <2>1
        <5>4. w'[a] \in Nat
          <6>1. w' \in Seq(1..N)
            BY <1>2
          <6> QED
            BY ONLY <6>1, a \in 1..Len(w'), NAssumption
        <5> QED
          BY <5>2, <5>3, <5>4
      <4> QED BY <4>1, <4>2
    <3> QED BY <3>1 DEF LogInIndexOrder
  <2>3. \A a \in 1..Len(w') : w'[a] \in Nat /\ w'[a] <= next'
    <3>1. \A a \in 1..Len(w') : w'[a] \in Nat
      <4>1. w' \in Seq(1..N)
        BY <1>2
      <4> QED
        BY ONLY <4>1, NAssumption
    <3>2. next' \in Nat
      BY DEF TypeOK
    <3> QED
      BY <2>1, <3>1, <3>2
  <2>4. /\ \A j \in Job : \A a \in 1..Len(logs'[j]) : logs'[j][a] = j
        /\ Unbuffered' => \A j \in Job : logs'[j] = <<>>
    BY DEF Lines, Unbuffered
  <2> QED
    BY <2>1, <2>2, <2>3, <2>4 DEF Lines
<1>11. Chain'
  BY <1>1 DEF Chain, Admitted, TypeOK, Bookkeeping, SameNameBefore
<1>12. Output'
  BY <1>1 DEF Output, LastNamed, TypeOK, Names, Bookkeeping
<1>13. Outcome'
  BY <1>1 DEF Outcome, Bookkeeping, NoResult, ResultMatchesLog
<1> QED BY <1>4, <1>5, <1>6, <1>7, <1>8, <1>9, <1>10, <1>11, <1>12, <1>13

\* Leaving flush preserves the invariant.
LEMMA FlushEndStep == ASSUME IInv, NEW i \in Job, FlushEnd(i) PROVE IInv'
<1> USE DEF IInv, FlushEnd, Goto
<1>1. TypeOK'
  BY DEF TypeOK, NoResult
<1>2. SpawnOrder'
  BY DEF SpawnOrder, TypeOK
<1>3. Bookkeeping'
  BY DEF Bookkeeping, TypeOK
<1>4. Cursor'
  BY DEF Cursor, TypeOK, Bookkeeping, NoLogHeldBack, CanPrint, OwnFailure
<1>5. Cancelling'
  BY DEF Cancelling, TypeOK, Bookkeeping, CancelHasACause, OwnFailure
<1>6. OneAtATime'
  BY DEF OneAtATime, Active, TypeOK, Bookkeeping
<1>7. Lines'
  BY DEF Lines, TypeOK, LogInIndexOrder, OneAtATime
<1>8. Chain'
  BY DEF Chain, Admitted, TypeOK, Bookkeeping, SameNameBefore
<1>9. Output'
  BY DEF Output, LastNamed, TypeOK, Names, Bookkeeping
<1>10. Outcome'
  BY DEF Outcome, ResultMatchesLog, TypeOK, NoResult, Cursor, Bookkeeping
<1> QED BY <1>1, <1>2, <1>3, <1>4, <1>5, <1>6, <1>7, <1>8, <1>9, <1>10

\* close(done[i]) preserves the invariant.
LEMMA CloseDoneStep == ASSUME IInv, NEW i \in Job, CloseDone(i) PROVE IInv'
<1> USE DEF IInv, CloseDone, Goto
<1>1. TypeOK'
  BY DEF TypeOK, NoResult
<1>2. SpawnOrder'
  BY DEF SpawnOrder, TypeOK
<1>3. Bookkeeping'
  BY DEF Bookkeeping, TypeOK
<1>4. Cursor'
  BY DEF Cursor, TypeOK, Bookkeeping, NoLogHeldBack, CanPrint, OwnFailure
<1>5. Cancelling'
  BY DEF Cancelling, TypeOK, Bookkeeping, CancelHasACause, OwnFailure
<1>6. OneAtATime'
  BY DEF OneAtATime, Active, TypeOK, Bookkeeping
<1>7. Lines'
  BY DEF Lines, TypeOK, LogInIndexOrder, OneAtATime
<1>8. Chain'
  BY DEF Chain, Admitted, TypeOK, Bookkeeping, SameNameBefore
<1>9. Output'
  BY DEF Output, LastNamed, TypeOK, Names, Bookkeeping
<1>10. Outcome'
  BY DEF Outcome, ResultMatchesLog, TypeOK, NoResult, Cursor, Bookkeeping
<1> QED BY <1>1, <1>2, <1>3, <1>4, <1>5, <1>6, <1>7, <1>8, <1>9, <1>10

\* The errgroup's taking an error, which cancels gctx, preserves the invariant.
LEMMA GroupErrorStep == ASSUME IInv, NEW i \in Job, GroupError(i) PROVE IInv'
<1> USE DEF IInv, GroupError, Goto
<1>1. TypeOK'
  BY DEF TypeOK, NoResult
<1>2. SpawnOrder'
  BY DEF SpawnOrder, TypeOK
<1>3. Bookkeeping'
  BY DEF Bookkeeping, TypeOK
<1>4. Cursor'
  BY DEF Cursor, TypeOK, Bookkeeping, NoLogHeldBack, CanPrint, OwnFailure
<1>5. Cancelling'
  BY DEF Cancelling, TypeOK, Bookkeeping, CancelHasACause, OwnFailure
<1>6. OneAtATime'
  BY DEF OneAtATime, Active, TypeOK, Bookkeeping
<1>7. Lines'
  BY DEF Lines, TypeOK, LogInIndexOrder, OneAtATime
<1>8. Chain'
  BY DEF Chain, Admitted, TypeOK, Bookkeeping, SameNameBefore
<1>9. Output'
  BY DEF Output, LastNamed, TypeOK, Names, Bookkeeping
<1>10. Outcome'
  BY DEF Outcome, ResultMatchesLog, TypeOK, NoResult, Cursor, Bookkeeping
<1> QED BY <1>1, <1>2, <1>3, <1>4, <1>5, <1>6, <1>7, <1>8, <1>9, <1>10

\* A goroutine's return without an error preserves the invariant.
LEMMA GroupOKStep == ASSUME IInv, NEW i \in Job, GroupOK(i) PROVE IInv'
<1> USE DEF IInv, GroupOK, Goto
<1>1. TypeOK'
  BY DEF TypeOK, NoResult
<1>2. SpawnOrder'
  BY DEF SpawnOrder, TypeOK
<1>3. Bookkeeping'
  BY DEF Bookkeeping, TypeOK
<1>4. Cursor'
  BY DEF Cursor, TypeOK, Bookkeeping, NoLogHeldBack, CanPrint, OwnFailure
<1>5. Cancelling'
  BY DEF Cancelling, TypeOK, Bookkeeping, CancelHasACause, OwnFailure
<1>6. OneAtATime'
  BY DEF OneAtATime, Active, TypeOK, Bookkeeping
<1>7. Lines'
  BY DEF Lines, TypeOK, LogInIndexOrder, OneAtATime
<1>8. Chain'
  BY DEF Chain, Admitted, TypeOK, Bookkeeping, SameNameBefore
<1>9. Output'
  BY DEF Output, LastNamed, TypeOK, Names, Bookkeeping
<1>10. Outcome'
  BY DEF Outcome, ResultMatchesLog, TypeOK, NoResult, Cursor, Bookkeeping
<1> QED BY <1>1, <1>2, <1>3, <1>4, <1>5, <1>6, <1>7, <1>8, <1>9, <1>10

\* Freeing a slot preserves the invariant.
LEMMA ReleaseSlotStep == ASSUME IInv, NEW i \in Job, ReleaseSlot(i) PROVE IInv'
<1> USE DEF IInv, ReleaseSlot, Goto
<1>1. TypeOK'
  BY DEF TypeOK, NoResult
<1>2. SpawnOrder'
  BY DEF SpawnOrder, TypeOK
<1>3. Bookkeeping'
  BY DEF Bookkeeping, TypeOK
<1>4. Cursor'
  BY DEF Cursor, TypeOK, Bookkeeping, NoLogHeldBack, CanPrint, OwnFailure
<1>5. Cancelling'
  BY DEF Cancelling, TypeOK, Bookkeeping, CancelHasACause, OwnFailure
<1>6. OneAtATime'
  BY DEF OneAtATime, Active, TypeOK, Bookkeeping
<1>7. Lines'
  BY DEF Lines, TypeOK, LogInIndexOrder, OneAtATime
<1>8. Chain'
  BY DEF Chain, Admitted, TypeOK, Bookkeeping, SameNameBefore
<1>9. Output'
  BY DEF Output, LastNamed, TypeOK, Names, Bookkeeping
<1>10. Outcome'
  BY DEF Outcome, ResultMatchesLog, TypeOK, NoResult, Cursor, Bookkeeping
<1> QED BY <1>1, <1>2, <1>3, <1>4, <1>5, <1>6, <1>7, <1>8, <1>9, <1>10

\* runLinkJobs' return preserves the invariant: the failure that ended the log
\* is the lowest-numbered one.
LEMMA ReturnStep == ASSUME IInv, Return PROVE IInv'
<1> USE DEF IInv, Return
<1>1. mu = 0 /\ \A j \in Job : j \in finished
  <2>1. \A j \in Job : pc[j] = "exited"
    OBVIOUS
  <2>2. mu # 0 => mu \in Job
    BY DEF TypeOK
  <2>3. mu # 0 => pc[mu] = "print"
    BY <2>2 DEF Bookkeeping
  <2> QED
    BY <2>1, <2>2, <2>3 DEF Bookkeeping
<1>2. next \in 1..(N + 1) /\ (stopped \/ next = N + 1)
  <2>1. next \in 1..(N + 1)
    BY DEF TypeOK
  <2> QED
    BY <1>1, <2>1 DEF Cursor, NoLogHeldBack, CanPrint
<1>3. CASE \E j \in Job : OwnFailure(j)
  <2>1. stopped /\ next - 1 \in Job /\ OwnFailure(next - 1)
    BY <1>2, <1>3 DEF Cursor
  <2>2. \A j \in Job : OwnFailure(j) => next - 1 <= j
    BY <1>2 DEF Cursor
  <2>3. LowestOwnFailure = next - 1
    BY <2>1, <2>2, <1>2 DEF LowestOwnFailure
  <2>4. result' = [kind |-> "own", job |-> next - 1]
    BY <1>3, <2>3
  <2>5. TypeOK'
    BY <2>1, <2>4 DEF TypeOK
  <2>6. Outcome'
    BY <1>2, <2>1, <2>4 DEF Outcome, ResultMatchesLog, TypeOK
  <2> QED
    BY <2>5, <2>6 DEF SpawnOrder, Bookkeeping, Cursor, NoLogHeldBack, CanPrint,
       OwnFailure, Cancelling, CancelHasACause, OneAtATime, Active, Lines,
       LogInIndexOrder, Chain, Admitted, Output, LastNamed
<1>4. CASE ~\E j \in Job : OwnFailure(j)
  <2>1. \A j \in Job : errs[j] = "nil"
    BY <1>4 DEF Cancelling, CancelHasACause, OwnFailure, TypeOK
  <2>2. groupErr = 0
    BY <2>1 DEF Cancelling, TypeOK
  <2>3. result' = [kind |-> "nil", job |-> 0]
    BY <1>4, <2>2
  <2>4. ~stopped /\ next = N + 1
    BY <1>2, <1>4 DEF Cursor
  <2>5. TypeOK'
    BY <2>3 DEF TypeOK
  <2>6. Outcome'
    BY <2>1, <2>3, <2>4 DEF Outcome, ResultMatchesLog
  <2> QED
    BY <2>5, <2>6 DEF SpawnOrder, Bookkeeping, Cursor, NoLogHeldBack, CanPrint,
       OwnFailure, Cancelling, CancelHasACause, OneAtATime, Active, Lines,
       LogInIndexOrder, Chain, Admitted, Output, LastNamed
<1> QED BY <1>3, <1>4

-----------------------------------------------------------------------------
(***************************************************************************)
(* The invariant and what follows from it.                                 *)
(***************************************************************************)
\* runLinkJobs starts in the invariant.
LEMMA InitIInv == Init => IInv
<1> SUFFICES ASSUME Init PROVE IInv
  OBVIOUS
<1> USE DEF Init
<1>1. TypeOK
  <2>1. pc \in [Job -> PC] /\ errs \in [Job -> {"nil", "own", "canceled"}]
    OBVIOUS
  <2>2. logs \in [Job -> Seq(Job)] /\ w \in Seq(Job)
    OBVIOUS
  <2>3. bin \in [Names -> 0..N]
    OBVIOUS
  <2>4. result \in [kind : {"none", "nil", "own", "canceled"}, job : 0..N]
    BY DEF NoResult
  <2>5. spawned \in 0..N /\ next \in 1..(N + 1) /\ groupErr \in 0..N /\ mu \in 0..N
    OBVIOUS
  <2> QED
    BY <2>1, <2>2, <2>3, <2>4, <2>5 DEF TypeOK
<1>2. SpawnOrder /\ Bookkeeping BY DEF SpawnOrder, Bookkeeping
<1>3. Cursor BY DEF Cursor, NoLogHeldBack, CanPrint
<1>4. Cancelling BY DEF Cancelling, CancelHasACause
<1>5. OneAtATime BY DEF OneAtATime, Active
<1>6. Lines BY DEF Lines, LogInIndexOrder
<1>7. Chain BY DEF Chain, Admitted
<1>8. Output BY DEF Output
<1>9. Outcome BY DEF Outcome, ResultMatchesLog, NoResult
<1> QED
  BY <1>1, <1>2, <1>3, <1>4, <1>5, <1>6, <1>7, <1>8, <1>9 DEF IInv

\* Every step of runLinkJobs and its goroutines preserves the invariant.
LEMMA NextIInv == IInv /\ [Next]_vars => IInv'
<1> SUFFICES ASSUME IInv, [Next]_vars PROVE IInv'
  OBVIOUS
<1>1. CASE Spawn
  BY <1>1, SpawnStep
<1>2. ASSUME NEW i \in Job, Step(i) PROVE IInv'
  BY <1>2, AwaitDoneStep, AwaitCancelledStep, CheckContextStep,
     CompileMainStep, StartLinkerStep, LinkerSucceedsStep, LinkerFailsStep,
     FlushBeginStep, PrintNextStep, FlushEndStep, CloseDoneStep,
     GroupErrorStep, GroupOKStep, ReleaseSlotStep DEF Step
<1>3. CASE Return
  BY <1>3, ReturnStep
<1>4. CASE UNCHANGED vars
  BY <1>4 DEF vars, IInv, TypeOK, NoResult, SpawnOrder, Bookkeeping, Cursor,
     NoLogHeldBack, CanPrint, OwnFailure, Cancelling, CancelHasACause,
     OneAtATime, Active, Lines, LogInIndexOrder, Chain, Admitted, Output,
     LastNamed, Outcome, ResultMatchesLog
<1> QED
  BY <1>1, <1>2, <1>3, <1>4 DEF Next, Done

\* The inductive invariant holds in every reachable state.
THEOREM Invariance == Spec => []IInv
BY InitIInv, NextIInv, PTL DEF Spec

\* Type correctness.
THEOREM TypeCorrect == Spec => []TypeOK
<1>1. IInv => TypeOK
  BY DEF IInv
<1> QED BY <1>1, Invariance, PTL

\* The printed log is in list order and shows nothing past a binary that
\* failed for a reason of its own, whatever the interleaving and the limit.
THEOREM LogOrdered == Spec => [](LogInIndexOrder /\ NoLogPastFailure)
<1>1. IInv => LogInIndexOrder
  BY DEF IInv, Lines
<1>2. IInv => NoLogPastFailure
  <2> SUFFICES ASSUME IInv, NEW a \in 1..Len(w), NEW j \in Job, j < w[a],
                      OwnFailure(j)
               PROVE  FALSE
    BY DEF NoLogPastFailure
  <2>1. w[a] \in Job /\ next \in Nat
    BY DEF IInv, TypeOK
  <2>2. w[a] <= next /\ (stopped => w[a] < next)
    BY DEF IInv, Lines
  <2>3. stopped /\ j = next - 1
    BY <2>1, <2>2 DEF IInv, Cursor
  <2> QED
    BY <2>1, <2>2, <2>3
<1> QED BY <1>1, <1>2, Invariance, PTL

\* When nobody prints, no log that is next in line and complete is held back.
THEOREM NothingHeldBack == Spec => []NoLogHeldBack
<1>1. IInv => NoLogHeldBack
  BY DEF IInv, Cursor
<1> QED BY <1>1, Invariance, PTL

\* Where the group or a binary was cancelled, some binary failed by itself.
THEOREM NothingHidden == Spec => []CancelHasACause
<1>1. IInv => CancelHasACause
  BY DEF IInv, Cancelling
<1> QED BY <1>1, Invariance, PTL

\* Binaries with the same name are built one after the other.
THEOREM SameNameInTurn == Spec => []SameNameExclusive
<1>1. IInv => SameNameExclusive
  <2> SUFFICES ASSUME IInv, NEW i \in Job, NEW j \in Job, i < j,
                      BinName[i] = BinName[j],
                      pc[i] \in Running, pc[j] \in Running
               PROVE  FALSE
    BY DEF SameNameExclusive
  <2>1. i \in SameNameBefore(j) /\ Admitted(j)
    BY DEF SameNameBefore, Admitted
  <2> QED
    BY <2>1 DEF IInv, Chain, Bookkeeping
<1> QED BY <1>1, Invariance, PTL

\* A binary is not built once the one it comes after failed or was cancelled,
\* even before the context is cancelled.
THEOREM NoneAfterFailure == Spec => []NoRunAfterFailedPredecessor
<1>1. IInv => NoRunAfterFailedPredecessor
  <2> SUFFICES ASSUME IInv, NEW i \in Job, After(i) # 0,
                      errs[After(i)] # "nil",
                      pc[i] \in Running \/ errs[i] = "own"
               PROVE  FALSE
    BY DEF NoRunAfterFailedPredecessor
  <2>1. Admitted(i)
    BY DEF IInv, Bookkeeping, Admitted
  <2> QED
    BY <2>1, AfterIsLast DEF IInv, Chain
<1> QED BY <1>1, Invariance, PTL

\* The error returned is that of the last binary in the log; nil is returned
\* only when every log was printed and bin/ holds, under each name, the
\* binary listed last under it.
THEOREM ResultCorrect == Spec => [](ResultMatchesLog /\ LastListedWins)
<1>1. IInv => ResultMatchesLog
  BY DEF IInv, Outcome
<1>2. IInv => LastListedWins
  <2> SUFFICES ASSUME IInv, result.kind = "nil", NEW n \in Names
               PROVE  /\ bin[n] # 0
                      /\ BinName[bin[n]] = n
                      /\ \A i \in Job : BinName[i] = n => i <= bin[n]
    BY DEF LastListedWins
  <2> DEFINE S == {j \in Job : BinName[j] = n}
  <2>1. S \subseteq Job /\ S # {}
    BY DEF Names
  <2>2. PICK i \in S : \A k \in S : k <= i
    BY <2>1, LastExists
  <2>3. LastNamed(i) /\ BinName[i] = n /\ i \in Job
    BY <2>2 DEF LastNamed
  <2>4. result # NoResult
    BY DEF NoResult
  <2>5. pc[i] = "exited" /\ errs[i] = "nil"
    BY <2>3, <2>4 DEF IInv, Outcome
  <2>6. bin[n] = i
    BY <2>3, <2>5 DEF IInv, Output
  <2> QED
    BY <2>2, <2>3, <2>6
<1> QED BY <1>1, <1>2, Invariance, PTL

-----------------------------------------------------------------------------
(***************************************************************************)
(* LinkJobs implements OrderedLog.                                         *)
(***************************************************************************)
\* A line a goroutine writes is progress of the promise, or invisible to it.
LEMMA LoggingIsProgress ==
  ASSUME IInv, NEW i \in Job, pc[i] \in Running, Log(i),
         UNCHANGED <<next, stopped, result>>
  PROVE  Promise!Next \/ UNCHANGED Promise!vars
<1>1. CASE Unbuffered
  <2>1. i = next /\ ~stopped /\ w \in Seq(Job)
    BY <1>1 DEF IInv, OneAtATime, TypeOK
  <2>2. w' = Append(w, i)
    BY <1>1 DEF Log
  <2>3. Promise!PrintLines
    BY <2>1, <2>2 DEF Promise!PrintLines
  <2> QED
    BY <2>1, <2>3 DEF Promise!Next, Promise!Progress
<1>2. CASE ~Unbuffered
  BY <1>2 DEF Log, Promise!vars
<1> QED BY <1>1, <1>2

\* Every step of the code is a step of the promise or changes nothing it shows.
LEMMA StepRefinement ==
  IInv /\ [Next]_vars => Promise!Next \/ UNCHANGED Promise!vars
<1> SUFFICES ASSUME IInv, [Next]_vars
             PROVE  Promise!Next \/ UNCHANGED Promise!vars
  OBVIOUS
<1>1. CASE Spawn \/ UNCHANGED vars
  BY <1>1 DEF Spawn, vars, Promise!vars
<1>2. ASSUME NEW i \in Job,
             CompileMain(i) \/ StartLinker(i)
      PROVE  Promise!Next \/ UNCHANGED Promise!vars
  <2>1. Log(i) /\ UNCHANGED <<next, stopped, result>>
    BY <1>2 DEF CompileMain, StartLinker
  <2>2. pc[i] \in Running
    BY <1>2 DEF CompileMain, StartLinker, Fail, Goto
  <2> QED
    BY <2>1, <2>2, LoggingIsProgress
<1>3. ASSUME NEW i \in Job, PrintNext(i)
      PROVE  Promise!Next
  <2>1. /\ ~stopped /\ next \in 1..N
        /\ w \in Seq(Job) /\ logs[next] \in Seq(Job)
        /\ \A a \in 1..Len(logs[next]) : logs[next][a] = next
    BY <1>3 DEF PrintNext, CanPrint, IInv, TypeOK, Lines
  <2>2. /\ w' = w \o logs[next] /\ next' = next + 1 /\ result' = result
        /\ stopped' \in BOOLEAN
    BY <1>3 DEF PrintNext, OwnFailure
  <2>3. Promise!PrintLines
    <3>1. Len(w') = Len(w) + Len(logs[next])
      BY <2>1, <2>2
    <3>2. ASSUME NEW k \in 1..Len(w')
          PROVE  w'[k] = IF k <= Len(w) THEN w[k] ELSE next
      <4>1. CASE k <= Len(w)
        BY <2>1, <2>2, <4>1
      <4>2. CASE ~(k <= Len(w))
        <5>1. w'[k] = logs[next][k - Len(w)] /\ k - Len(w) \in 1..Len(logs[next])
          BY <2>1, <2>2, <3>1, <4>2
        <5> QED
          BY <2>1, <4>2, <5>1
      <4> QED BY <4>1, <4>2
    <3>3. Len(w') >= Len(w)
      BY <2>1, <3>1
    <3> QED
      BY <3>2, <3>3 DEF Promise!PrintLines
  <2> QED
    BY <2>1, <2>2, <2>3 DEF Promise!Next, Promise!Complete
<1>4. ASSUME NEW i \in Job, Step(i),
             ~(CompileMain(i) \/ StartLinker(i) \/ PrintNext(i))
      PROVE  UNCHANGED Promise!vars
  BY <1>4 DEF Step, AwaitDone, AwaitCancelled, CheckContext, LinkerSucceeds,
     LinkerFails, FlushBegin, FlushEnd, CloseDone, GroupError, GroupOK,
     ReleaseSlot, Promise!vars
<1>5. CASE Return
  <2>1. result = NoResult /\ UNCHANGED <<w, next, stopped>> /\ IInv'
    BY <1>5, ReturnStep DEF Return
  <2>2. result' # NoResult
    BY <1>5, <2>1 DEF Return, NoResult, IInv, Cancelling, TypeOK
  <2>3. \/ result'.kind = "own" /\ stopped /\ next = result'.job + 1
        \/ result'.kind = "nil" /\ ~stopped /\ next = N + 1
    BY <2>1, <2>2 DEF IInv, Outcome, ResultMatchesLog
  <2>4. \/ result' = [kind |-> "nil", job |-> 0]
        \/ result' = [kind |-> result'.kind, job |-> result'.job] /\ result'.kind # "nil"
    BY <1>5, <2>1 DEF Return, IInv, Cancelling, TypeOK
  <2>5. next \in Nat /\ result'.job \in Nat
    BY <2>1 DEF IInv, TypeOK
  <2> QED
    BY <2>1, <2>3, <2>4, <2>5 DEF Promise!Next, Promise!Conclude, NoResult
<1> QED
  BY <1>1, <1>2, <1>3, <1>4, <1>5 DEF Next, Done

\* Every behaviour of the concurrent code is one of the promise: the log in
\* list order up to the first failure, and that failure returned.
THEOREM Refinement == Spec => ImplementsOrderedLog
<1>1. Init => Promise!Init
  BY DEF Init, NoResult, Promise!Init
<1> QED
  BY <1>1, StepRefinement, Invariance, PTL
     DEF Spec, ImplementsOrderedLog, Promise!Spec
=============================================================================
