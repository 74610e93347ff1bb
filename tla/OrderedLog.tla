----------------------------- MODULE OrderedLog -----------------------------
(***************************************************************************)
(* What the caller of runLinkJobs is promised, with no goroutines in it:   *)
(* the binaries appear in the log one at a time in list order, each with a *)
(* verdict; the first that failed ends the log, and is the error that is   *)
(* returned.                                                               *)
(***************************************************************************)
EXTENDS Integers, Sequences

CONSTANT N  \* number of binaries, a natural number

VARIABLES
  log,      \* the printed lines, each named by its binary
  current,  \* the binary whose lines come next
  halted,   \* the last binary printed failed
  verdict   \* what is returned: kind "none" until then

vars == <<log, current, halted, verdict>>

Init ==
  /\ log = <<>>
  /\ current = 1
  /\ halted = FALSE
  /\ verdict = [kind |-> "none", job |-> 0]

\* log' is log followed by lines of the current binary.
PrintLines ==
  /\ Len(log') >= Len(log)
  /\ \A k \in 1..Len(log') :
       log'[k] = IF k <= Len(log) THEN log[k] ELSE current

\* The current binary prints while it is at work.
Progress ==
  /\ ~halted
  /\ current <= N
  /\ PrintLines
  /\ UNCHANGED <<current, halted, verdict>>

\* The current binary is done, well or not.
Complete ==
  /\ ~halted
  /\ current <= N
  /\ PrintLines
  /\ halted' \in BOOLEAN
  /\ current' = current + 1
  /\ UNCHANGED verdict

Conclude ==
  /\ verdict.kind = "none"
  /\ \/ /\ halted
        /\ verdict' = [kind |-> "own", job |-> current - 1]
     \/ /\ ~halted /\ current = N + 1
        /\ verdict' = [kind |-> "nil", job |-> 0]
  /\ UNCHANGED <<log, current, halted>>

Next == Progress \/ Complete \/ Conclude

Spec == Init /\ [][Next]_vars
=============================================================================
