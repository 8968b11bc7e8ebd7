------------------------------- MODULE RawJobs -------------------------------
(***************************************************************************)
(* What the raw gateway promises its clients and CUPS (the docstring of    *)
(* src/airprint_server/raw_proxy.py and its "one connection, one bounded   *)
(* job"): a connection is admitted to one of JobSlots places or turned     *)
(* away, an admitted connection may become one job of at most MaxBytes in  *)
(* one queue, and a connection that is done stays done.  RawGateway        *)
(* implements this.                                                        *)
(***************************************************************************)
EXTENDS Integers, Sequences, FiniteSets

CONSTANTS Conns, Queues, JobSlots, MaxBytes

VARIABLES
  phase,  \* per connection: "new", "active" or "done"
  jobs    \* per connection, the jobs CUPS queued for it

Active == {c \in Conns : phase[c] = "active"}

Init ==
  /\ phase = [c \in Conns |-> "new"]
  /\ jobs = [c \in Conns |-> <<>>]

Admit(c) ==
  /\ phase[c] = "new" /\ Cardinality(Active) < JobSlots
  /\ phase' = [phase EXCEPT ![c] = "active"]
  /\ UNCHANGED jobs

Submit(c) ==
  /\ phase[c] = "active" /\ jobs[c] = <<>>
  /\ \E q \in Queues, n \in 1..MaxBytes :
       jobs' = [jobs EXCEPT ![c] = <<[queue |-> q, bytes |-> n]>>]
  /\ UNCHANGED phase

\* Connections are done one at a time, or several at once when the process or
\* a listener ends.
Finish(S) ==
  /\ \A c \in S : phase[c] # "done"
  /\ phase' = [c \in Conns |-> IF c \in S THEN "done" ELSE phase[c]]
  /\ UNCHANGED jobs

Next ==
  \/ \E c \in Conns : Admit(c) \/ Submit(c)
  \/ \E S \in SUBSET Conns : Finish(S)

Spec == Init /\ [][Next]_<<phase, jobs>>
=============================================================================
