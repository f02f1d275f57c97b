------------------------------ MODULE Executor ------------------------------
(***************************************************************************)
(* What Reactor::addTask promises, without saying how: the elements that   *)
(* are submitted are executed one at a time, each once, in the order they  *)
(* were submitted.                                                         *)
(***************************************************************************)
EXTENDS Naturals, Sequences

CONSTANT Items

VARIABLES submitted, done

ExecInit == submitted = <<>> /\ done = <<>>

Submit ==
  /\ \E e \in Items : submitted' = Append(submitted, e)
  /\ UNCHANGED done

Execute ==
  /\ Len(done) < Len(submitted)
  /\ done' = Append(done, submitted[Len(done) + 1])
  /\ UNCHANGED submitted

(* What is executed may submit one more element.                           *)
ExecuteAndSubmit ==
  /\ Len(done) < Len(submitted)
  /\ done' = Append(done, submitted[Len(done) + 1])
  /\ \E e \in Items : submitted' = Append(submitted, e)

ExecNext == Submit \/ Execute \/ ExecuteAndSubmit

ExecSpec == ExecInit /\ [][ExecNext]_<<submitted, done>>
=============================================================================
