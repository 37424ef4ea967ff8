----------------------------- MODULE TestScript -----------------------------
(***************************************************************************)
(* The repository's unit tests, run on the models.  A test is a script: a  *)
(* sequence of steps, each a tuple with the name of the call that the test *)
(* makes and its arguments, or an expectation.  An expectation is          *)
(* <<"Expect", x, r>>: the test looks at x, and sees r[k] for every k in   *)
(* the domain of the record r.                                             *)
(***************************************************************************)
EXTENDS Naturals, Sequences

VARIABLE script   \* what the running test has still to do

LOCAL Seqs == INSTANCE SequencesExt

Now(call) == script # <<>> /\ Head(script)[1] = call

Arg(n) == Head(script)[n + 1]

Advance == script' = Tail(script)

Expect(x, r) == <<"Expect", x, r>>

\* A test's loop for (i = 1; i <= n; ++i).
ForEach(n, Body(_)) == Seqs!FlattenSeq([i \in 1..n |-> Body(i)])
=============================================================================
