----------------------------- MODULE MCBenchmark -----------------------------
(* Instances of Benchmark for TLC.                                         *)
EXTENDS Benchmark

\* Three runs on one or two threads, two users, no threads, a user count that
\* does not divide, is zero or negative runs, and lines that start no round.
MCLines ==
  {Quit, Garbled, Empty} \cup
  [kind : {"ints"},
   ints : {<<3>>, <<2, 2, 2>>, <<3, 1, 2>>, <<1, 1, 0>>, <<3, 2>>, <<1, 0>>, <<-1>>,
           <<1, 1, 1, 0, 1>>}]

=============================================================================
