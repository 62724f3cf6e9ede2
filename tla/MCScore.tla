------------------------------- MODULE MCScore -------------------------------
EXTENDS Score

\* Odd and even counts, on and off both thresholds.
MCTimings == [1..3 -> {18, 20, 21, 22}] \cup {<<20, 22>>, <<19, 21>>, <<20, 21, 22, 40>>}
MCBenchmark == {1, 2}

\* Each program alone, in all its uses, two requests of a session of which the first may be
\* given up, and the pairs of programs that can measure together.
MCHosts ==
  [driver : {"none"}, first : {1}, selected : {{1}, {1, 2}}, timed : BOOLEAN, calls : {0}]
    \cup [driver : {"local"}, first : {1, 2}, selected : {{}}, timed : {FALSE}, calls : {0}]
    \cup [driver : {"remote"}, first : {2}, selected : {{}}, timed : {FALSE}, calls : {0}]
    \cup [driver : {"local"}, first : {2}, selected : {{1}}, timed : {TRUE}, calls : {0}]
    \cup [driver : {"none"}, first : {1}, selected : {{}}, timed : {FALSE}, calls : {2}]
    \cup [driver : {"none"}, first : {1}, selected : {{1}}, timed : {TRUE}, calls : {1}]
=============================================================================
