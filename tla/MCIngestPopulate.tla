---------------------------- MODULE MCIngestPopulate ----------------------------
(***************************************************************************)
(* Jobs with and without remainders on every axis, from zero and from an    *)
(* unaligned start, for the arithmetic; three jobs of several lambdas, one  *)
(* with a short last chunk, one with a short last row, for the failures.    *)
(***************************************************************************)
EXTENDS IngestPopulate

Along(starts, stops, sizes) ==
    {a \in [start : starts, stop : stops, size : sizes] : a.start < a.stop}

ManyJobs ==
    [x : Along({0, 1}, {2, 4, 5}, {2}), y : Along({0}, {1, 3, 4}, {2}),
     z : Along({0, 1}, {2, 3, 5}, {2, 3}), t : Along({0}, {1, 2}, {1}), max : {200}]

Axis3(stop, size) == [start |-> 0, stop |-> stop, size |-> size]
FewJobs ==
    {[x |-> Axis3(2, 2), y |-> Axis3(1, 1), z |-> Axis3(5, 3), t |-> Axis3(1, 1), max |-> 3],
     [x |-> Axis3(3, 2), y |-> Axis3(1, 1), z |-> Axis3(3, 2), t |-> Axis3(1, 1), max |-> 4],
     [x |-> Axis3(1, 1), y |-> Axis3(3, 2), z |-> Axis3(1, 2), t |-> Axis3(2, 1), max |-> 2]}

AllJobs == ManyJobs \cup FewJobs
================================================================================
