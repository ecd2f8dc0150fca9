----------------------------- MODULE IngestPopulate -----------------------------
(***************************************************************************)
(* lambda/ingest_populate: filling the upload queue of an ingest job.  The  *)
(* tiles of the job are shared out; each lambda computes where its share    *)
(* begins, without walking over the tiles before, and sends it in batches.  *)
(* The activity that purges the queue, starts the lambdas and retries is    *)
(* outside the repository.                                                  *)
(***************************************************************************)
EXTENDS Integers, SequencesExt, Bags

CONSTANTS Jobs,        \* geometries: x, y, t, z, and the tiles of one lambda
          BatchSize,   \* SQS_BATCH_SIZE
          Retries,     \* of a batch
          MaxAttempts, \* of the activity
          Unlucky,     \* the jobs anything goes wrong for
          MaxMishaps   \* bound: batches with failed entries and invocations that die

Axis == [start : Nat, stop : Nat, size : Nat \ {0}]

ASSUME PopulateConstants ==
    /\ \A j \in Jobs : /\ j.max \in Nat \ {0}
                       /\ \A v \in {"x", "y", "z", "t"} : j[v] \in Axis /\ j[v].start < j[v].stop
    /\ Unlucky \subseteq Jobs /\ MaxMishaps \in Nat
    /\ {BatchSize, Retries, MaxAttempts} \subseteq Nat \ {0}

VARIABLES job,       \* the arguments that all lambdas share
          lambda,    \* by items_to_skip
          queue,     \* the upload queue, a bag of messages
          attempts, mishaps

ingest == <<job, lambda, queue, attempts, mishaps>>

--------------------------------------------------------------------------------
Ceiling(n, d) == (n + d - 1) \div d
Smaller(m, n) == IF m < n THEN m ELSE n

\* range(from, stop, size); math.ceil of its length, as in factor_.
Steps(from, axis) ==
    [i \in 1 .. Ceiling(Smaller(0, from - axis.stop) * (-1), axis.size) |->
        from + (i - 1) * axis.size]
Factor(axis) == Ceiling(axis.stop - axis.start, axis.size)

\* z.size is the z_chunk_size; the last chunk may have fewer tiles.
Depth(j, z) == Smaller(j.z.size, j.z.stop - z)

\* The chunk key and the tile key together.
Message(j, t, z, y, x, tile) ==
    [tiles |-> Depth(j, z), x |-> x \div j.x.size, y |-> y \div j.y.size,
     chunk |-> z \div j.z.size, tile |-> tile, t |-> t]

\* All tiles of the job, as create_expected_messages of the test goes through them.
For(axis, Body(_)) ==
    LET all == Steps(axis.start, axis) IN FlattenSeq([i \in DOMAIN all |-> Body(all[i])])
Expected(j) ==
    For(j.t, LAMBDA t : For(j.z, LAMBDA z : For(j.y, LAMBDA y : For(j.x, LAMBDA x :
        [i \in 1 .. Depth(j, z) |-> Message(j, t, z, y, x, z + i - 1)]))))

Total(j) == Factor(j.x) * Factor(j.y) * (j.z.stop - j.z.start) * Factor(j.t)

StartByFullChunks(j, skip) ==
    LET layer == Factor(j.x) * Factor(j.y)
        volume == layer * (j.z.stop - j.z.start)
        inT == skip % volume
        inZ == inT % (j.z.size * layer)
        depth == j.z.size
        inY == inZ % (depth * Factor(j.x))
    IN  [t |-> j.t.start + j.t.size * (skip \div volume),
         z |-> j.z.start + j.z.size * (inT \div (j.z.size * layer)),
         y |-> j.y.start + j.y.size * (inZ \div (depth * Factor(j.x))),
         x |-> j.x.start + j.x.size * (inY \div depth),
         tile |-> inY % depth]

\* Where a lambda begins: Tns, Zns, Yns, Xns and what is left to skip.
Start(j, skip) ==
    LET layer == Factor(j.x) * Factor(j.y)
        volume == layer * (j.z.stop - j.z.start)
        inT == skip % volume
        inZ == inT % (j.z.size * layer)
        Zns == j.z.start + j.z.size * (inT \div (j.z.size * layer))
        depth == Depth(j, Zns)
        inY == inZ % (depth * Factor(j.x))
    IN  [t |-> j.t.start + j.t.size * (skip \div volume),
         z |-> Zns,
         y |-> j.y.start + j.y.size * (inZ \div (depth * Factor(j.x))),
         x |-> j.x.start + j.x.size * (inY \div depth),
         tile |-> inY % depth]

\* The loops.  Each takes its start from Start as long as no tile has been made
\* (bFirst), and the start of the axis after that; from is the former.
Loop(bFirst, axis, from, Body(_, _)) ==
    LET steps == Steps(IF bFirst THEN from ELSE axis.start, axis)
        StillFirst(i) == bFirst /\ \A k \in 1 .. i - 1 : Body(TRUE, steps[k]) = <<>>
    IN  FlattenSeq([i \in DOMAIN steps |-> IF StillFirst(i) THEN Body(TRUE, steps[i])
                                          ELSE Body(FALSE, steps[i])])

LoopTiles(j, begin, bFirst, t, z, y, x) ==
    LET offset == IF bFirst THEN begin.tile ELSE 0
    IN  [i \in 1 .. Depth(j, z) - offset |-> Message(j, t, z, y, x, z + offset + i - 1)]
LoopX(j, begin, bFirst, t, z, y) ==
    Loop(bFirst, j.x, begin.x, LAMBDA b, x : LoopTiles(j, begin, b, t, z, y, x))
LoopY(j, begin, bFirst, t, z) ==
    Loop(bFirst, j.y, begin.y, LAMBDA b, y : LoopX(j, begin, b, t, z, y))
LoopZ(j, begin, bFirst, t) ==
    Loop(bFirst, j.z, begin.z, LAMBDA b, z : LoopY(j, begin, b, t, z))
LoopT(j, begin) == Loop(TRUE, j.t, begin.t, LAMBDA b, t : LoopZ(j, begin, b, t))

Messages(j, skip) ==
    LET all == LoopT(j, Start(j, skip))
    IN  SubSeq(all, 1, Smaller(j.max, Len(all)))

--------------------------------------------------------------------------------
Shares(j) == {n \in 0 .. Total(j) - 1 : n % j.max = 0}

Tile == [tiles : Nat, x : Nat, y : Nat, chunk : Nat, tile : Nat, t : Nat]
Lambda == [pc : {"batching", "sending", "done", "failed"},
           rest : Seq(Tile), batch : SUBSET Tile,
           retry : 0 .. Retries,
           sent : Nat]

Started(j, skip) == [pc |-> "batching", rest |-> Messages(j, skip), batch |-> {},
                     retry |-> 0, sent |-> 0]

IngestInit ==
    /\ job \in Jobs
    /\ lambda = [s \in Shares(job) |-> Started(job, s)]
    /\ queue = EmptyBag
    /\ attempts = 1
    /\ mishaps = 0

\* "Automatically purges the queue so retry works correctly", once all have ended.
Retry ==
    /\ \A s \in DOMAIN lambda : lambda[s].pc \in {"done", "failed"}
    /\ \E s \in DOMAIN lambda : lambda[s].pc = "failed"
    /\ attempts < MaxAttempts
    /\ attempts' = attempts + 1
    /\ queue' = EmptyBag
    /\ lambda' = [s \in DOMAIN lambda |-> Started(job, s)]
    /\ UNCHANGED <<job, mishaps>>

\* The next batch, or the end of the generator.
Batch(s) ==
    /\ lambda[s].pc = "batching"
    /\ LET rest == lambda[s].rest
           n == Smaller(BatchSize, Len(rest))
       IN  lambda' = [lambda EXCEPT
             ![s] = IF n = 0 THEN [@ EXCEPT !.pc = "done"]
                    ELSE [@ EXCEPT !.pc = "sending", !.retry = Retries,
                                   !.batch = ToSet(SubSeq(rest, 1, n)),
                                   !.rest = SubSeq(rest, n + 1, Len(rest))]]
    /\ UNCHANGED <<job, queue, attempts, mishaps>>

CanFail == job \in Unlucky /\ mishaps < MaxMishaps

Enqueue(entries) == queue' = queue (+) SetToBag(entries)

\* One call of send_messages: some entries fail; what is counted and what is sent
\* again are parameters.  The entries of a batch have no order.
SendBatch(s, Counted(_, _), Again(_, _)) ==
    /\ lambda[s].pc = "sending"
    /\ \E failed \in SUBSET lambda[s].batch :
          LET me == lambda[s] IN
          /\ Enqueue(me.batch \ failed)
          /\ lambda' = [lambda EXCEPT ![s].sent = @ + Counted(me.batch, failed),
                                      ![s].batch = Again(@, failed),
                                      ![s].retry = IF failed = {} THEN @ ELSE @ - 1,
                                      ![s].pc = IF failed = {} THEN "batching"
                                                ELSE IF me.retry = 1 THEN "failed" ELSE @]
          /\ mishaps' = IF failed = {} THEN mishaps ELSE mishaps + 1
          /\ failed # {} => CanFail
    /\ UNCHANGED <<job, attempts>>

Successful(batch, failed) == Cardinality(batch \ failed)
Failed(batch, failed) == failed

SendCountsAll(s) == SendBatch(s, LAMBDA b, f : Cardinality(b), Failed)
SendRepeatsBatch(s) == SendBatch(s, Successful, LAMBDA b, f : b)

\* The entries that failed are sent again; the last try raises.
SendEntries(s) == SendBatch(s, Successful, Failed)

\* The call raises or the lambda times out; the batch may have been queued.
Die(s) ==
    /\ lambda[s].pc = "sending" /\ CanFail
    /\ \E queued \in {{}, lambda[s].batch} : Enqueue(queued)
    /\ lambda' = [lambda EXCEPT ![s].pc = "failed"]
    /\ mishaps' = mishaps + 1
    /\ UNCHANGED <<job, attempts>>

\* The activity has returned or given up.
Over ==
    /\ \A s \in DOMAIN lambda : lambda[s].pc \in {"done", "failed"}
    /\ attempts = MaxAttempts \/ \A s \in DOMAIN lambda : lambda[s].pc = "done"
    /\ UNCHANGED ingest

IngestNext == Retry \/ Over \/ \E s \in DOMAIN lambda : Batch(s) \/ SendEntries(s) \/ Die(s)

IngestSpec == IngestInit /\ [][IngestNext]_ingest

--------------------------------------------------------------------------------
\* Besides the types: a lambda that sends has something to send and a try left.
IngestTypeOK ==
    /\ job \in Jobs
    /\ lambda \in [Shares(job) -> Lambda]
    /\ \A s \in DOMAIN lambda :
          lambda[s].pc = "sending" => lambda[s].batch # {} /\ lambda[s].retry > 0
    /\ IsABag(queue)
    /\ attempts \in 1 .. MaxAttempts /\ mishaps \in 0 .. MaxMishaps

\* "The sum of those tiles will be the exact same set that would be generated by a
\* single lambda": whatever the sizes, starts and remainders, the skipping finds the
\* tile the walk would have reached, and no two tiles have the same message.
SharesAreSlices ==
    LET all == Expected(job)
    IN  /\ Len(all) = Total(job) /\ IsInjective(all)
        /\ \A skip \in 0 .. Total(job) :
              Messages(job, skip) = SubSeq(all, skip + 1, Smaller(skip + job.max, Len(all)))

\* When all lambdas return, the queue holds every tile of the job exactly once, in
\* spite of failed entries, dead lambdas and attempts that were abandoned half way.
EveryTileOnce ==
    (\A s \in DOMAIN lambda : lambda[s].pc = "done") => queue = SetToBag(ToSet(Expected(job)))

\* What a lambda returns, and VerifyCount builds on, is what it has put into the queue.
CountIsTrue ==
    (\A s \in DOMAIN lambda : lambda[s].pc # "failed") =>
        \A s \in DOMAIN lambda :
            lambda[s].sent = Cardinality({m \in BagToSet(queue) : m \in ToSet(Messages(job, s))})

================================================================================
