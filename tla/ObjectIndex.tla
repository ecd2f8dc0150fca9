---------------------------- MODULE ObjectIndex ----------------------------
(***************************************************************************)
(* The indexing of the object ids of a channel: bin/run_indexing.py starts *)
(* Index.Start, from where six step functions hand the work to one another *)
(* by starting executions and through two queues, until IdWriter has       *)
(* written each id of each cuboid to the id index.  What fails is to end   *)
(* up in the dead letter queue.                                            *)
(*                                                                         *)
(* An execution, like a message, is a record of what it is responsible     *)
(* for.  A task of a step function is one step with its retries: it        *)
(* succeeds, or fails after some of its effects.  The lambdas belong to    *)
(* another repository; they do what the step functions rely on.            *)
(***************************************************************************)
EXTENDS Naturals, FiniteSets

CONSTANTS Items, Cuboids,
          Channels,       \* item |-> its cuboid, for each channel considered
          MaxItems,       \* cuboids that one query returns
          BatchSize,      \* keys in one call for the queue of cuboids
          IdChunkSize,    \* ids in one call for the queue of ids
          LastAttempt,    \* attempts at enqueuing ids
          Retries,        \* retries_left of a write to the id index
          MaxReceives,    \* deliveries before the queue of ids gives up
          MaxTroubles     \* bound: failures and repeated deliveries

ASSUME IndexAssumption ==
  /\ Channels \subseteq [Items -> Cuboids]
  /\ {MaxItems, BatchSize, IdChunkSize, LastAttempt} \subseteq Nat \ {0}
  /\ {Retries, MaxReceives, MaxTroubles} \subseteq Nat

VARIABLES
  CuboidOf,  \* item |-> its cuboid
  raises,    \* whether the lambda that enqueues ids raises when its last
             \* attempt fails, or answers that it is not done
  started,   \* whether the indexing has been started
  work,      \* the running executions and the messages in the two queues
  s3index,   \* the items of which the S3 index knows
  indexed,   \* the items in the id index
  letters,   \* the items in messages of the dead letter queue
  failed,    \* the items that executions had when they failed
  excuses,   \* what has been in the way of a dead letter
  troubles

vars == <<CuboidOf, raises, started, work, s3index, indexed, letters, failed, excuses, troubles>>

Excuses == {"refused", "timeout", "input gone", "gave up"}

(***************************************************************************)
(* items is what is left, all what is in the input of the state that runs, *)
(* part the batch, worker or chunk at hand, n a counter of the execution.  *)
(***************************************************************************)
Record(at, step, items, n) ==
  [at |-> at, step |-> step, items |-> items, all |-> items, part |-> {}, n |-> n]

CuboidKey(c) == Record("CuboidKeys", "queued", {i \in Items : CuboidOf[i] = c}, 0)
IdsMessage(ids) == Record("Ids", "queued", ids, 0)
IdsMessages(ids) == IF ids = {} THEN {} ELSE {IdsMessage(ids)}

FirstStep ==
  [Start |-> "start", FindCuboids |-> "query", EnqueueCuboids |-> "enqueue",
   CuboidSupervisor |-> "write s3", FanoutIdWriters |-> "load", IdWriter |-> "write"]
StepFunctions == DOMAIN FirstStep
Execution(sfn, items) ==
  Record(sfn, FirstStep[sfn], items, IF sfn = "IdWriter" THEN Retries ELSE 0)

Steps ==
  {"start", "query", "spawn", "respawn", "enqueue", "write s3", "give out", "load",
   "map", "enqueue ids", "write", "reenqueue", "report part", "report", "queued"}

Records ==
  [at : StepFunctions \union {"CuboidKeys", "Ids"}, step : Steps, items : SUBSET Items,
   all : SUBSET Items, part : SUBSET Items, n : Nat]

\* What an execution still has to do is part of the input that its dead letter
\* would hold, and the batch at hand is part of what it has to do.
WellFormed(r) ==
  /\ r \in Records
  /\ r.part \subseteq r.items /\ r.items \subseteq r.all
  /\ r.at = "Ids" => r.n <= MaxReceives
  /\ r.step \in {"enqueue ids", "reenqueue"} => r.n \in 1..LastAttempt

\* The types of the variables, and the shape of the work that is handed from
\* step function to step function.
TypeOK ==
  /\ CuboidOf \in Channels /\ raises \in BOOLEAN /\ started \in BOOLEAN
  /\ \A r \in work : WellFormed(r)
  /\ s3index \subseteq Items /\ indexed \subseteq Items
  /\ letters \subseteq Items /\ failed \subseteq Items
  /\ excuses \subseteq Excuses
  /\ troubles \in 0..MaxTroubles

Init ==
  /\ CuboidOf \in Channels
  /\ raises \in BOOLEAN
  /\ started = FALSE
  /\ work = {}
  /\ s3index = {} /\ indexed = {} /\ letters = {} /\ failed = {}
  /\ excuses = {}
  /\ troubles = 0

-----------------------------------------------------------------------------
Trouble == troubles < MaxTroubles /\ troubles' = troubles + 1
Calm == troubles' = troubles

\* r goes on as the records new, which are none when it succeeds.
Becomes(r, new) == work' = (work \ {r}) \union new

At(r, sfn, step) == r.at = sfn /\ r.step = step
Moved(r, step) == [r EXCEPT !.step = step]

\* An execution with nothing left to do has ended.
Rest(r) == IF r.items = {} THEN {} ELSE {r}

\* Started executions and queued messages; a failed one may have been both.
Maybe(new, begun) == IF begun THEN new ELSE {}

\* The tables and the dead letter queue are left alone.
KeepTables == UNCHANGED <<CuboidOf, raises, started, s3index, indexed, letters, failed, excuses>>

(***************************************************************************)
(* startSfnLambda: the execution is started, once or, when an attempt that *)
(* failed had started it, twice; or the task fails.                        *)
(***************************************************************************)
StartSfn(r, next, new, failing) ==
  /\ \/ Calm /\ Becomes(r, next \union {new})
     \/ /\ Trouble
        /\ \E begun \in BOOLEAN : Becomes(r, {failing} \union Maybe({new}, begun))
  /\ KeepTables

(***************************************************************************)
(* start_indexing: the channel is found and Index.Start started, once.     *)
(***************************************************************************)
start_indexing ==
  /\ ~ started /\ Calm
  /\ started' = TRUE
  /\ work' = {Execution("Start", Items)}
  /\ UNCHANGED <<CuboidOf, raises, s3index, indexed, letters, failed, excuses>>

-----------------------------------------------------------------------------
(***************************************************************************)
(* Index.Start and Index.FindCuboids                                       *)
(***************************************************************************)
StartFindCuboids(r) ==
  /\ At(r, "Start", "start")
  /\ StartSfn(r, {}, Execution("FindCuboids", r.items), Moved(r, "report"))

CuboidsIn(items) == {CuboidOf[i] : i \in items}
ItemsOf(cuboids) == {i \in Items : CuboidOf[i] \in cuboids}

\* After more than a hundred queries an execution starts its successor.
AfterQuery == {"query", "respawn"}

\* A page may come back without any cuboid.
QueryS3IndexTable(r) ==
  /\ At(r, "FindCuboids", "query") /\ r.items # {}
  /\ \/ \E page \in (SUBSET CuboidsIn(r.items)) \ {{}} :
          /\ Cardinality(page) <= MaxItems
          /\ Calm
          /\ Becomes(r, {[r EXCEPT !.part = r.items \cap ItemsOf(page), !.step = "spawn"]})
     \/ Trouble /\ \E next \in AfterQuery \union {"report"} : Becomes(r, {Moved(r, next)})
  /\ KeepTables

AsynchEnqueueCuboids(r) ==
  /\ At(r, "FindCuboids", "spawn")
  /\ \E next \in AfterQuery :
       StartSfn(r, {Record("FindCuboids", next, r.items \ r.part, 0)},
                Execution("EnqueueCuboids", r.part), Moved(r, "report"))

StartNewFindCuboidsSFN(r) ==
  /\ At(r, "FindCuboids", "respawn")
  /\ StartSfn(r, {}, Execution("FindCuboids", r.items), Moved(r, "report"))

FoundAllCuboids(r) ==
  /\ At(r, "FindCuboids", "query") /\ r.items = {}
  /\ Becomes(r, {}) /\ Calm /\ KeepTables

-----------------------------------------------------------------------------
(***************************************************************************)
(* Index.EnqueueCuboids: a map over batches of keys, each with a loop that *)
(* sends on what the queue has not taken.                                  *)
(***************************************************************************)
BatchEnqueueCuboids(r) ==
  /\ At(r, "EnqueueCuboids", "enqueue")
  /\ \E batch \in SUBSET CuboidsIn(r.items) :
       /\ batch # {} /\ Cardinality(batch) <= BatchSize
       /\ \/ Calm /\ Becomes(r, Rest([r EXCEPT !.items = @ \ ItemsOf(batch)])
                                \union {CuboidKey(c) : c \in batch})
          \/ /\ Trouble
             /\ \E sent \in SUBSET batch :
                  Becomes(r, {[r EXCEPT !.part = r.items \cap ItemsOf(batch),
                                        !.step = "report part"]}
                             \union {CuboidKey(c) : c \in sent})
  /\ KeepTables

(***************************************************************************)
(* The queue of cuboid keys starts a supervisor for each message; a        *)
(* message may be delivered again after that.                              *)
(***************************************************************************)
startCuboidSupervisor(m) ==
  /\ m.at = "CuboidKeys"
  /\ \/ Calm /\ Becomes(m, {Execution("CuboidSupervisor", m.items)})
     \/ Trouble /\ Becomes(m, {m, Execution("CuboidSupervisor", m.items)})
  /\ KeepTables

\* The work is given out although the write has failed.
WriteS3IndexOrGoOn(r) ==
  /\ At(r, "CuboidSupervisor", "write s3")
  /\ Becomes(r, {Moved(r, "give out")})
  /\ \/ Calm /\ s3index' = s3index \union r.items
     \/ Trouble /\ UNCHANGED s3index
  /\ UNCHANGED <<CuboidOf, raises, started, indexed, letters, failed, excuses>>

(***************************************************************************)
(* Index.CuboidSupervisor: the ids of the cuboid go to the S3 index, then  *)
(* FanoutIdWriters is started for each worker's share of them.             *)
(***************************************************************************)
WriteS3Index(r) ==
  /\ At(r, "CuboidSupervisor", "write s3")
  /\ \/ Calm /\ s3index' = s3index \union r.items /\ Becomes(r, {Moved(r, "give out")})
     \/ Trouble /\ Becomes(r, {Moved(r, "report")}) /\ UNCHANGED s3index
  /\ UNCHANGED <<CuboidOf, raises, started, indexed, letters, failed, excuses>>

StartIndexIdWriters(r) ==
  /\ At(r, "CuboidSupervisor", "give out")
  /\ \E share \in (SUBSET r.items) \ {{}} :
       StartSfn(r, Rest([r EXCEPT !.items = @ \ share]), Execution("FanoutIdWriters", share),
                [r EXCEPT !.part = share, !.step = "report part"])

-----------------------------------------------------------------------------
(***************************************************************************)
(* Index.FanoutIdWriters: reads the ids back from the S3 index and sends   *)
(* them to the queue of ids, chunk by chunk.                               *)
(***************************************************************************)
LoadIdsFromS3Index(r) ==
  /\ At(r, "FanoutIdWriters", "load")
  /\ \/ Calm /\ Becomes(r, Rest(Record("FanoutIdWriters", "map", r.items \cap s3index, 0)))
     \/ Trouble /\ Becomes(r, {Moved(r, "report")})
  /\ KeepTables

ChunkLeft(r, ids) == Rest(Record("FanoutIdWriters", "map", r.items \ ids, 0))

\* The queue takes the ids of a chunk, or some of them.  The loop runs on while
\* not all are taken and there are attempts left; after the last one nothing
\* asks whether it is done.
EnqueueCuboidIds(r) ==
  /\ r.at = "FanoutIdWriters" /\ r.step \in {"map", "enqueue ids"}
  /\ \E chunk \in IF r.step = "map" THEN (SUBSET r.items) \ {{}} ELSE {r.part} :
     \E taken \in SUBSET chunk :
       LET attempt == IF r.step = "map" THEN 1 ELSE r.n
           left == chunk \ taken
       IN /\ Cardinality(chunk) <= IdChunkSize
          /\ \/ /\ left = {}
                /\ Becomes(r, ChunkLeft(r, chunk) \union IdsMessages(taken))
                /\ Calm /\ UNCHANGED excuses
             \/ /\ left # {} /\ attempt < LastAttempt
                /\ Becomes(r, {[r EXCEPT !.items = @ \ taken, !.part = left,
                                         !.n = attempt + 1, !.step = "enqueue ids"]}
                              \union IdsMessages(taken))
                /\ Calm /\ UNCHANGED excuses
             \/ /\ left # {} /\ attempt = LastAttempt /\ ~ raises
                /\ Becomes(r, ChunkLeft(r, chunk) \union IdsMessages(taken))
                /\ Calm /\ excuses' = excuses \union {"gave up"}
             \/ /\ IF attempt = LastAttempt /\ raises THEN Calm ELSE Trouble
                /\ Becomes(r, {[r EXCEPT !.part = chunk, !.step = "report part"]}
                              \union IdsMessages(taken))
                /\ UNCHANGED excuses
  /\ UNCHANGED <<CuboidOf, raises, started, s3index, indexed, letters, failed>>

\* The queue has no dead letter queue.
startIndexIdWriterOrDrop(m) ==
  /\ m.at = "Ids"
  /\ \/ Calm /\ Becomes(m, {Execution("IdWriter", m.items)})
     \/ Trouble /\ Becomes(m, IF m.n < MaxReceives THEN {[m EXCEPT !.n = @ + 1]} ELSE {})
  /\ KeepTables

(***************************************************************************)
(* The queue of ids starts an IdWriter for each message; after so many     *)
(* receives the message goes to the dead letter queue.                     *)
(***************************************************************************)
startIndexIdWriter(m) ==
  /\ m.at = "Ids"
  /\ \/ /\ Calm /\ Becomes(m, {Execution("IdWriter", m.items)})
        /\ UNCHANGED letters
     \/ /\ Trouble
        /\ \E begun \in BOOLEAN :
             Becomes(m, (IF m.n < MaxReceives THEN {[m EXCEPT !.n = @ + 1]} ELSE {})
                        \union Maybe({Execution("IdWriter", m.items)}, begun))
        /\ letters' = IF m.n < MaxReceives THEN letters ELSE letters \union m.items
  /\ UNCHANGED <<CuboidOf, raises, started, s3index, indexed, failed, excuses>>

(***************************************************************************)
(* Index.IdWriter.  The lambda is asked again as long as it answers with   *)
(* retries left; then it raises what DynamoDB said.  Errors that may pass  *)
(* send the ids back to their queue, others to the dead letter queue.      *)
(***************************************************************************)
WriteIdIndex(r) ==
  /\ At(r, "IdWriter", "write")
  /\ \E written \in SUBSET r.items :
       /\ indexed' = indexed \union written
       /\ \/ written = r.items /\ Calm /\ Becomes(r, {})
          \/ written # r.items /\ r.n > 0 /\ Calm /\ Becomes(r, {[r EXCEPT !.n = @ - 1]})
          \/ written # r.items /\ r.n = 0 /\ Trouble
             /\ Becomes(r, {[r EXCEPT !.n = 1, !.step = "reenqueue"]})
          \/ Trouble /\ Becomes(r, {Moved(r, "report")})
  /\ UNCHANGED <<CuboidOf, raises, started, s3index, letters, failed, excuses>>

\* The catch of this task gives no place for the error, which then replaces
\* the input: the state that writes the dead letter has neither ids nor queue,
\* and the execution fails without one.
WriteFailedReEnqueue(r) ==
  /\ At(r, "IdWriter", "reenqueue")
  /\ \E taken \in SUBSET r.items :
       \/ /\ taken = r.items
          /\ Becomes(r, IdsMessages(taken))
          /\ Calm /\ UNCHANGED <<failed, excuses>>
       \/ /\ taken # r.items /\ r.n < LastAttempt
          /\ Becomes(r, {[r EXCEPT !.items = @ \ taken, !.n = @ + 1]}
                        \union IdsMessages(taken))
          /\ Calm /\ UNCHANGED <<failed, excuses>>
       \/ /\ taken # r.items /\ r.n = LastAttempt /\ ~ raises
          /\ Becomes(r, {Moved(r, "report")} \union IdsMessages(taken))
          /\ Calm /\ UNCHANGED <<failed, excuses>>
       \/ /\ IF r.n = LastAttempt /\ raises THEN Calm ELSE Trouble
          /\ Becomes(r, IdsMessages(taken))
          /\ failed' = failed \union r.items
          /\ excuses' = excuses \union {"input gone"}
  /\ UNCHANGED <<CuboidOf, raises, started, s3index, indexed, letters>>

-----------------------------------------------------------------------------
\* The execution ends with the letter of the iteration.
ReportPartOnly(r) ==
  /\ r.step = "report part"
  /\ Becomes(r, {}) /\ Calm
  /\ letters' = letters \union r.part /\ failed' = failed \union r.items
  /\ UNCHANGED <<CuboidOf, raises, started, s3index, indexed, excuses>>

(***************************************************************************)
(* indexWriteFailedLambda: the input of the state that failed goes to the  *)
(* dead letter queue.  What fails inside a map is reported with the input  *)
(* of its iteration, and then makes the map fail, with the map's.          *)
(***************************************************************************)
ReportPart(r) ==
  /\ r.step = "report part"
  /\ Becomes(r, {Moved(r, "report")})
  /\ \/ Calm /\ letters' = letters \union r.part /\ UNCHANGED excuses
     \/ Trouble /\ excuses' = excuses \union {"refused"} /\ UNCHANGED letters
  /\ UNCHANGED <<CuboidOf, raises, started, s3index, indexed, failed>>

Report(r) ==
  /\ r.step = "report"
  /\ Becomes(r, {})
  /\ failed' = failed \union r.items
  /\ \/ Calm /\ letters' = letters \union r.all /\ UNCHANGED excuses
     \/ Trouble /\ excuses' = excuses \union {"refused"} /\ UNCHANGED letters
  /\ UNCHANGED <<CuboidOf, raises, started, s3index, indexed>>

\* An execution that takes longer than its timeout fails where it is.
TimesOut(r) ==
  /\ r.at \in StepFunctions
  /\ Trouble
  /\ Becomes(r, {})
  /\ failed' = failed \union r.items
  /\ excuses' = excuses \union {"timeout"}
  /\ UNCHANGED <<CuboidOf, raises, started, s3index, indexed, letters>>

Step(r) ==
  \/ StartFindCuboids(r)
  \/ QueryS3IndexTable(r) \/ AsynchEnqueueCuboids(r)
  \/ StartNewFindCuboidsSFN(r) \/ FoundAllCuboids(r)
  \/ BatchEnqueueCuboids(r)
  \/ startCuboidSupervisor(r) \/ WriteS3Index(r)
  \/ StartIndexIdWriters(r)
  \/ LoadIdsFromS3Index(r) \/ EnqueueCuboidIds(r)
  \/ startIndexIdWriter(r) \/ WriteIdIndex(r) \/ WriteFailedReEnqueue(r)
  \/ ReportPart(r) \/ Report(r)

Next == start_indexing \/ \E r \in work : Step(r) \/ TimesOut(r)

Spec == Init /\ [][Next]_vars

\* AWS runs what is started and delivers what is queued.
FairSpec == Spec /\ WF_vars(\E r \in work : Step(r))

-----------------------------------------------------------------------------
(***************************************************************************)
(* How the indexing of an item stands.                                     *)
(***************************************************************************)
Held == UNION {r.items : r \in work}

Standing(i) ==
  IF ~ started THEN "outside"
  ELSE IF i \in indexed THEN "indexed"
  ELSE IF i \in Held THEN "open"
  ELSE IF i \in letters THEN "reported"
  ELSE IF i \in failed THEN "failed"
  ELSE "forgotten"

\* Work is not forgotten: an item that was given to the indexing is in the id
\* index, in a queue, with a running execution, in a dead letter, or with an
\* execution that failed, whatever is started twice, delivered twice, sent in
\* part or interrupted; except for the ids that FanoutIdWriters drops when the
\* lambda answers its last attempt with done still false (index_fanout_id_writers.hsd:83).
NothingIsForgotten ==
  \A i \in Items : Standing(i) = "forgotten" => "gave up" \in excuses

\* What fails is in the dead letter queue (the catches of the six step
\* functions): an item that is neither indexed nor on its way is in a dead
\* letter, unless the queue refused a letter, an execution timed out, or one of
\* the two re-enqueuing loops ended in the way described at its step.
FailuresAreReported ==
  excuses = {} => \A i \in Items : Standing(i) \notin {"failed", "forgotten"}

\* AddReenqueueOp of index_id_writer.hsd sends ids that could neither be written
\* nor be put back on their queue on to WriteIdFailed, the state that writes a
\* dead letter: as long as that queue takes letters, nothing times out and
\* FanoutIdWriters does not give up, no id is without one.
FailedIdsAreInALetter ==
  excuses \cap {"refused", "timeout", "gave up"} = {} =>
    \A i \in Items : Standing(i) \notin {"failed", "forgotten"}

\* The six step functions keep the books of WorkLedger: no item turns back from
\* a record of its failure or from the index, nothing but the giving up of
\* FanoutIdWriters forgets one, and each open one is settled in the end.
Ledger ==
  INSTANCE WorkLedger WITH book <- [i \in Items |-> Standing(i)], forgets <- ~ raises
KeepsTheBooks == Ledger!Spec
=============================================================================
