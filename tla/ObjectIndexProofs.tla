------------------------- MODULE ObjectIndexProofs -------------------------
(***************************************************************************)
(* For every channel, every size of pages, batches, shares and chunks and  *)
(* any number of failures and repetitions: no item is forgotten by the     *)
(* indexing, failures are reported, and the step functions keep the books  *)
(* of WorkLedger, as far as safety goes.                                   *)
(***************************************************************************)
EXTENDS ObjectIndex, TLAPS

-----------------------------------------------------------------------------
(***************************************************************************)
(* Records                                                                 *)
(***************************************************************************)
Places == StepFunctions \union {"CuboidKeys", "Ids"}

\* x is the record with these fields.
Is(x, at, step, items, all, part, n) ==
  /\ x \in Records
  /\ x.at = at /\ x.step = step /\ x.items = items
  /\ x.all = all /\ x.part = part /\ x.n = n

LEMMA PlaceNames ==
  /\ StepFunctions = {"Start", "FindCuboids", "EnqueueCuboids", "CuboidSupervisor",
                      "FanoutIdWriters", "IdWriter"}
  /\ \A sfn \in StepFunctions : FirstStep[sfn] \in Steps
  /\ FirstStep["Start"] = "start" /\ FirstStep["FindCuboids"] = "query"
  /\ FirstStep["EnqueueCuboids"] = "enqueue" /\ FirstStep["CuboidSupervisor"] = "write s3"
  /\ FirstStep["FanoutIdWriters"] = "load" /\ FirstStep["IdWriter"] = "write"
<1>1. StepFunctions = {"Start", "FindCuboids", "EnqueueCuboids", "CuboidSupervisor",
                       "FanoutIdWriters", "IdWriter"}
  BY DEF StepFunctions, FirstStep
<1>2. /\ FirstStep["Start"] = "start" /\ FirstStep["FindCuboids"] = "query"
      /\ FirstStep["EnqueueCuboids"] = "enqueue"
      /\ FirstStep["CuboidSupervisor"] = "write s3"
      /\ FirstStep["FanoutIdWriters"] = "load" /\ FirstStep["IdWriter"] = "write"
  BY DEF FirstStep
<1>3. \A sfn \in StepFunctions : FirstStep[sfn] \in Steps
  BY <1>1, <1>2 DEF Steps
<1> QED BY <1>1, <1>2, <1>3

\* Nothing is below zero: the receives of a message, attempts, retries.
LEMMA NatsArePositive == \A k \in Nat : 0 <= k
OBVIOUS

\* The fields of a record are of their types.
LEMMA Fields ==
  ASSUME NEW r \in Records
  PROVE  /\ r.at \in Places /\ r.step \in Steps
         /\ r.items \subseteq Items /\ r.all \subseteq Items /\ r.part \subseteq Items
         /\ r.n \in Nat
BY DEF Records, Places

\* What Record makes.
LEMMA Made ==
  ASSUME NEW at \in Places, NEW s \in Steps, NEW S \in SUBSET Items, NEW k \in Nat
  PROVE  Is(Record(at, s, S, k), at, s, S, S, {}, k)
BY DEF Record, Records, Places, Is

\* What the steps make of a record.
LEMMA Changes ==
  ASSUME NEW r \in Records, NEW s \in Steps, NEW S \in SUBSET Items,
         NEW P \in SUBSET Items, NEW k \in Nat
  PROVE  /\ Is(Moved(r, s), r.at, s, r.items, r.all, r.part, r.n)
         /\ Is([r EXCEPT !.part = P, !.step = s], r.at, s, r.items, r.all, P, r.n)
         /\ Is([r EXCEPT !.items = @ \ S], r.at, r.step, r.items \ S, r.all, r.part, r.n)
         /\ Is([r EXCEPT !.n = k], r.at, r.step, r.items, r.all, r.part, k)
         /\ Is([r EXCEPT !.n = k, !.step = s], r.at, s, r.items, r.all, r.part, k)
         /\ Is([r EXCEPT !.items = @ \ S, !.part = P, !.n = k, !.step = s],
               r.at, s, r.items \ S, r.all, P, k)
         /\ Is([r EXCEPT !.items = @ \ S, !.n = k], r.at, r.step, r.items \ S, r.all,
               r.part, k)
<1> USE DEF Records, Is
<1>1. Is(Moved(r, s), r.at, s, r.items, r.all, r.part, r.n)
  BY DEF Moved
<1>2. Is([r EXCEPT !.part = P, !.step = s], r.at, s, r.items, r.all, P, r.n)
  OBVIOUS
<1>3. Is([r EXCEPT !.items = @ \ S], r.at, r.step, r.items \ S, r.all, r.part, r.n)
  OBVIOUS
<1>4. Is([r EXCEPT !.n = k], r.at, r.step, r.items, r.all, r.part, k)
  OBVIOUS
<1>5. Is([r EXCEPT !.n = k, !.step = s], r.at, s, r.items, r.all, r.part, k)
  OBVIOUS
<1>6. Is([r EXCEPT !.items = @ \ S, !.part = P, !.n = k, !.step = s],
         r.at, s, r.items \ S, r.all, P, k)
  OBVIOUS
<1>7. Is([r EXCEPT !.items = @ \ S, !.n = k], r.at, r.step, r.items \ S, r.all, r.part, k)
  OBVIOUS
<1> HIDE DEF Is
<1> QED BY <1>1, <1>2, <1>3, <1>4, <1>5, <1>6, <1>7

-----------------------------------------------------------------------------
(***************************************************************************)
(* The invariant                                                           *)
(***************************************************************************)
\* The cuboids of which S has an item are in it as a whole.
Whole(S) == \A i \in S, j \in Items : CuboidOf[i] = CuboidOf[j] => j \in S

\* Besides its shape: messages wait; only a batch at hand is a part; what is read
\* back from the S3 index is in it (stored); and cuboids are not divided until
\* their keys are queued.
Good(r, stored) ==
  /\ WellFormed(r)
  /\ r.at \in {"CuboidKeys", "Ids"} => r.step = "queued"
  /\ r.step \notin {"spawn", "enqueue ids", "report part", "report"} => r.part = {}
  /\ r.at = "FanoutIdWriters" \/ At(r, "CuboidSupervisor", "give out")
       => r.items \subseteq stored
  /\ r.at \in {"Start", "FindCuboids", "EnqueueCuboids"} => Whole(r.items)
  /\ At(r, "FindCuboids", "spawn") => Whole(r.part)

Types ==
  /\ CuboidOf \in Channels /\ raises \in BOOLEAN /\ started \in BOOLEAN
  /\ s3index \subseteq Items /\ indexed \subseteq Items
  /\ letters \subseteq Items /\ failed \subseteq Items
  /\ excuses \subseteq Excuses
  /\ troubles \in 0..MaxTroubles

NothingBefore ==
  ~ started => work = {} /\ indexed = {} /\ letters = {} /\ failed = {} /\ excuses = {}

\* What a lambda that raises has to do with giving up.
Honest == "gave up" \in excuses => ~ raises

Traced ==
  started /\ "gave up" \notin excuses
    => Items \subseteq indexed \union Held \union letters \union failed
Reported ==
  started /\ excuses = {} => Items \subseteq indexed \union Held \union letters

IInv ==
  /\ Types
  /\ \A r \in work : Good(r, s3index)
  /\ NothingBefore /\ Honest /\ Traced /\ Reported

-----------------------------------------------------------------------------
(***************************************************************************)
(* What each step does: it hands the items of a record on to new records,  *)
(* to the index, to a dead letter or to a failed execution.                *)
(***************************************************************************)
ItemsIn(new) == UNION {x.items : x \in new}

Grows ==
  /\ UNCHANGED <<CuboidOf, raises, started>>
  /\ s3index \subseteq s3index' /\ s3index' \subseteq Items
  /\ indexed \subseteq indexed' /\ indexed' \subseteq Items
  /\ letters \subseteq letters' /\ letters' \subseteq Items
  /\ failed \subseteq failed' /\ failed' \subseteq Items
  /\ excuses \subseteq excuses' /\ excuses' \subseteq Excuses
  /\ troubles' \in 0..MaxTroubles

Settles(i) ==
  \/ i \in indexed' \union letters'
  \/ excuses' # {} /\ i \in failed'
  \/ "gave up" \in excuses'

Handover(r, new) ==
  /\ Becomes(r, new)
  /\ Grows
  /\ \A x \in new : Good(x, s3index') /\ x.items \subseteq r.items
  /\ \A i \in r.items : i \in ItemsIn(new) \/ Settles(i)
  /\ "gave up" \in excuses' => "gave up" \in excuses \/ ~ raises

\* The bound on failures is kept.
LEMMA TroublesBounded ==
  ASSUME Types, Trouble \/ Calm
  PROVE  troubles' \in 0..MaxTroubles
BY IndexAssumption DEF Types, Trouble, Calm

\* A step that leaves the tables alone has to hand on every item.
LEMMA QuietStep ==
  ASSUME IInv, NEW r \in work, NEW new, KeepTables, Trouble \/ Calm, Becomes(r, new),
         \A x \in new : Good(x, s3index) /\ x.items \subseteq r.items,
         r.items \subseteq ItemsIn(new)
  PROVE  Handover(r, new)
<1>1. Grows
  BY TroublesBounded DEF IInv, Types, KeepTables, Grows
<1>2. s3index' = s3index /\ excuses' = excuses
  BY DEF KeepTables
<1> QED BY <1>1, <1>2 DEF Handover

\* A record in the work is a record.
LEMMA WorkIsGood ==
  ASSUME IInv, NEW r \in work
  PROVE  Good(r, s3index) /\ WellFormed(r) /\ r \in Records
BY DEF IInv, Good, WellFormed

\* A new execution.
LEMMA Executions ==
  ASSUME NEW sfn \in StepFunctions, NEW S \in SUBSET Items, NEW stored,
         sfn = "FanoutIdWriters" => S \subseteq stored,
         sfn \in {"Start", "FindCuboids", "EnqueueCuboids"} => Whole(S)
  PROVE  /\ Good(Execution(sfn, S), stored)
         /\ Execution(sfn, S).items = S
<1> DEFINE n == IF sfn = "IdWriter" THEN Retries ELSE 0
<1>1. n \in Nat /\ sfn \in Places /\ FirstStep[sfn] \in Steps
  BY IndexAssumption, PlaceNames DEF Places
<1>2. Is(Execution(sfn, S), sfn, FirstStep[sfn], S, S, {}, n)
  BY <1>1, Made DEF Execution
<1>3. /\ sfn \in {"Start", "FindCuboids", "EnqueueCuboids", "CuboidSupervisor",
                  "FanoutIdWriters", "IdWriter"}
      /\ FirstStep[sfn] \in {"start", "query", "enqueue", "write s3", "load", "write"}
  BY PlaceNames
<1>4. WellFormed(Execution(sfn, S))
  BY <1>2, <1>3 DEF WellFormed, Is
<1>5. Good(Execution(sfn, S), stored)
  BY <1>2, <1>3, <1>4 DEF Good, At, Is
<1> QED BY <1>2, <1>5 DEF Is

\* A record made for a place and a step.
LEMMA RecordsMade ==
  ASSUME NEW at \in Places, NEW s \in Steps \ {"enqueue ids", "reenqueue"},
         NEW S \in SUBSET Items, NEW stored,
         at # "CuboidSupervisor", at \in {"CuboidKeys", "Ids"} => s = "queued",
         at = "FanoutIdWriters" => S \subseteq stored,
         at \in {"Start", "FindCuboids", "EnqueueCuboids"} => Whole(S)
  PROVE  /\ Good(Record(at, s, S, 0), stored)
         /\ Record(at, s, S, 0).items = S
<1>1. Is(Record(at, s, S, 0), at, s, S, S, {}, 0)
  BY Made
<1>2. WellFormed(Record(at, s, S, 0))
  <2> DEFINE x == Record(at, s, S, 0)
  <2>1. /\ x \in Records /\ x.step = s /\ x.items = S /\ x.all = S /\ x.part = {}
        /\ x.n = 0
    BY <1>1 DEF Is
  <2>2. MaxReceives \in Nat
    BY IndexAssumption
  <2> HIDE DEF x
  <2>3. x.part \subseteq x.items /\ x.items \subseteq x.all
    BY <2>1
  <2>6. x.n <= MaxReceives
    <3> HIDE DEF x
    <3>3. 0 <= MaxReceives
      BY <2>2, NatsArePositive, Zenon
    <3>2. x.n = 0
      BY <2>1
    <3> QED BY <3>3, <3>2, Zenon
  <2>4. x.step \notin {"enqueue ids", "reenqueue"}
    BY <2>1
  <2>5. WellFormed(x)
    BY <2>1, <2>3, <2>4, <2>6 DEF WellFormed
  <2> QED BY <2>5 DEF x
<1>3. Whole({})
  BY DEF Whole
<1> QED BY <1>1, <1>2, <1>3 DEF Good, At, Is

\* A record that goes on to another step, or to the report of its failure.
LEMMA MovesOn ==
  ASSUME IInv, NEW r \in work, r.at \in StepFunctions, NEW stored, s3index \subseteq stored,
         NEW s \in Steps \ {"spawn", "enqueue ids", "reenqueue"},
         r.part = {} \/ s \in {"report", "report part"},
         s = "give out" => r.items \subseteq stored
  PROVE  Good(Moved(r, s), stored) /\ Moved(r, s).items = r.items
<1>1. Is(Moved(r, s), r.at, s, r.items, r.all, r.part, r.n)
  BY WorkIsGood, Changes, Fields
<1>2. WellFormed(r) /\ Good(r, s3index)
  BY WorkIsGood
<1>3. r.at \notin {"CuboidKeys", "Ids"}
  BY PlaceNames
<1>4. WellFormed(Moved(r, s))
  BY <1>1, <1>2, <1>3 DEF WellFormed, Is
<1>5. Good(Moved(r, s), stored)
  BY <1>1, <1>2, <1>3, <1>4 DEF Good, Is, At
<1> QED BY <1>1, <1>5 DEF Is

\* The same with the part at hand, for a map whose iteration fails.
LEMMA PartFails ==
  ASSUME IInv, NEW r \in work, r.at \in StepFunctions, NEW P \in SUBSET r.items
  PROVE  LET failing == [r EXCEPT !.part = P, !.step = "report part"]
         IN Good(failing, s3index) /\ failing.items = r.items
<1> DEFINE failing == [r EXCEPT !.part = P, !.step = "report part"]
<1>1. WellFormed(r) /\ Good(r, s3index) /\ r \in Records /\ P \subseteq Items
  BY WorkIsGood, Fields
<1>2. Is(failing, r.at, "report part", r.items, r.all, P, r.n)
  BY <1>1, Changes DEF Steps
<1> HIDE DEF failing
<1>3. r.at \notin {"CuboidKeys", "Ids"}
  BY PlaceNames
<1>4. WellFormed(failing)
  BY <1>1, <1>2, <1>3 DEF WellFormed, Is
<1>5. Good(failing, s3index)
  BY <1>1, <1>2, <1>3, <1>4 DEF Good, Is, At
<1> QED BY <1>2, <1>5 DEF Is, failing

\* startSfnLambda hands the items on, to the new execution and the rest of the
\* work, or to the state that reports the failure and, maybe, the new execution.
LEMMA StartSfnHandsOver ==
  ASSUME IInv, NEW r \in work, NEW next, NEW new, NEW failing,
         StartSfn(r, next, new, failing),
         \A x \in next : Good(x, s3index) /\ x.items \subseteq r.items,
         Good(new, s3index), new.items \subseteq r.items,
         Good(failing, s3index), failing.items = r.items,
         r.items \subseteq ItemsIn(next) \union new.items
  PROVE  \E all : Handover(r, all)
<1>1. CASE Calm /\ Becomes(r, next \union {new})
  <2>1. r.items \subseteq ItemsIn(next \union {new})
    BY DEF ItemsIn
  <2>2. \A x \in next \union {new} : Good(x, s3index) /\ x.items \subseteq r.items
    OBVIOUS
  <2>3. KeepTables
    BY DEF StartSfn
  <2>4. Handover(r, next \union {new})
    BY <1>1, <2>1, <2>2, <2>3, QuietStep
  <2> QED BY <2>4
<1>2. CASE Trouble /\ \E begun \in BOOLEAN : Becomes(r, {failing} \union Maybe({new}, begun))
  <2>1. PICK begun \in BOOLEAN : Becomes(r, {failing} \union Maybe({new}, begun))
    BY <1>2
  <2>2. r.items \subseteq ItemsIn({failing} \union Maybe({new}, begun))
    BY DEF ItemsIn
  <2>3. \A x \in {failing} \union Maybe({new}, begun) :
          Good(x, s3index) /\ x.items \subseteq r.items
    BY DEF Maybe
  <2>4. Handover(r, {failing} \union Maybe({new}, begun))
    BY <1>2, <2>1, <2>2, <2>3, QuietStep DEF StartSfn
  <2> QED BY <2>4
<1> QED BY <1>1, <1>2 DEF StartSfn

\* The names that the steps of the records have.
LEMMA StepNames ==
  /\ {"query", "spawn", "respawn", "report", "report part", "give out", "map",
      "enqueue ids", "reenqueue", "queued", "enqueue"} \subseteq Steps
  /\ AfterQuery = {"query", "respawn"}
BY DEF Steps, AfterQuery

LEMMA StartFindCuboidsHandsOver ==
  ASSUME IInv, NEW r \in work, StartFindCuboids(r)
  PROVE  \E new : Handover(r, new)
<1>1. Good(r, s3index) /\ r \in Records /\ r.at = "Start" /\ r.items \subseteq Items
  BY WorkIsGood, Fields DEF StartFindCuboids, At
<1>2. /\ Good(Execution("FindCuboids", r.items), s3index)
      /\ Execution("FindCuboids", r.items).items = r.items
  <2>1. Whole(r.items) /\ r.items \in SUBSET Items
    BY <1>1 DEF Good
  <2> QED BY <2>1, Executions, PlaceNames
<1>3. Good(Moved(r, "report"), s3index) /\ Moved(r, "report").items = r.items
  BY <1>1, MovesOn, StepNames, PlaceNames
<1> QED BY <1>2, <1>3, StartSfnHandsOver DEF StartFindCuboids

LEMMA QueryS3IndexTableHandsOver ==
  ASSUME IInv, NEW r \in work, QueryS3IndexTable(r)
  PROVE  \E new : Handover(r, new)
<1>1. /\ Good(r, s3index) /\ WellFormed(r) /\ r \in Records /\ r.items \subseteq Items
      /\ r.at = "FindCuboids" /\ r.step = "query" /\ KeepTables
  BY WorkIsGood, Fields DEF QueryS3IndexTable, At
<1>2. r.part = {} /\ Whole(r.items)
  BY <1>1 DEF Good
<1>3. ASSUME NEW page, Calm,
             Becomes(r, {[r EXCEPT !.part = r.items \cap ItemsOf(page), !.step = "spawn"]})
      PROVE  \E new : Handover(r, new)
  <2> DEFINE part == r.items \cap ItemsOf(page)
             x == [r EXCEPT !.part = part, !.step = "spawn"]
  <2>1. Is(x, "FindCuboids", "spawn", r.items, r.all, part, r.n)
    BY <1>1, Changes, StepNames
  <2>2. Whole(part)
    BY <1>2 DEF Whole, ItemsOf
  <2> HIDE DEF part, x
  <2>3. part \subseteq r.items
    BY DEF part
  <2>4. WellFormed(x)
    BY <1>1, <2>1, <2>3 DEF WellFormed, Is
  <2>5. Good(x, s3index)
    BY <1>2, <2>1, <2>2, <2>4 DEF Good, At, Is
  <2>6. r.items \subseteq ItemsIn({x}) /\ x.items \subseteq r.items
    BY <2>1 DEF ItemsIn, Is
  <2>7. Becomes(r, {x})
    BY <1>3 DEF x, part
  <2>8. Handover(r, {x})
    BY <1>1, <1>3, <2>5, <2>6, <2>7, QuietStep
  <2> QED BY <2>8
<1>4. ASSUME NEW next \in AfterQuery \union {"report"}, Trouble, Becomes(r, {Moved(r, next)})
      PROVE  \E new : Handover(r, new)
  <2>1. Good(Moved(r, next), s3index) /\ Moved(r, next).items = r.items
    BY <1>1, <1>2, MovesOn, StepNames, PlaceNames
  <2>2. r.items \subseteq ItemsIn({Moved(r, next)})
    BY <2>1 DEF ItemsIn
  <2>3. Handover(r, {Moved(r, next)})
    BY <1>1, <1>4, <2>1, <2>2, QuietStep
  <2> QED BY <2>3
<1> QED BY <1>3, <1>4 DEF QueryS3IndexTable

LEMMA AsynchEnqueueCuboidsHandsOver ==
  ASSUME IInv, NEW r \in work, AsynchEnqueueCuboids(r)
  PROVE  \E new : Handover(r, new)
<1>1. /\ Good(r, s3index) /\ WellFormed(r) /\ r \in Records
      /\ r.items \subseteq Items /\ r.part \subseteq r.items
      /\ r.at = "FindCuboids" /\ r.step = "spawn"
  BY WorkIsGood, Fields DEF AsynchEnqueueCuboids, At, WellFormed
<1>2. Whole(r.items) /\ Whole(r.part)
  BY <1>1 DEF Good, At
<1>3. Whole(r.items \ r.part)
  BY <1>1, <1>2 DEF Whole
<1>4. /\ Good(Execution("EnqueueCuboids", r.part), s3index)
      /\ Execution("EnqueueCuboids", r.part).items = r.part
  BY <1>1, <1>2, Executions, PlaceNames
<1>5. Good(Moved(r, "report"), s3index) /\ Moved(r, "report").items = r.items
  BY <1>1, MovesOn, StepNames, PlaceNames
<1>6. PICK next \in AfterQuery :
        StartSfn(r, {Record("FindCuboids", next, r.items \ r.part, 0)},
                 Execution("EnqueueCuboids", r.part), Moved(r, "report"))
  BY DEF AsynchEnqueueCuboids
<1> DEFINE rest == Record("FindCuboids", next, r.items \ r.part, 0)
<1>7. Good(rest, s3index) /\ rest.items = r.items \ r.part
  <2>1. "FindCuboids" \in Places /\ next \in Steps \ {"enqueue ids", "reenqueue"}
    BY StepNames, PlaceNames DEF Places
  <2>2. r.items \ r.part \in SUBSET Items
    BY <1>1
  <2> QED BY ONLY <1>3, <2>1, <2>2, RecordsMade
<1> HIDE DEF rest
<1>8. r.items \subseteq ItemsIn({rest}) \union Execution("EnqueueCuboids", r.part).items
  BY <1>4, <1>7 DEF ItemsIn
<1>9. StartSfn(r, {rest}, Execution("EnqueueCuboids", r.part), Moved(r, "report"))
  BY <1>6 DEF rest
<1> QED BY <1>1, <1>4, <1>5, <1>7, <1>8, <1>9, StartSfnHandsOver

LEMMA StartNewFindCuboidsSFNHandsOver ==
  ASSUME IInv, NEW r \in work, StartNewFindCuboidsSFN(r)
  PROVE  \E new : Handover(r, new)
<1>1. Good(r, s3index) /\ r \in Records /\ r.at = "FindCuboids" /\ r.items \subseteq Items
  BY WorkIsGood, Fields DEF StartNewFindCuboidsSFN, At
<1>2. /\ Good(Execution("FindCuboids", r.items), s3index)
      /\ Execution("FindCuboids", r.items).items = r.items
  <2>1. Whole(r.items) /\ r.items \in SUBSET Items
    BY <1>1 DEF Good
  <2> QED BY <2>1, Executions, PlaceNames
<1>3. Good(Moved(r, "report"), s3index) /\ Moved(r, "report").items = r.items
  BY <1>1, MovesOn, StepNames, PlaceNames
<1> QED BY <1>2, <1>3, StartSfnHandsOver DEF StartNewFindCuboidsSFN

LEMMA FoundAllCuboidsHandsOver ==
  ASSUME IInv, NEW r \in work, FoundAllCuboids(r)
  PROVE  \E new : Handover(r, new)
<1>1. Handover(r, {})
  BY QuietStep DEF FoundAllCuboids
<1> QED BY <1>1

\* What is left of a record: itself, unless it has nothing to do.
LEMMA Rests ==
  ASSUME NEW x
  PROVE  ItemsIn(Rest(x)) = x.items /\ \A y \in Rest(x) : y = x
BY DEF ItemsIn, Rest

\* Messages with ids, and none without.
LEMMA MessagesMade ==
  ASSUME NEW ids \in SUBSET Items, NEW stored
  PROVE  /\ \A x \in IdsMessages(ids) : Good(x, stored) /\ x.items = ids
         /\ ItemsIn(IdsMessages(ids)) = ids
<1>1. "Ids" \in Places /\ "queued" \in Steps \ {"enqueue ids", "reenqueue"}
  BY StepNames DEF Places
<1>2. Good(IdsMessage(ids), stored) /\ IdsMessage(ids).items = ids
  BY <1>1, RecordsMade DEF IdsMessage
<1>3. \A x \in IdsMessages(ids) : x = IdsMessage(ids)
  BY DEF IdsMessages
<1>4. ItemsIn(IdsMessages(ids)) = ids
  BY <1>2 DEF IdsMessages, ItemsIn
<1> QED BY <1>2, <1>3, <1>4

\* The key of a cuboid that is among whole ones stands for items of theirs.
LEMMA KeysMade ==
  ASSUME NEW S \in SUBSET Items, Whole(S), NEW batch \in SUBSET CuboidsIn(S), NEW stored
  PROVE  \A c \in batch : /\ Good(CuboidKey(c), stored)
                          /\ CuboidKey(c).items = {i \in Items : CuboidOf[i] = c}
                          /\ CuboidKey(c).items \subseteq S
<1>1. SUFFICES ASSUME NEW c \in batch
               PROVE  /\ Good(CuboidKey(c), stored)
                      /\ CuboidKey(c).items = {i \in Items : CuboidOf[i] = c}
                      /\ CuboidKey(c).items \subseteq S
  OBVIOUS
<1> DEFINE K == {i \in Items : CuboidOf[i] = c}
<1>2. K \in SUBSET Items
  OBVIOUS
<1>3. K \subseteq S
  BY DEF Whole, CuboidsIn
<1> HIDE DEF K
<1>4. "CuboidKeys" \in Places /\ "queued" \in Steps \ {"enqueue ids", "reenqueue"}
  BY StepNames DEF Places
<1>5. Good(Record("CuboidKeys", "queued", K, 0), stored)
      /\ Record("CuboidKeys", "queued", K, 0).items = K
  BY <1>2, <1>4, RecordsMade
<1>6. CuboidKey(c) = Record("CuboidKeys", "queued", K, 0)
  BY DEF CuboidKey, K
<1> QED BY <1>3, <1>5, <1>6 DEF K

\* A record that goes on without some of its items.
LEMMA GoesOnWithout ==
  ASSUME IInv, NEW r \in work, r.part = {}, NEW S \in SUBSET Items,
         r.step \notin {"enqueue ids", "reenqueue"},
         r.at = "CuboidSupervisor" \/ Whole(r.items \ S)
  PROVE  Good([r EXCEPT !.items = @ \ S], s3index)
         /\ [r EXCEPT !.items = @ \ S].items = r.items \ S
<1> DEFINE x == [r EXCEPT !.items = @ \ S]
<1>1. Good(r, s3index) /\ WellFormed(r) /\ r \in Records
  BY WorkIsGood
<1>2. "report" \in Steps /\ {} \in SUBSET Items /\ 0 \in Nat
  BY StepNames
<1>3. Is(x, r.at, r.step, r.items \ S, r.all, r.part, r.n)
  BY <1>1, <1>2, Changes
<1> HIDE DEF x
<1>4. WellFormed(x)
  BY <1>1, <1>3 DEF WellFormed, Is
<1>5. Good(x, s3index)
  BY <1>1, <1>3, <1>4 DEF Good, Is, At
<1> QED BY <1>3, <1>5 DEF Is, x

LEMMA BatchEnqueueCuboidsHandsOver ==
  ASSUME IInv, NEW r \in work, BatchEnqueueCuboids(r)
  PROVE  \E new : Handover(r, new)
<1>1. /\ Good(r, s3index) /\ r \in Records /\ r.items \subseteq Items
      /\ r.at = "EnqueueCuboids" /\ r.step = "enqueue" /\ KeepTables
  BY WorkIsGood, Fields DEF BatchEnqueueCuboids, At
<1>2. r.part = {} /\ Whole(r.items)
  BY <1>1 DEF Good
<1>3. PICK batch \in SUBSET CuboidsIn(r.items) :
        \/ Calm /\ Becomes(r, Rest([r EXCEPT !.items = @ \ ItemsOf(batch)])
                              \union {CuboidKey(c) : c \in batch})
        \/ Trouble /\ \E sent \in SUBSET batch :
             Becomes(r, {[r EXCEPT !.part = r.items \cap ItemsOf(batch),
                                   !.step = "report part"]}
                        \union {CuboidKey(c) : c \in sent})
  BY DEF BatchEnqueueCuboids
<1>4. \A c \in batch : /\ Good(CuboidKey(c), s3index)
                      /\ CuboidKey(c).items = {i \in Items : CuboidOf[i] = c}
                      /\ CuboidKey(c).items \subseteq r.items
  <2>1. r.items \in SUBSET Items
    BY <1>1
  <2> QED BY ONLY <1>2, <2>1, KeysMade
<1> DEFINE S == ItemsOf(batch)
           rest == [r EXCEPT !.items = @ \ S]
           failing == [r EXCEPT !.part = r.items \cap S, !.step = "report part"]
<1>5. CASE Calm /\ Becomes(r, Rest(rest) \union {CuboidKey(c) : c \in batch})
  <2>1. S \in SUBSET Items /\ Whole(r.items \ S)
    BY <1>1, <1>2 DEF ItemsOf, Whole
  <2>2. \A i \in S : \E c \in batch : i \in CuboidKey(c).items
    BY <1>4 DEF ItemsOf
  <2> HIDE DEF S
  <2>3. Good(rest, s3index) /\ rest.items = r.items \ S
    BY <1>1, <1>2, <2>1, GoesOnWithout
  <2> HIDE DEF rest
  <2> DEFINE new == Rest(rest) \union {CuboidKey(c) : c \in batch}
  <2>4. \A x \in new : Good(x, s3index) /\ x.items \subseteq r.items
    BY <1>4, <2>3, Rests
  <2>5. r.items \subseteq ItemsIn(new)
    <3>1. ItemsIn(Rest(rest)) = r.items \ S
      BY <2>3, Rests
    <3>2. ItemsIn(Rest(rest)) \subseteq ItemsIn(new)
      BY DEF ItemsIn
    <3>3. S \subseteq ItemsIn(new)
      BY <2>2 DEF ItemsIn
    <3> QED BY <3>1, <3>2, <3>3
  <2>6. Handover(r, new)
    BY <1>1, <1>5, <2>4, <2>5, QuietStep
  <2> QED BY <2>6
<1>6. ASSUME NEW sent \in SUBSET batch, Trouble,
             Becomes(r, {failing} \union {CuboidKey(c) : c \in sent})
      PROVE  \E new : Handover(r, new)
  <2>1. Good(failing, s3index) /\ failing.items = r.items
    BY <1>1, PartFails, PlaceNames
  <2> HIDE DEF failing
  <2> DEFINE new == {failing} \union {CuboidKey(c) : c \in sent}
  <2>2. \A x \in new : Good(x, s3index) /\ x.items \subseteq r.items
    BY <1>4, <2>1
  <2>3. r.items \subseteq ItemsIn(new)
    BY <2>1 DEF ItemsIn
  <2>4. Handover(r, new)
    BY <1>1, <1>6, <2>2, <2>3, QuietStep
  <2> QED BY <2>4
<1> QED BY <1>3, <1>5, <1>6

LEMMA startCuboidSupervisorHandsOver ==
  ASSUME IInv, NEW r \in work, startCuboidSupervisor(r)
  PROVE  \E new : Handover(r, new)
<1>1. Good(r, s3index) /\ r \in Records /\ r.items \subseteq Items /\ KeepTables
  BY WorkIsGood, Fields DEF startCuboidSupervisor
<1> DEFINE x == Execution("CuboidSupervisor", r.items)
<1>2. Good(x, s3index) /\ x.items = r.items
  BY <1>1, Executions, PlaceNames
<1> HIDE DEF x
<1>3. (Calm /\ Becomes(r, {x})) \/ (Trouble /\ Becomes(r, {r, x}))
  BY DEF startCuboidSupervisor, x
<1>4. CASE Calm /\ Becomes(r, {x})
  <2>1. r.items \subseteq ItemsIn({x})
    BY <1>2 DEF ItemsIn
  <2>2. Handover(r, {x})
    BY <1>1, <1>2, <1>4, <2>1, QuietStep
  <2> QED BY <2>2
<1>5. CASE Trouble /\ Becomes(r, {r, x})
  <2>1. r.items \subseteq ItemsIn({r, x})
    BY DEF ItemsIn
  <2>2. \A y \in {r, x} : Good(y, s3index) /\ y.items \subseteq r.items
    BY <1>1, <1>2
  <2>3. Handover(r, {r, x})
    BY <1>1, <1>5, <2>1, <2>2, QuietStep
  <2> QED BY <2>3
<1> QED BY <1>3, <1>4, <1>5

LEMMA WriteS3IndexHandsOver ==
  ASSUME IInv, NEW r \in work, WriteS3Index(r)
  PROVE  \E new : Handover(r, new)
<1>1. /\ Good(r, s3index) /\ r \in Records /\ r.items \subseteq Items
      /\ r.at = "CuboidSupervisor" /\ r.step = "write s3" /\ r.at \in StepFunctions
  BY WorkIsGood, Fields, PlaceNames DEF WriteS3Index, At
<1>2. r.part = {}
  BY <1>1 DEF Good
<1>3. PICK next \in {"give out", "report"} :
        /\ Becomes(r, {Moved(r, next)})
        /\ Trouble \/ Calm
        /\ s3index' = IF next = "give out" THEN s3index \union r.items ELSE s3index
  BY DEF WriteS3Index
<1>4. /\ UNCHANGED <<CuboidOf, raises, started, indexed, letters, failed, excuses>>
      /\ s3index \subseteq s3index'
      /\ next = "give out" => r.items \subseteq s3index'
      /\ s3index' \subseteq s3index \union r.items
  BY <1>3 DEF WriteS3Index
<1>5. Grows
  BY <1>1, <1>3, <1>4, TroublesBounded DEF Grows, IInv, Types
<1>6. Good(Moved(r, next), s3index') /\ Moved(r, next).items = r.items
  BY <1>1, <1>2, <1>4, MovesOn, StepNames
<1>7. r.items \subseteq ItemsIn({Moved(r, next)})
  BY <1>6 DEF ItemsIn
<1>8. \A x \in {Moved(r, next)} : Good(x, s3index') /\ x.items \subseteq r.items
  BY <1>6
<1>9. excuses' = excuses
  BY <1>4
<1>10. \A i \in r.items : i \in ItemsIn({Moved(r, next)})
  BY <1>7
<1>11. Handover(r, {Moved(r, next)})
  BY <1>3, <1>5, <1>8, <1>9, <1>10, Zenon DEF Handover
<1> QED BY <1>11

LEMMA StartIndexIdWritersHandsOver ==
  ASSUME IInv, NEW r \in work, StartIndexIdWriters(r)
  PROVE  \E new : Handover(r, new)
<1>1. /\ Good(r, s3index) /\ r \in Records /\ r.items \subseteq Items
      /\ r.at = "CuboidSupervisor" /\ r.step = "give out" /\ r.at \in StepFunctions
  BY WorkIsGood, Fields, PlaceNames DEF StartIndexIdWriters, At
<1>2. r.part = {} /\ r.items \subseteq s3index
  BY <1>1 DEF Good, At
<1>3. PICK share \in SUBSET r.items :
        StartSfn(r, Rest([r EXCEPT !.items = @ \ share]), Execution("FanoutIdWriters", share),
                 [r EXCEPT !.part = share, !.step = "report part"])
  BY DEF StartIndexIdWriters
<1> DEFINE rest == [r EXCEPT !.items = @ \ share]
           new == Execution("FanoutIdWriters", share)
           failing == [r EXCEPT !.part = share, !.step = "report part"]
<1>4. Good(new, s3index) /\ new.items = share
  BY <1>1, <1>2, Executions, PlaceNames
<1>5. Good(failing, s3index) /\ failing.items = r.items
  BY <1>1, PartFails
<1>6. Good(rest, s3index) /\ rest.items = r.items \ share
  <2>1. share \in SUBSET Items
    BY <1>1
  <2> QED BY <1>1, <1>2, <2>1, GoesOnWithout
<1> QED
  <2> HIDE DEF rest, new, failing
  <2>1. \A x \in Rest(rest) : Good(x, s3index) /\ x.items \subseteq r.items
    BY <1>6, Rests
  <2>2. r.items \subseteq ItemsIn(Rest(rest)) \union new.items
    BY <1>4, <1>6, Rests
  <2>3. StartSfn(r, Rest(rest), new, failing)
    BY <1>3 DEF rest, new, failing
  <2> QED BY <1>4, <1>5, <2>1, <2>2, <2>3, StartSfnHandsOver

LEMMA LoadIdsFromS3IndexHandsOver ==
  ASSUME IInv, NEW r \in work, LoadIdsFromS3Index(r)
  PROVE  \E new : Handover(r, new)
<1>1. /\ Good(r, s3index) /\ r \in Records /\ r.items \subseteq Items /\ KeepTables
      /\ r.at = "FanoutIdWriters" /\ r.step = "load" /\ r.at \in StepFunctions
  BY WorkIsGood, Fields, PlaceNames DEF LoadIdsFromS3Index, At
<1>2. r.part = {} /\ r.items \subseteq s3index
  BY <1>1 DEF Good
<1> DEFINE loaded == Record("FanoutIdWriters", "map", r.items \cap s3index, 0)
<1>3. Good(loaded, s3index) /\ loaded.items = r.items
  <2>1. r.items \cap s3index = r.items /\ r.items \cap s3index \in SUBSET Items
        /\ r.items \cap s3index \subseteq s3index
    BY <1>1, <1>2
  <2>2. "FanoutIdWriters" \in Places /\ "map" \in Steps \ {"enqueue ids", "reenqueue"}
    BY StepNames, PlaceNames DEF Places
  <2> DEFINE both == r.items \cap s3index
  <2>3. both \in SUBSET Items /\ both \subseteq s3index
    BY <2>1
  <2> HIDE DEF both
  <2>4. /\ Good(Record("FanoutIdWriters", "map", both, 0), s3index)
        /\ Record("FanoutIdWriters", "map", both, 0).items = both
    BY ONLY <2>2, <2>3, RecordsMade
  <2>5. Good(loaded, s3index) /\ loaded.items = r.items \cap s3index
    BY <2>4 DEF both
  <2> HIDE DEF loaded
  <2> QED BY <2>1, <2>5
<1>4. Good(Moved(r, "report"), s3index) /\ Moved(r, "report").items = r.items
  BY <1>1, MovesOn, StepNames
<1> HIDE DEF loaded
<1>5. (Calm /\ Becomes(r, Rest(loaded))) \/ (Trouble /\ Becomes(r, {Moved(r, "report")}))
  BY DEF LoadIdsFromS3Index, loaded
<1>6. CASE Calm /\ Becomes(r, Rest(loaded))
  <2>1. r.items \subseteq ItemsIn(Rest(loaded))
    BY <1>3, Rests
  <2>2. \A x \in Rest(loaded) : Good(x, s3index) /\ x.items \subseteq r.items
    BY <1>3, Rests
  <2>3. Handover(r, Rest(loaded))
    BY <1>1, <1>6, <2>1, <2>2, QuietStep
  <2> QED BY <2>3
<1>7. CASE Trouble /\ Becomes(r, {Moved(r, "report")})
  <2>1. r.items \subseteq ItemsIn({Moved(r, "report")})
    BY <1>4 DEF ItemsIn
  <2>2. Handover(r, {Moved(r, "report")})
    BY <1>1, <1>4, <1>7, <2>1, QuietStep
  <2> QED BY <2>2
<1> QED BY <1>5, <1>6, <1>7

\* What is left of a map of chunks without the ids of one.
LEMMA ChunksLeft ==
  ASSUME IInv, NEW r \in work, r.at = "FanoutIdWriters", NEW ids
  PROVE  /\ \A x \in ChunkLeft(r, ids) : Good(x, s3index) /\ x.items = r.items \ ids
         /\ ItemsIn(ChunkLeft(r, ids)) = r.items \ ids
<1> DEFINE left == Record("FanoutIdWriters", "map", r.items \ ids, 0)
<1>1. Good(r, s3index) /\ r.items \subseteq Items
  BY WorkIsGood, Fields
<1>2. r.items \ ids \in SUBSET Items /\ r.items \ ids \subseteq s3index
  BY <1>1 DEF Good
<1>3. "FanoutIdWriters" \in Places /\ "map" \in Steps \ {"enqueue ids", "reenqueue"}
  BY StepNames, PlaceNames DEF Places
<1>4. Good(left, s3index) /\ left.items = r.items \ ids
  BY ONLY <1>2, <1>3, RecordsMade
<1> HIDE DEF left
<1>5. ChunkLeft(r, ids) = Rest(left)
  BY DEF ChunkLeft, left
<1> QED BY <1>4, <1>5, Rests

\* The attempts at enqueuing are counted up to the last.
LEMMA Attempts ==
  ASSUME IInv, NEW r \in work
  PROVE  /\ LastAttempt \in Nat /\ 1 \in 1..LastAttempt
         /\ r.step \in {"enqueue ids", "reenqueue"} => r.n \in 1..LastAttempt
         /\ \A k \in 1..LastAttempt :
              /\ k \in Nat /\ k + 1 \in Nat
              /\ k < LastAttempt => k + 1 \in 1..LastAttempt
              /\ k < LastAttempt \/ k = LastAttempt
<1>1. LastAttempt \in Nat \ {0}
  BY IndexAssumption
<1>2. r.step \in {"enqueue ids", "reenqueue"} => r.n \in 1..LastAttempt
  BY WorkIsGood DEF WellFormed
<1>3. LastAttempt \in Nat /\ 1 \in 1..LastAttempt
  BY <1>1
<1>4. \A k \in 1..LastAttempt :
        /\ k \in Nat /\ k + 1 \in Nat
        /\ k < LastAttempt => k + 1 \in 1..LastAttempt
        /\ k < LastAttempt \/ k = LastAttempt
  BY <1>1
<1> QED BY <1>2, <1>3, <1>4

\* A loop that sends ids goes on with those of the part that are left.
NextAttempt(r, sent, P, k) ==
  [r EXCEPT !.items = @ \ sent, !.part = P, !.n = k, !.step = "enqueue ids"]

LEMMA LoopGoesOn ==
  ASSUME IInv, NEW r \in work, r.at = "FanoutIdWriters",
         NEW sent \in SUBSET r.items, NEW P \in SUBSET (r.items \ sent),
         NEW k \in 1..LastAttempt
  PROVE  /\ Good(NextAttempt(r, sent, P, k), s3index)
         /\ NextAttempt(r, sent, P, k).items = r.items \ sent
<1> DEFINE x == NextAttempt(r, sent, P, k)
<1>1. /\ Good(r, s3index) /\ WellFormed(r) /\ r \in Records
      /\ sent \in SUBSET Items /\ P \in SUBSET Items /\ k \in Nat
  BY WorkIsGood, Fields, Attempts
<1>2. Is(x, r.at, "enqueue ids", r.items \ sent, r.all, P, k)
  BY <1>1, Changes, StepNames DEF NextAttempt
<1> HIDE DEF x
<1>3. WellFormed(x)
  BY <1>1, <1>2 DEF WellFormed, Is
<1>4. Good(x, s3index)
  BY <1>1, <1>2, <1>3 DEF Good, Is, At
<1> QED BY <1>2, <1>4 DEF Is, x

LEMMA EnqueueCuboidIdsHandsOver ==
  ASSUME IInv, NEW r \in work, EnqueueCuboidIds(r)
  PROVE  \E new : Handover(r, new)
<1>1. /\ Good(r, s3index) /\ WellFormed(r) /\ r \in Records /\ r.items \subseteq Items
      /\ r.at = "FanoutIdWriters" /\ r.at \in StepFunctions
      /\ r.step \in {"map", "enqueue ids"}
  BY WorkIsGood, Fields, PlaceNames DEF EnqueueCuboidIds
<1> DEFINE attempt == IF r.step = "map" THEN 1 ELSE r.n
<1>2. PICK chunk \in IF r.step = "map" THEN (SUBSET r.items) \ {{}} ELSE {r.part} :
      \E taken \in SUBSET chunk :
        \/ /\ chunk \ taken = {}
           /\ Becomes(r, ChunkLeft(r, chunk) \union IdsMessages(taken))
           /\ Calm /\ UNCHANGED excuses
        \/ /\ attempt < LastAttempt
           /\ Becomes(r, {[r EXCEPT !.items = @ \ taken, !.part = chunk \ taken,
                                    !.n = attempt + 1, !.step = "enqueue ids"]}
                         \union IdsMessages(taken))
           /\ Calm /\ UNCHANGED excuses
        \/ /\ ~ raises
           /\ Becomes(r, ChunkLeft(r, chunk) \union IdsMessages(taken))
           /\ Calm /\ excuses' = excuses \union {"gave up"}
        \/ /\ Trouble \/ Calm
           /\ Becomes(r, {[r EXCEPT !.part = chunk, !.step = "report part"]}
                         \union IdsMessages(taken))
           /\ UNCHANGED excuses
  BY DEF EnqueueCuboidIds
<1>3. chunk \subseteq r.items /\ attempt \in 1..LastAttempt
  <2>1. chunk \subseteq r.items
    BY <1>1 DEF WellFormed
  <2>2. attempt \in 1..LastAttempt
    BY <1>1, Attempts
  <2> QED BY <2>1, <2>2
<1> SUFFICES ASSUME NEW taken \in SUBSET chunk,
                    \/ /\ chunk \ taken = {}
                       /\ Becomes(r, ChunkLeft(r, chunk) \union IdsMessages(taken))
                       /\ Calm /\ UNCHANGED excuses
                    \/ /\ attempt < LastAttempt
                       /\ Becomes(r, {[r EXCEPT !.items = @ \ taken,
                                                !.part = chunk \ taken,
                                                !.n = attempt + 1,
                                                !.step = "enqueue ids"]}
                                     \union IdsMessages(taken))
                       /\ Calm /\ UNCHANGED excuses
                    \/ /\ ~ raises
                       /\ Becomes(r, ChunkLeft(r, chunk) \union IdsMessages(taken))
                       /\ Calm /\ excuses' = excuses \union {"gave up"}
                    \/ /\ Trouble \/ Calm
                       /\ Becomes(r, {[r EXCEPT !.part = chunk, !.step = "report part"]}
                                     \union IdsMessages(taken))
                       /\ UNCHANGED excuses
             PROVE  \E new : Handover(r, new)
  BY <1>2
<1> HIDE DEF attempt
<1>4. taken \in SUBSET Items /\ taken \subseteq r.items
  BY <1>1, <1>3
<1>5. /\ \A x \in IdsMessages(taken) : Good(x, s3index) /\ x.items \subseteq r.items
      /\ ItemsIn(IdsMessages(taken)) = taken
  BY <1>4, MessagesMade
<1>6. UNCHANGED <<CuboidOf, raises, started, s3index, indexed, letters, failed>>
  BY DEF EnqueueCuboidIds
<1> DEFINE left == ChunkLeft(r, chunk)
           more == [r EXCEPT !.items = @ \ taken, !.part = chunk \ taken,
                             !.n = attempt + 1, !.step = "enqueue ids"]
           failing == [r EXCEPT !.part = chunk, !.step = "report part"]
           sent == IdsMessages(taken)
<1>7. /\ \A x \in left \union sent : Good(x, s3index) /\ x.items \subseteq r.items
      /\ r.items \ (chunk \ taken) \subseteq ItemsIn(left \union sent)
  <2>1. /\ \A x \in left : Good(x, s3index) /\ x.items = r.items \ chunk
        /\ ItemsIn(left) = r.items \ chunk
    BY <1>1, ChunksLeft
  <2> HIDE DEF left, sent
  <2>2. ItemsIn(left \union sent) = ItemsIn(left) \union ItemsIn(sent)
    BY DEF ItemsIn
  <2> QED BY <1>5, <2>1, <2>2 DEF sent
<1>8. CASE /\ chunk \ taken = {} /\ Becomes(r, left \union sent)
           /\ Calm /\ UNCHANGED excuses
  <2>1. KeepTables
    BY <1>6, <1>8 DEF KeepTables
  <2>2. Handover(r, left \union sent)
    BY <1>7, <1>8, <2>1, QuietStep
  <2> QED BY <2>2
<1>9. CASE /\ attempt < LastAttempt /\ Becomes(r, {more} \union sent)
           /\ Calm /\ UNCHANGED excuses
  <2>1. KeepTables
    BY <1>6, <1>9 DEF KeepTables
  <2>2. attempt + 1 \in 1..LastAttempt /\ chunk \ taken \in SUBSET (r.items \ taken)
    BY <1>3, <1>9, Attempts
  <2>3. taken \in SUBSET r.items
    BY <1>4
  <2>4. Good(more, s3index) /\ more.items = r.items \ taken
    <3> DEFINE k == attempt + 1
               P == chunk \ taken
    <3>1. k \in 1..LastAttempt /\ P \in SUBSET (r.items \ taken) /\ r.at = "FanoutIdWriters"
      BY <1>1, <2>2
    <3> HIDE DEF k, P
    <3>2. \A S \in SUBSET r.items : \A Q \in SUBSET (r.items \ S) :
          \A j \in 1..LastAttempt :
             /\ Good(NextAttempt(r, S, Q, j), s3index)
             /\ NextAttempt(r, S, Q, j).items = r.items \ S
      BY ONLY IInv, r \in work, <3>1, LoopGoesOn, Zenon
    <3>3. /\ Good(NextAttempt(r, taken, P, k), s3index)
          /\ NextAttempt(r, taken, P, k).items = r.items \ taken
      BY ONLY <2>3, <3>1, <3>2, Zenon
    <3> QED BY <3>3 DEF k, P, NextAttempt
  <2> HIDE DEF more, sent
  <2>5. \A x \in {more} \union sent : Good(x, s3index) /\ x.items \subseteq r.items
    BY <1>5, <2>4 DEF sent
  <2>6. r.items \subseteq ItemsIn({more} \union sent)
    <3>1. ItemsIn(sent) \subseteq ItemsIn({more} \union sent)
      BY DEF ItemsIn
    <3>2. more.items \subseteq ItemsIn({more} \union sent)
      BY DEF ItemsIn
    <3> QED BY <1>5, <2>4, <3>1, <3>2 DEF sent
  <2>7. Handover(r, {more} \union sent)
    BY <1>9, <2>1, <2>5, <2>6, QuietStep
  <2> QED BY <2>7
<1>10. CASE /\ ~ raises /\ Becomes(r, left \union sent)
            /\ Calm /\ excuses' = excuses \union {"gave up"}
  <2> HIDE DEF left, sent
  <2>1. Grows
    BY <1>6, <1>10, TroublesBounded DEF Grows, IInv, Types, Excuses
  <2>2. \A i \in r.items : i \in ItemsIn(left \union sent) \/ Settles(i)
    BY <1>10 DEF Settles
  <2>3. s3index' = s3index
    BY <1>6
  <2>4. Handover(r, left \union sent)
    BY <1>7, <1>10, <2>1, <2>2, <2>3 DEF Handover
  <2> QED BY <2>4
<1>11. CASE /\ Trouble \/ Calm
            /\ Becomes(r, {failing} \union sent)
            /\ UNCHANGED excuses
  <2>1. KeepTables
    BY <1>6, <1>11 DEF KeepTables
  <2>2. Good(failing, s3index) /\ failing.items = r.items
    BY <1>1, <1>3, PartFails
  <2> HIDE DEF failing, sent
  <2>3. \A x \in {failing} \union sent : Good(x, s3index) /\ x.items \subseteq r.items
    BY <1>5, <2>2 DEF sent
  <2>4. r.items \subseteq ItemsIn({failing} \union sent)
    BY <2>2 DEF ItemsIn
  <2>5. Handover(r, {failing} \union sent)
    BY <1>11, <2>1, <2>3, <2>4, QuietStep
  <2> QED BY <2>5
<1> QED BY <1>8, <1>9, <1>10, <1>11

\* A record that keeps its place and its items, with another counter.
LEMMA CountsOn ==
  ASSUME IInv, NEW r \in work, NEW k \in Nat,
         r.at = "Ids" => k <= MaxReceives,
         r.step \notin {"enqueue ids", "reenqueue"}
  PROVE  Good([r EXCEPT !.n = k], s3index) /\ [r EXCEPT !.n = k].items = r.items
<1> DEFINE x == [r EXCEPT !.n = k]
<1>1. Good(r, s3index) /\ WellFormed(r) /\ r \in Records
  BY WorkIsGood
<1>2. "report" \in Steps /\ {} \in SUBSET Items
  BY StepNames
<1>3. Is(x, r.at, r.step, r.items, r.all, r.part, k)
  BY <1>1, <1>2, Changes
<1> HIDE DEF x
<1>4. WellFormed(x)
  BY <1>1, <1>3 DEF WellFormed, Is
<1>5. Good(x, s3index)
  BY <1>1, <1>3, <1>4 DEF Good, Is, At
<1> QED BY <1>3, <1>5 DEF Is, x

LEMMA startIndexIdWriterHandsOver ==
  ASSUME IInv, NEW r \in work, startIndexIdWriter(r)
  PROVE  \E new : Handover(r, new)
<1>1. /\ Good(r, s3index) /\ WellFormed(r) /\ r \in Records /\ r.items \subseteq Items
      /\ r.n \in Nat /\ r.at = "Ids"
      /\ UNCHANGED <<CuboidOf, raises, started, s3index, indexed, failed, excuses>>
  BY WorkIsGood, Fields DEF startIndexIdWriter
<1>2. r.step = "queued"
  BY <1>1 DEF Good
<1> DEFINE writer == Execution("IdWriter", r.items)
<1>3. Good(writer, s3index) /\ writer.items = r.items
  BY <1>1, Executions, PlaceNames
<1> HIDE DEF writer
<1>4. CASE Calm /\ Becomes(r, {writer}) /\ UNCHANGED letters
  <2>1. KeepTables
    BY <1>1, <1>4 DEF KeepTables
  <2>2. r.items \subseteq ItemsIn({writer})
    BY <1>3 DEF ItemsIn
  <2>3. \A x \in {writer} : Good(x, s3index) /\ x.items \subseteq r.items
    BY <1>3
  <2>4. Handover(r, {writer})
    BY <1>4, <2>1, <2>2, <2>3, QuietStep
  <2> QED BY <2>4
<1> DEFINE again == [r EXCEPT !.n = @ + 1]
<1>5. ASSUME NEW begun \in BOOLEAN, Trouble, r.n < MaxReceives, UNCHANGED letters,
             Becomes(r, {again} \union Maybe({writer}, begun))
      PROVE  \E new : Handover(r, new)
  <2>1. r.n + 1 \in Nat /\ r.n + 1 <= MaxReceives
    BY <1>1, <1>5, IndexAssumption
  <2>2. Good(again, s3index) /\ again.items = r.items
    BY <1>2, <2>1, CountsOn
  <2> HIDE DEF again
  <2>3. \A x \in {again} \union Maybe({writer}, begun) :
          Good(x, s3index) /\ x.items \subseteq r.items
    BY <1>3, <2>2 DEF Maybe
  <2>4. r.items \subseteq ItemsIn({again} \union Maybe({writer}, begun))
    BY <2>2 DEF ItemsIn
  <2>5. KeepTables
    BY <1>1, <1>5 DEF KeepTables
  <2>6. Handover(r, {again} \union Maybe({writer}, begun))
    BY <1>5, <2>3, <2>4, <2>5, QuietStep
  <2> QED BY <2>6
<1>6. ASSUME NEW begun \in BOOLEAN, Trouble, letters' = letters \union r.items,
             Becomes(r, Maybe({writer}, begun))
      PROVE  \E new : Handover(r, new)
  <2>1. Grows
    BY <1>1, <1>6, TroublesBounded DEF Grows, IInv, Types
  <2>2. \A x \in Maybe({writer}, begun) : Good(x, s3index') /\ x.items \subseteq r.items
    BY <1>1, <1>3 DEF Maybe
  <2>3. \A i \in r.items : Settles(i)
    BY <1>6 DEF Settles
  <2>4. excuses' = excuses
    BY <1>1
  <2>5. Handover(r, Maybe({writer}, begun))
    BY <1>6, <2>1, <2>2, <2>3, <2>4, Zenon DEF Handover
  <2> QED BY <2>5
<1>7. \/ Calm /\ Becomes(r, {writer}) /\ UNCHANGED letters
      \/ /\ Trouble
         /\ \E begun \in BOOLEAN :
              Becomes(r, (IF r.n < MaxReceives THEN {again} ELSE {})
                         \union Maybe({writer}, begun))
         /\ letters' = IF r.n < MaxReceives THEN letters ELSE letters \union r.items
  BY DEF startIndexIdWriter, writer
<1> HIDE DEF again
<1>8. ASSUME NEW begun \in BOOLEAN, Trouble,
             Becomes(r, (IF r.n < MaxReceives THEN {again} ELSE {})
                        \union Maybe({writer}, begun)),
             letters' = IF r.n < MaxReceives THEN letters ELSE letters \union r.items
      PROVE  \E new : Handover(r, new)
  <2>1. CASE r.n < MaxReceives
    BY <1>5, <1>8, <2>1
  <2>2. CASE ~ (r.n < MaxReceives)
    <3>1. {} \union Maybe({writer}, begun) = Maybe({writer}, begun)
      OBVIOUS
    <3> QED BY <1>6, <1>8, <2>2, <3>1
  <2> QED BY <2>1, <2>2
<1> QED BY <1>4, <1>7, <1>8

\* A step may also settle items, as long as it counts as growth of the tables.
LEMMA SettlingStep ==
  ASSUME IInv, NEW r \in work, NEW new, Becomes(r, new), Grows,
         UNCHANGED s3index, "gave up" \in excuses' => "gave up" \in excuses,
         \A x \in new : Good(x, s3index) /\ x.items \subseteq r.items,
         \A i \in r.items : i \in ItemsIn(new) \/ Settles(i)
  PROVE  Handover(r, new)
BY DEF Handover

\* In particular one after which nothing of the record is left.
LEMMA LastStep ==
  ASSUME IInv, NEW r \in work, Becomes(r, {}), Grows,
         UNCHANGED s3index, "gave up" \in excuses' => "gave up" \in excuses,
         \A i \in r.items : Settles(i)
  PROVE  Handover(r, {})
BY DEF Handover

LEMMA WriteIdIndexHandsOver ==
  ASSUME IInv, NEW r \in work, WriteIdIndex(r)
  PROVE  \E new : Handover(r, new)
<1>1. /\ Good(r, s3index) /\ r \in Records /\ r.items \subseteq Items
      /\ r.n \in Nat /\ r.at = "IdWriter" /\ r.step = "write" /\ r.at \in StepFunctions
      /\ UNCHANGED <<CuboidOf, raises, started, s3index, letters, failed, excuses>>
  BY WorkIsGood, Fields, PlaceNames DEF WriteIdIndex, At
<1>2. r.part = {}
  BY <1>1 DEF Good
<1>3. PICK written \in SUBSET r.items :
        /\ indexed' = indexed \union written
        /\ \/ written = r.items /\ Calm /\ Becomes(r, {})
           \/ r.n > 0 /\ Calm /\ Becomes(r, {[r EXCEPT !.n = @ - 1]})
           \/ Trouble /\ Becomes(r, {[r EXCEPT !.n = 1, !.step = "reenqueue"]})
           \/ Trouble /\ Becomes(r, {Moved(r, "report")})
  BY DEF WriteIdIndex
<1>4. Trouble \/ Calm
  BY <1>3
<1>5. Grows
  BY <1>1, <1>3, <1>4, TroublesBounded DEF Grows, IInv, Types
<1>6. "gave up" \in excuses' => "gave up" \in excuses
  BY <1>1
<1>7. ASSUME NEW x, Becomes(r, {x}), Good(x, s3index), x.items = r.items
      PROVE  \E new : Handover(r, new)
  <2>1. \A i \in r.items : i \in ItemsIn({x}) \/ Settles(i)
    BY <1>7 DEF ItemsIn
  <2>2. \A y \in {x} : Good(y, s3index) /\ y.items \subseteq r.items
    BY <1>7
  <2>3. Handover(r, {x})
    BY <1>1, <1>5, <1>6, <1>7, <2>1, <2>2, SettlingStep
  <2> QED BY <2>3
<1>8. CASE written = r.items /\ Becomes(r, {})
  <2>1. \A i \in r.items : Settles(i)
    BY <1>3, <1>8 DEF Settles
  <2>2. Handover(r, {})
    BY <1>1, <1>5, <1>6, <1>8, <2>1, LastStep
  <2> QED BY <2>2
<1>9. CASE r.n > 0 /\ Becomes(r, {[r EXCEPT !.n = @ - 1]})
  <2>1. r.n - 1 \in Nat
    BY <1>1, <1>9
  <2>2. Good([r EXCEPT !.n = r.n - 1], s3index) /\ [r EXCEPT !.n = r.n - 1].items = r.items
    BY <1>1, <2>1, CountsOn
  <2> QED BY <1>7, <1>9, <2>2
<1>10. CASE Becomes(r, {[r EXCEPT !.n = 1, !.step = "reenqueue"]})
  <2> DEFINE x == [r EXCEPT !.n = 1, !.step = "reenqueue"]
  <2>1. {} \in SUBSET Items /\ 1 \in Nat
    OBVIOUS
  <2>2. Is(x, "IdWriter", "reenqueue", r.items, r.all, r.part, 1)
    BY <1>1, <2>1, Changes, StepNames
  <2> HIDE DEF x
  <2>3. WellFormed(r) /\ 1 \in 1..LastAttempt
    BY WorkIsGood, Attempts
  <2>4. WellFormed(x)
    BY <2>2, <2>3 DEF WellFormed, Is
  <2>5. Good(x, s3index)
    BY <1>2, <2>2, <2>4 DEF Good, Is, At
  <2>6. x.items = r.items
    BY <2>2 DEF Is
  <2>7. Becomes(r, {x})
    BY <1>10 DEF x
  <2> QED BY <1>7, <2>5, <2>6, <2>7
<1>11. CASE Becomes(r, {Moved(r, "report")})
  <2>1. Good(Moved(r, "report"), s3index) /\ Moved(r, "report").items = r.items
    BY <1>1, MovesOn, StepNames
  <2> QED BY <1>7, <1>11, <2>1
<1> QED BY <1>3, <1>8, <1>9, <1>10, <1>11

LEMMA ReportPartHandsOver ==
  ASSUME IInv, NEW r \in work, ReportPart(r)
  PROVE  \E new : Handover(r, new)
<1>1. /\ Good(r, s3index) /\ r \in Records /\ r.part \subseteq Items
      /\ r.at \in Places /\ r.step = "report part"
      /\ UNCHANGED <<CuboidOf, raises, started, s3index, indexed, failed>>
      /\ Becomes(r, {Moved(r, "report")})
  BY WorkIsGood, Fields DEF ReportPart
<1>2. r.at \in StepFunctions
  BY <1>1 DEF Good, Places
<1>3. Good(Moved(r, "report"), s3index) /\ Moved(r, "report").items = r.items
  BY <1>2, MovesOn, StepNames
<1>4. /\ Trouble \/ Calm
      /\ letters' = letters \union r.part \/ letters' = letters
      /\ excuses' = excuses \/ excuses' = excuses \union {"refused"}
  BY DEF ReportPart
<1>5. Grows
  BY <1>1, <1>4, TroublesBounded DEF Grows, IInv, Types, Excuses
<1>6. "gave up" \in excuses' => "gave up" \in excuses
  <2>1. \A e \in excuses' : e \in excuses \/ e = "refused"
    BY <1>4
  <2> QED BY <2>1
<1>7. \A i \in r.items : i \in ItemsIn({Moved(r, "report")}) \/ Settles(i)
  BY <1>3 DEF ItemsIn
<1>8. \A x \in {Moved(r, "report")} : Good(x, s3index) /\ x.items \subseteq r.items
  BY <1>3
<1>9. Handover(r, {Moved(r, "report")})
  BY <1>1, <1>5, <1>6, <1>7, <1>8, SettlingStep
<1> QED BY <1>9

LEMMA ReportHandsOver ==
  ASSUME IInv, NEW r \in work, Report(r)
  PROVE  \E new : Handover(r, new)
<1>1. /\ WellFormed(r) /\ r.items \subseteq Items /\ r.all \subseteq Items
      /\ UNCHANGED <<CuboidOf, raises, started, s3index, indexed>>
      /\ Becomes(r, {}) /\ failed' = failed \union r.items
  BY WorkIsGood, Fields DEF Report
<1>2. \/ Calm /\ letters' = letters \union r.all /\ excuses' = excuses
      \/ Trouble /\ letters' = letters /\ excuses' = excuses \union {"refused"}
  BY DEF Report
<1>3. Grows
  BY <1>1, <1>2, TroublesBounded DEF Grows, IInv, Types, Excuses
<1>4. "gave up" \in excuses' => "gave up" \in excuses
  <2>1. \A e \in excuses' : e \in excuses \/ e = "refused"
    BY <1>2
  <2> QED BY <2>1
<1>5. \A i \in r.items : Settles(i)
  BY <1>1, <1>2 DEF Settles, WellFormed
<1>6. Handover(r, {})
  BY <1>1, <1>3, <1>4, <1>5, LastStep
<1> QED BY <1>6

LEMMA TimesOutHandsOver ==
  ASSUME IInv, NEW r \in work, TimesOut(r)
  PROVE  \E new : Handover(r, new)
<1>1. /\ r.items \subseteq Items
      /\ UNCHANGED <<CuboidOf, raises, started, s3index, indexed, letters>>
      /\ Becomes(r, {}) /\ failed' = failed \union r.items
      /\ excuses' = excuses \union {"timeout"} /\ Trouble
  BY WorkIsGood, Fields DEF TimesOut
<1>2. Grows
  BY <1>1, TroublesBounded DEF Grows, IInv, Types, Excuses
<1>3. "gave up" \in excuses' => "gave up" \in excuses
  BY <1>1
<1>4. \A i \in r.items : Settles(i)
  BY <1>1 DEF Settles
<1>5. Handover(r, {})
  BY <1>1, <1>2, <1>3, <1>4, LastStep
<1> QED BY <1>5

LEMMA WriteFailedReEnqueueHandsOver ==
  ASSUME IInv, NEW r \in work, WriteFailedReEnqueue(r)
  PROVE  \E new : Handover(r, new)
<1>1. /\ Good(r, s3index) /\ WellFormed(r) /\ r \in Records /\ r.items \subseteq Items
      /\ r.n \in 1..LastAttempt
      /\ r.at = "IdWriter" /\ r.step = "reenqueue" /\ r.at \in StepFunctions
      /\ UNCHANGED <<CuboidOf, raises, started, s3index, indexed, letters>>
  BY WorkIsGood, Fields, Attempts, PlaceNames DEF WriteFailedReEnqueue, At
<1>2. r.part = {}
  BY <1>1 DEF Good
<1>3. PICK taken \in SUBSET r.items :
        \/ /\ taken = r.items /\ Becomes(r, IdsMessages(taken))
           /\ Calm /\ UNCHANGED <<failed, excuses>>
        \/ /\ r.n < LastAttempt
           /\ Becomes(r, {[r EXCEPT !.items = @ \ taken, !.n = @ + 1]}
                         \union IdsMessages(taken))
           /\ Calm /\ UNCHANGED <<failed, excuses>>
        \/ /\ Becomes(r, {Moved(r, "report")} \union IdsMessages(taken))
           /\ Calm /\ UNCHANGED <<failed, excuses>>
        \/ /\ Trouble \/ Calm
           /\ Becomes(r, IdsMessages(taken))
           /\ failed' = failed \union r.items
           /\ excuses' = excuses \union {"input gone"}
  BY DEF WriteFailedReEnqueue
<1>4. taken \in SUBSET Items
  BY <1>1
<1> DEFINE sent == IdsMessages(taken)
<1>5. /\ \A x \in sent : Good(x, s3index) /\ x.items \subseteq r.items
      /\ ItemsIn(sent) = taken
  BY <1>4, MessagesMade
<1> HIDE DEF sent
<1>6. CASE taken = r.items /\ Becomes(r, sent) /\ Calm /\ UNCHANGED <<failed, excuses>>
  <2>1. KeepTables
    BY <1>1, <1>6 DEF KeepTables
  <2>2. Handover(r, sent)
    BY <1>5, <1>6, <2>1, QuietStep
  <2> QED BY <2>2
<1> DEFINE more == [r EXCEPT !.items = @ \ taken, !.n = @ + 1]
<1>7. CASE /\ r.n < LastAttempt /\ Becomes(r, {more} \union sent)
           /\ Calm /\ UNCHANGED <<failed, excuses>>
  <2>1. r.n + 1 \in 1..LastAttempt /\ r.n + 1 \in Nat
    BY <1>1, <1>7, Attempts
  <2>2. "report" \in Steps /\ {} \in SUBSET Items
    BY StepNames
  <2>3. Is(more, "IdWriter", "reenqueue", r.items \ taken, r.all, r.part, r.n + 1)
    BY <1>1, <1>4, <2>1, <2>2, Changes
  <2> HIDE DEF more
  <2>4. WellFormed(more)
    BY <1>1, <1>2, <2>1, <2>3 DEF WellFormed, Is
  <2>5. Good(more, s3index)
    BY <1>2, <2>3, <2>4 DEF Good, Is, At
  <2>6. more.items = r.items \ taken
    BY <2>3 DEF Is
  <2>7. \A x \in {more} \union sent : Good(x, s3index) /\ x.items \subseteq r.items
    BY <1>5, <2>5, <2>6
  <2>8. r.items \subseteq ItemsIn({more} \union sent)
    <3>1. ItemsIn({more} \union sent) = more.items \union ItemsIn(sent)
      BY DEF ItemsIn
    <3> QED BY <1>5, <2>6, <3>1
  <2>9. KeepTables
    BY <1>1, <1>7 DEF KeepTables
  <2>10. Handover(r, {more} \union sent)
    BY <1>7, <2>7, <2>8, <2>9, QuietStep
  <2> QED BY <2>10
<1>8. CASE /\ Becomes(r, {Moved(r, "report")} \union sent)
           /\ Calm /\ UNCHANGED <<failed, excuses>>
  <2>1. Good(Moved(r, "report"), s3index) /\ Moved(r, "report").items = r.items
    BY <1>1, MovesOn, StepNames
  <2>2. \A x \in {Moved(r, "report")} \union sent :
          Good(x, s3index) /\ x.items \subseteq r.items
    BY <1>5, <2>1
  <2>3. r.items \subseteq ItemsIn({Moved(r, "report")} \union sent)
    BY <2>1 DEF ItemsIn
  <2>4. KeepTables
    BY <1>1, <1>8 DEF KeepTables
  <2>5. Handover(r, {Moved(r, "report")} \union sent)
    BY <1>8, <2>2, <2>3, <2>4, QuietStep
  <2> QED BY <2>5
<1>9. CASE /\ Trouble \/ Calm
           /\ Becomes(r, sent)
           /\ failed' = failed \union r.items
           /\ excuses' = excuses \union {"input gone"}
  <2>1. Grows
    BY <1>1, <1>9, TroublesBounded DEF Grows, IInv, Types, Excuses
  <2>2. "gave up" \in excuses' => "gave up" \in excuses
    <3>1. \A e \in excuses' : e \in excuses \/ e = "input gone"
      BY <1>9
    <3> QED BY <3>1
  <2>3. \A i \in r.items : Settles(i)
    BY <1>9 DEF Settles
  <2>4. UNCHANGED s3index
    BY <1>1
  <2>5. Handover(r, sent)
    BY <1>5, <1>9, <2>1, <2>2, <2>3, <2>4, SettlingStep
  <2> QED BY <2>5
<1> HIDE DEF more
<1>10. \/ taken = r.items /\ Becomes(r, sent) /\ Calm /\ UNCHANGED <<failed, excuses>>
       \/ /\ r.n < LastAttempt /\ Becomes(r, {more} \union sent)
          /\ Calm /\ UNCHANGED <<failed, excuses>>
       \/ /\ Becomes(r, {Moved(r, "report")} \union sent)
          /\ Calm /\ UNCHANGED <<failed, excuses>>
       \/ /\ Trouble \/ Calm
          /\ Becomes(r, sent)
          /\ failed' = failed \union r.items
          /\ excuses' = excuses \union {"input gone"}
  BY <1>3 DEF more, sent
<1> QED BY <1>6, <1>7, <1>8, <1>9, <1>10

\* Every step of the running executions and of the queues hands over.
LEMMA StepHandsOver ==
  ASSUME IInv, NEW r \in work, Step(r) \/ TimesOut(r)
  PROVE  \E new : Handover(r, new)
BY StartFindCuboidsHandsOver, QueryS3IndexTableHandsOver, AsynchEnqueueCuboidsHandsOver,
   StartNewFindCuboidsSFNHandsOver, FoundAllCuboidsHandsOver, BatchEnqueueCuboidsHandsOver,
   startCuboidSupervisorHandsOver, WriteS3IndexHandsOver, StartIndexIdWritersHandsOver,
   LoadIdsFromS3IndexHandsOver, EnqueueCuboidIdsHandsOver, startIndexIdWriterHandsOver,
   WriteIdIndexHandsOver, WriteFailedReEnqueueHandsOver, ReportPartHandsOver,
   ReportHandsOver, TimesOutHandsOver
   DEF Step

-----------------------------------------------------------------------------
(***************************************************************************)
(* The invariant is kept                                                   *)
(***************************************************************************)
\* Where an item may be after a record has been handed over.
LEMMA ItemsRemain ==
  ASSUME IInv, NEW r \in work, NEW new, Handover(r, new)
  PROVE  /\ Held' \subseteq Held
         /\ \A i \in Held : i \in Held' \/ Settles(i)
<1>1. work' = (work \ {r}) \union new
  BY DEF Handover, Becomes
<1>2. Held' \subseteq Held
  <2>1. \A x \in new : x.items \subseteq r.items
    BY DEF Handover
  <2> QED BY <1>1, <2>1 DEF Held
<1>3. ASSUME NEW i \in Held PROVE i \in Held' \/ Settles(i)
  <2>1. PICK x \in work : i \in x.items
    BY <1>3 DEF Held
  <2>2. CASE x # r
    BY <1>1, <2>1, <2>2 DEF Held
  <2>3. CASE x = r
    <3>1. i \in ItemsIn(new) \/ Settles(i)
      BY <2>1, <2>3 DEF Handover
    <3>2. ItemsIn(new) \subseteq Held'
      BY <1>1 DEF ItemsIn, Held
    <3> QED BY <3>1, <3>2
  <2> QED BY <2>2, <2>3
<1> QED BY <1>2, <1>3

LEMMA HandoverKeepsIInv ==
  ASSUME IInv, NEW r \in work, NEW new, Handover(r, new)
  PROVE  IInv'
<1>1. Grows /\ Types
  BY DEF Handover, IInv
<1>2. Types'
  BY <1>1 DEF Grows, Types
<1>3. \A x \in work' : Good(x, s3index')
  <2>1. work' = (work \ {r}) \union new /\ \A x \in new : Good(x, s3index')
    BY DEF Handover, Becomes
  <2>2. s3index \subseteq s3index' /\ \A x \in work : Good(x, s3index)
    BY <1>1 DEF Grows, IInv
  <2>3. \A x \in work : Good(x, s3index')
    BY <2>2 DEF Good
  <2> QED BY <2>1, <2>3
<1>4. (\A x \in work : Good(x, s3index))'
  BY <1>1, <1>3 DEF Grows, Good, Whole
<1>5. NothingBefore'
  BY <1>1 DEF IInv, NothingBefore, Grows
<1>6. Honest'
  <2>1. "gave up" \in excuses' => ~ raises
    BY DEF IInv, Honest, Handover
  <2>2. raises' = raises
    BY <1>1 DEF Grows
  <2> QED BY <2>1, <2>2, Zenon DEF Honest
<1>7. Traced'
  <2>1. SUFFICES ASSUME started', "gave up" \notin excuses', NEW i \in Items
                 PROVE  i \in indexed' \union Held' \union letters' \union failed'
    BY DEF Traced
  <2>2. started /\ "gave up" \notin excuses
    BY <1>1, <2>1 DEF Grows
  <2>3. i \in indexed \union Held \union letters \union failed
    BY <2>2 DEF IInv, Traced
  <2>4. i \in Held => i \in Held' \/ i \in indexed' \union letters' \union failed'
    BY <2>1, ItemsRemain DEF Settles
  <2> QED BY <1>1, <2>3, <2>4 DEF Grows
<1>8. Reported'
  <2>1. SUFFICES ASSUME started', excuses' = {}, NEW i \in Items
                 PROVE  i \in indexed' \union Held' \union letters'
    BY DEF Reported
  <2>2. started /\ excuses = {}
    BY <1>1, <2>1 DEF Grows
  <2>3. i \in indexed \union Held \union letters
    BY <2>2 DEF IInv, Reported
  <2>4. i \in Held => i \in Held' \/ i \in indexed' \union letters'
    BY <2>1, ItemsRemain DEF Settles
  <2> QED BY <1>1, <2>3, <2>4 DEF Grows
<1> QED BY <1>2, <1>4, <1>5, <1>6, <1>7, <1>8 DEF IInv

\* The start of the indexing makes every item open.
LEMMA StartOpens ==
  ASSUME IInv, start_indexing
  PROVE  Held' = Items /\ IInv'
<1> DEFINE first == Execution("Start", Items)
<1>1. /\ ~ started /\ started' /\ work' = {first} /\ troubles' = troubles
      /\ UNCHANGED <<CuboidOf, raises, s3index, indexed, letters, failed, excuses>>
  BY DEF start_indexing, Calm
<1>2. Whole(Items) /\ Items \in SUBSET Items
  BY DEF Whole
<1>3. Good(first, s3index) /\ first.items = Items
  BY <1>2, Executions, PlaceNames
<1> HIDE DEF first
<1>4. Held' = Items
  BY <1>1, <1>3 DEF Held
<1>5. Types'
  BY <1>1 DEF IInv, Types
<1>6. (\A r \in work : Good(r, s3index))'
  <2>1. \A r \in work' : Good(r, s3index')
    BY <1>1, <1>3
  <2> QED BY <1>1, <2>1 DEF Good, Whole
<1>7. NothingBefore' /\ Traced' /\ Reported'
  BY <1>1, <1>4 DEF NothingBefore, Traced, Reported
<1>8. Honest'
  <2>1. excuses' = {}
    BY <1>1 DEF IInv, NothingBefore
  <2> QED BY <2>1 DEF Honest
<1> QED BY <1>4, <1>5, <1>6, <1>7, <1>8 DEF IInv

\* The initial states have the invariant: nothing has happened.
THEOREM IInvHoldsAtFirst == Init => IInv
<1>1. ASSUME Init PROVE Types
  <2>1. troubles \in 0..MaxTroubles
    BY <1>1, IndexAssumption DEF Init
  <2> QED BY <1>1, <2>1 DEF Init, Types
<1>2. ASSUME Init PROVE (\A r \in work : Good(r, s3index)) /\ NothingBefore
  BY <1>2 DEF Init, NothingBefore
<1>3. ASSUME Init PROVE Honest /\ Traced /\ Reported
  BY <1>3 DEF Init, Honest, Traced, Reported
<1> QED BY <1>1, <1>2, <1>3 DEF IInv

\* Every step keeps it: the start, a step of an execution or a queue, and a
\* timeout.
THEOREM IInvIsInductive == IInv /\ [Next]_vars => IInv'
<1> SUFFICES ASSUME IInv, [Next]_vars PROVE IInv'
  OBVIOUS
<1>1. CASE start_indexing
  BY <1>1, StartOpens
<1>2. ASSUME NEW r \in work, Step(r) \/ TimesOut(r) PROVE IInv'
  BY <1>2, StepHandsOver, HandoverKeepsIInv
<1>3. CASE UNCHANGED vars
  BY <1>3 DEF vars, IInv, Types, Good, Whole, NothingBefore, Honest, Traced, Reported, Held
<1> QED BY <1>1, <1>2, <1>3 DEF Next

\* So it holds of every reachable state.
THEOREM InvariantHolds == Spec => []IInv
BY IInvHoldsAtFirst, IInvIsInductive, PTL DEF Spec

-----------------------------------------------------------------------------
(***************************************************************************)
(* What the indexing promises                                              *)
(***************************************************************************)
\* The variables have their types, and the work that is handed from step function
\* to step function has its shape: a batch is a part of what is left, and what is
\* left a part of what the dead letter would hold.
THEOREM TypeCorrect == Spec => []TypeOK
<1>1. IInv => TypeOK
  BY DEF IInv, Types, Good, TypeOK
<1> QED BY <1>1, InvariantHolds, PTL

\* No item is lost from the queues and the executions of the indexing, but by the
\* giving up of FanoutIdWriters.
THEOREM NothingIsEverForgotten == Spec => []NothingIsForgotten
<1>1. IInv => NothingIsForgotten
  BY DEF IInv, Traced, NothingIsForgotten, Standing
<1> QED BY <1>1, InvariantHolds, PTL

\* What fails is in a dead letter, as long as the queue takes letters, nothing
\* times out, and neither of the loops that enqueue ids ends with ids left.
THEOREM FailuresAreAlwaysReported == Spec => []FailuresAreReported
<1>1. IInv => FailuresAreReported
  BY DEF IInv, Reported, FailuresAreReported, Standing
<1> QED BY <1>1, InvariantHolds, PTL

-----------------------------------------------------------------------------
(***************************************************************************)
(* The refinement of WorkLedger                                            *)
(***************************************************************************)
\* Where an item stands, with what decides it.
LEMMA Standings ==
  ASSUME NEW i
  PROVE  /\ Standing(i) \in Ledger!Standing
         /\ Standing(i) = "outside" <=> ~ started
         /\ started /\ i \in indexed => Standing(i) = "indexed"
         /\ started /\ i \notin indexed /\ i \in Held => Standing(i) = "open"
         /\ started /\ i \notin indexed \union Held /\ i \in letters
              => Standing(i) = "reported"
         /\ started /\ i \notin indexed \union Held \union letters /\ i \in failed
              => Standing(i) = "failed"
         /\ started /\ i \notin indexed \union Held \union letters \union failed
              => Standing(i) = "forgotten"
BY DEF Standing, Ledger!Standing

LEMMA StandingsNext ==
  ASSUME NEW i
  PROVE  /\ Standing(i)' \in Ledger!Standing
         /\ Standing(i)' = "outside" <=> ~ started'
         /\ started' /\ i \in indexed' => Standing(i)' = "indexed"
         /\ started' /\ i \notin indexed' /\ i \in Held' => Standing(i)' = "open"
         /\ started' /\ i \notin indexed' \union Held' /\ i \in letters'
              => Standing(i)' = "reported"
         /\ started' /\ i \notin indexed' \union Held' \union letters' /\ i \in failed'
              => Standing(i)' = "failed"
         /\ started' /\ i \notin indexed' \union Held' \union letters' \union failed'
              => Standing(i)' = "forgotten"
BY DEF Standing, Ledger!Standing

\* The moves that are in the ledger whether or not it forgets, and the others.
LEMMA MovesOfTheLedger ==
  /\ <<"outside", "open">> \in Ledger!Moves
  /\ \A s \in {"open", "reported", "failed", "forgotten", "indexed"} :
       <<s, "indexed">> \in Ledger!Moves
  /\ <<"open", "reported">> \in Ledger!Moves /\ <<"open", "failed">> \in Ledger!Moves
  /\ <<"failed", "reported">> \in Ledger!Moves
  /\ ~ raises => /\ <<"open", "forgotten">> \in Ledger!Moves
                 /\ <<"forgotten", "reported">> \in Ledger!Moves
                 /\ <<"forgotten", "failed">> \in Ledger!Moves
BY DEF Ledger!Moves, Ledger!Standing

\* Work that is handed over moves the items as the ledger allows: none is taken up
\* again, none leaves the index, a letter or the failed executions, and one that
\* is in none of them is there because FanoutIdWriters gave up.
LEMMA HandoverMoves ==
  ASSUME IInv, IInv', Grows, Held' \subseteq Held, NEW i \in Items
  PROVE  Standing(i)' = Standing(i) \/ <<Standing(i), Standing(i)'>> \in Ledger!Moves
<1>1. /\ started' = started /\ raises' = raises
      /\ indexed \subseteq indexed' /\ letters \subseteq letters' /\ failed \subseteq failed'
  BY DEF Grows
<1>2. CASE ~ started
  BY <1>1, <1>2, Standings, StandingsNext
<1>3. CASE started /\ i \in indexed
  BY <1>1, <1>3, Standings, StandingsNext
<1>4. CASE started /\ i \notin indexed /\ i \in indexed'
  <2>1. Standing(i)' = "indexed"
    BY <1>1, <1>4, StandingsNext
  <2>2. Standing(i) \in {"open", "reported", "failed", "forgotten"}
    BY <1>4, Standings
  <2> QED BY <2>1, <2>2, MovesOfTheLedger
<1>5. CASE started /\ i \notin indexed' /\ i \in Held
  <2>1. Standing(i) = "open"
    BY <1>1, <1>5, Standings
  <2>2. Standing(i)' \in {"open", "reported", "failed", "forgotten"}
    BY <1>1, <1>5, StandingsNext
  <2>3. Standing(i)' = "forgotten" => ~ raises
    <3>1. Standing(i)' = "forgotten"
            => i \notin indexed' \union Held' \union letters' \union failed'
      BY <1>1, <1>5, StandingsNext
    <3>2. (Standing(i)' = "forgotten") => "gave up" \in excuses'
      BY <1>1, <1>5, <3>1 DEF IInv, Traced
    <3>3. "gave up" \in excuses' => ~ raises'
      BY DEF IInv, Honest
    <3> QED BY <1>1, <3>2, <3>3, Zenon
  <2> QED BY <2>1, <2>2, <2>3, MovesOfTheLedger
<1>6. CASE started /\ i \notin indexed' \union Held
  <2>1. i \notin Held' /\ i \notin indexed
    BY <1>1, <1>6
  <2>2. CASE i \in letters
    BY <1>1, <1>6, <2>1, <2>2, Standings, StandingsNext
  <2>3. CASE i \notin letters /\ i \in failed
    <3>1. Standing(i) = "failed" /\ Standing(i)' \in {"reported", "failed"}
      BY <1>1, <1>6, <2>1, <2>3, Standings, StandingsNext
    <3> QED BY <3>1, MovesOfTheLedger
  <2>4. CASE i \notin letters \union failed
    <3>1. /\ Standing(i) = "forgotten"
          /\ Standing(i)' \in {"reported", "failed", "forgotten"}
      BY <1>1, <1>6, <2>1, <2>4, Standings, StandingsNext
    <3>2. "gave up" \in excuses
      BY <1>6, <2>1, <2>4 DEF IInv, Traced
    <3>3. ~ raises
      BY <3>2 DEF IInv, Honest
    <3> QED BY <3>1, <3>3, MovesOfTheLedger
  <2> QED BY <2>2, <2>3, <2>4
<1> QED BY <1>1, <1>2, <1>3, <1>4, <1>5, <1>6

\* Every step of the indexing is a step of the ledger, or none.
LEMMA EveryStepIsInTheLedger ==
  ASSUME IInv, IInv', [Next]_vars
  PROVE  [Ledger!Next]_<<[i \in Items |-> Standing(i)], ~ raises>>
<1>1. CASE UNCHANGED vars
  <2>1. [i \in Items |-> Standing(i)]' = [i \in Items |-> Standing(i)]
    BY <1>1 DEF vars, Standing, Held
  <2>2. raises' = raises
    BY <1>1 DEF vars
  <2> QED BY <2>1, <2>2
<1>2. ASSUME raises' = raises,
             \A i \in Items : \/ Standing(i)' = Standing(i)
                             \/ <<Standing(i), Standing(i)'>> \in Ledger!Moves
      PROVE  Ledger!Next
  <2>1. \A i \in Items : Standing(i)' \in Ledger!Standing
    BY StandingsNext
  <2>2. [i \in Items |-> Standing(i)]' \in [Items -> Ledger!Standing]
    BY <2>1
  <2>3. \A i \in Items :
          LET book == [j \in Items |-> Standing(j)]
          IN book'[i] = book[i] \/ <<book[i], book'[i]>> \in Ledger!Moves
    BY <1>2
  <2> QED BY <1>2, <2>2, <2>3 DEF Ledger!Next
<1>3. CASE start_indexing
  <2>1. /\ ~ started /\ started' /\ raises' = raises
        /\ indexed' = {}
    BY <1>3 DEF start_indexing, IInv, NothingBefore
  <2>2. Held' = Items
    BY <1>3, StartOpens
  <2>3. \A i \in Items : Standing(i) = "outside" /\ Standing(i)' = "open"
    BY <2>1, <2>2, Standings, StandingsNext
  <2> QED BY <1>2, <2>1, <2>3, MovesOfTheLedger
<1>4. ASSUME NEW r \in work, Step(r) \/ TimesOut(r) PROVE Ledger!Next
  <2>1. PICK new : Handover(r, new)
    BY <1>4, StepHandsOver
  <2>2. Grows /\ Held' \subseteq Held
    BY <2>1, ItemsRemain DEF Handover
  <2>3. raises' = raises
    BY <2>2 DEF Grows
  <2>4. \A i \in Items : \/ Standing(i)' = Standing(i)
                         \/ <<Standing(i), Standing(i)'>> \in Ledger!Moves
    BY <2>2, HandoverMoves
  <2> QED BY <1>2, <2>3, <2>4
<1> QED BY <1>1, <1>3, <1>4 DEF Next

\* The six step functions and the two queues keep the books of WorkLedger; that
\* each open item is settled in the end is left to the model checker.
THEOREM BooksAreKept ==
  Spec => Ledger!Init /\ [][Ledger!Next]_<<[i \in Items |-> Standing(i)], ~ raises>>
<1>1. Init => Ledger!Init
  <2>1. ASSUME Init PROVE [i \in Items |-> Standing(i)] = [i \in Items |-> "outside"]
    BY <2>1 DEF Init, Standing
  <2>2. (~ raises) \in BOOLEAN
    OBVIOUS
  <2> QED BY <2>1, <2>2 DEF Ledger!Init
<1>2. IInv /\ IInv' /\ [Next]_vars
        => [Ledger!Next]_<<[i \in Items |-> Standing(i)], ~ raises>>
  BY EveryStepIsInTheLedger
<1> QED BY <1>1, <1>2, InvariantHolds, PTL DEF Spec

=============================================================================
