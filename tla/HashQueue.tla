------------------------------ MODULE HashQueue ------------------------------
(***************************************************************************)
(* The checksum queue of Parvion: pump_hash() on the UI thread starts a    *)
(* parvionhash child per item, a reader thread per child splits its output *)
(* into lines and notes its end, and every pump folds what was read into   *)
(* the items (hash_queue and hash_workers in session.hpp, hash_session and *)
(* hash_worker in hashing.hpp, parvionhash_main in vtm-tile.cpp).          *)
(***************************************************************************)
EXTENDS Naturals, Sequences, FiniteSets, SequencesExt

CONSTANTS
  MaxItems,     \* items that are ever queued
  MaxHashJobs   \* max_hash_jobs

ASSUME HashAssumption == MaxItems \in Nat /\ MaxHashJobs \in Nat \ {0}

Item == 1..MaxItems     \* hash_item::id

VARIABLES
  hashSeq,     \* hash_id_seq
  hashQueue,   \* the ids of hash_queue, in order
  status,      \* hash_item::status
  workers,     \* the ids served by hash_workers, in order
  wstate,      \* hash_worker::state
  child,       \* the parvionhash process
  pipe, lines, \* what it wrote, and what its reader has split off
  alive,       \* hash_session::running
  pump,        \* the worker pump_hash() looks at, 0 between pumps
  drained,     \* its drain() is done
  wrote        \* the verdict the child has written

childVars == <<child, pipe, wrote>>
hashVars  == <<hashSeq, hashQueue, status, workers, wstate, childVars, lines, alive,
               pump, drained>>

Queued(i) == \E k \in DOMAIN hashQueue : hashQueue[k] = i
Decided(i) == status[i] \in {"succeeded", "failed"}

\* Those of the sequence s that are in some, in order (as SelectSeq, which is recursive).
Only(s, some) ==
  LET at == {k \in DOMAIN s : s[k] \in some}
  IN  [n \in 1..Cardinality(at) |-> s[CHOOSE k \in at : Cardinality({j \in at : j <= k}) = n]]

HashInit ==
  /\ hashSeq = 0 /\ hashQueue = <<>> /\ status = [i \in Item |-> "none"]
  /\ workers = <<>> /\ wstate = [i \in Item |-> "init"]
  /\ child = [i \in Item |-> "none"] /\ wrote = [i \in Item |-> "nothing"]
  /\ pipe = [i \in Item |-> <<>>] /\ lines = [i \in Item |-> <<>>]
  /\ alive = [i \in Item |-> FALSE]
  /\ pump = 0 /\ drained = FALSE

-----------------------------------------------------------------------------
(* The user, between two pumps.                                            *)

\* Mutant: the id is taken before it is counted.
EnqueueHashEarly ==
  /\ pump = 0 /\ hashSeq < MaxItems
  /\ hashSeq' = hashSeq + 1
  /\ hashQueue' = Append(hashQueue, hashSeq)
  /\ status' = [status EXCEPT ![hashSeq'] = "queued"]
  /\ UNCHANGED <<workers, wstate, childVars, lines, alive, pump, drained>>

EnqueueHash ==
  /\ pump = 0 /\ hashSeq < MaxItems
  /\ hashSeq' = hashSeq + 1
  /\ hashQueue' = Append(hashQueue, hashSeq')
  /\ status' = [status EXCEPT ![hashSeq'] = "queued"]
  /\ UNCHANGED <<workers, wstate, childVars, lines, alive, pump, drained>>

\* hash_remove, hash_remove_selected, hash_remove_all: the worker is left to the pump.
HashRemove(gone) ==
  /\ pump = 0
  /\ hashQueue' = Only(hashQueue, Item \ gone)
  /\ status' = [i \in Item |-> IF i \in gone THEN "none" ELSE status[i]]
  /\ UNCHANGED <<hashSeq, workers, wstate, childVars, lines, alive, pump, drained>>

-----------------------------------------------------------------------------
(* parvionhash and its reader thread.                                      *)

\* The digest or an error; the size and progress lines before it decide nothing.
ChildWorks(i) ==
  /\ child[i] = "work"
  /\ \E said \in {"R", "E"} : /\ pipe' = [pipe EXCEPT ![i] = Append(@, said)]
                              /\ wrote' = [wrote EXCEPT ![i] = said]
  /\ child' = [child EXCEPT ![i] = "return"]
  /\ UNCHANGED <<hashSeq, hashQueue, status, workers, wstate, lines, alive, pump, drained>>

\* It returns, or ends without either.
ChildExits(i) ==
  /\ child[i] \in {"work", "return"}
  /\ child' = [child EXCEPT ![i] = "gone"]
  /\ UNCHANGED <<hashSeq, hashQueue, status, workers, wstate, pipe, wrote, lines, alive,
                 pump, drained>>

HashReader(i) ==
  /\ alive[i]
  /\ \/ /\ pipe[i] # <<>>
        /\ lines' = [lines EXCEPT ![i] = Append(@, Head(pipe[i]))]
        /\ pipe' = [pipe EXCEPT ![i] = Tail(@)]
        /\ UNCHANGED alive
     \/ /\ pipe[i] = <<>> /\ child[i] = "gone"
        /\ alive' = [alive EXCEPT ![i] = FALSE]
        /\ UNCHANGED <<lines, pipe>>
  /\ UNCHANGED <<hashSeq, hashQueue, status, workers, wstate, child, wrote, pump, drained>>

-----------------------------------------------------------------------------
(* pump_hash().                                                            *)

PumpHash ==
  /\ pump = 0 /\ pump' = 1 /\ drained' = FALSE
  /\ UNCHANGED <<hashSeq, hashQueue, status, workers, wstate, childVars, lines, alive>>

Worker == workers[pump]
AtWorker == pump \in 1..Len(workers)

\* hash_worker::poll(): drain() ...
PollDrain ==
  /\ AtWorker /\ ~drained
  /\ LET said == ToSet(lines[Worker])
     IN  wstate' = [wstate EXCEPT ![Worker] =
                      IF @ # "running" THEN @
                      ELSE IF "R" \in said THEN "ok" ELSE IF "E" \in said THEN "err" ELSE @]
  /\ lines' = [lines EXCEPT ![Worker] = <<>>]
  /\ drained' = TRUE
  /\ UNCHANGED <<hashSeq, hashQueue, status, workers, childVars, alive, pump>>

\* ... then alive(); and the fold into the item, if it is still there.
PollAlive ==
  /\ AtWorker /\ drained
  /\ wstate' = [wstate EXCEPT ![Worker] = IF @ = "running" /\ ~alive[Worker] THEN "err" ELSE @]
  /\ status' = [status EXCEPT ![Worker] =
                  CASE ~Queued(Worker) \/ @ # "hashing" -> @
                    [] OTHER -> CASE wstate'[Worker] = "ok"  -> "succeeded"
                                  [] wstate'[Worker] = "err" -> "failed"
                                  [] OTHER                   -> @]
  /\ pump' = pump + 1 /\ drained' = FALSE
  /\ UNCHANGED <<hashSeq, hashQueue, workers, childVars, lines, alive>>

\* Mutant: a worker is kept until its item is decided, also when it was removed.
DroppedUnlessRemoved == {i \in ToSet(workers) : Decided(i)}

\* Workers to drop: their item is decided or gone.  stop() kills the child and joins the
\* reader.
Dropped == {i \in ToSet(workers) : ~Queued(i) \/ Decided(i)}

Waiting == {i \in ToSet(hashQueue) : status[i] = "queued"}

\* Those of a set that come before i in the queue.
Ahead(set, i) ==
  {j \in set : \E m, n \in DOMAIN hashQueue : m < n /\ hashQueue[m] = j /\ hashQueue[n] = i}

\* Mutant: started items are not counted.
StartedAll(kept) == {i \in Waiting : Len(kept) < MaxHashJobs}

\* The queued items there is room for, in order.
StartedNow(kept) == {i \in Waiting : Len(kept) + Cardinality(Ahead(Waiting, i)) < MaxHashJobs}

\* Mutant: the reader, not launch(), sets `running'.
AliveLate(begun, failing) == [i \in Item |-> alive[i] /\ i \notin Dropped]

\* launch() sets `running' before the reader starts; stop() ends with it cleared.
AliveNext(begun, failing) ==
  [i \in Item |-> IF i \in begun \ failing THEN TRUE ELSE alive[i] /\ i \notin Dropped]

\* The rest of the pump: drop, then start; a child may fail to start.
PumpStart ==
  /\ pump = Len(workers) + 1
  /\ LET kept  == Only(workers, Item \ Dropped)
         begun == StartedNow(kept)
     IN  \E failing \in SUBSET begun :
           /\ workers' = kept \o Only(hashQueue, begun)
           /\ status' = [i \in Item |-> IF i \in begun THEN "hashing" ELSE status[i]]
           /\ wstate' = [i \in Item |-> IF i \in failing THEN "err"
                                        ELSE IF i \in begun THEN "running"
                                        ELSE IF i \in Dropped THEN "init" ELSE wstate[i]]
           /\ child' = [i \in Item |-> IF i \in Dropped THEN "none"
                                       ELSE IF i \in begun \ failing THEN "work" ELSE child[i]]
           /\ alive' = AliveNext(begun, failing)
           /\ pipe' = [i \in Item |-> IF i \in Dropped THEN <<>> ELSE pipe[i]]
           /\ lines' = [i \in Item |-> IF i \in Dropped THEN <<>> ELSE lines[i]]
  /\ pump' = 0
  /\ UNCHANGED <<hashSeq, hashQueue, wrote, drained>>

Pump == PumpHash \/ PollDrain \/ PollAlive \/ PumpStart

HashNext ==
  \/ EnqueueHash
  \/ \E gone \in SUBSET ToSet(hashQueue) : gone # {} /\ HashRemove(gone)
  \/ \E i \in Item : ChildWorks(i) \/ ChildExits(i) \/ HashReader(i)
  \/ Pump

HashSpec == HashInit /\ [][HashNext]_hashVars

\* The UI timer polls on, a reader reads on, and a child comes to the end of its file.
HashFairness ==
  /\ WF_hashVars(Pump)
  /\ \A i \in Item : WF_hashVars(HashReader(i)) /\ WF_hashVars(ChildExits(i))

-----------------------------------------------------------------------------
\* The type of every variable.
HashTypeOK ==
  /\ hashSeq \in 0..MaxItems /\ hashQueue \in Seq(1..hashSeq)
  /\ status \in [Item -> {"none", "queued", "hashing", "succeeded", "failed"}]
  /\ workers \in Seq(Item) /\ wstate \in [Item -> {"init", "running", "ok", "err"}]
  /\ child \in [Item -> {"none", "work", "return", "gone"}]
  /\ wrote \in [Item -> {"nothing", "R", "E"}]
  /\ pipe \in [Item -> Seq({"R", "E"})] /\ lines \in [Item -> Seq({"R", "E"})]
  /\ alive \in [Item -> BOOLEAN]
  /\ pump \in 0..Len(workers) + 1 /\ drained \in BOOLEAN

\* An item succeeds on the digest of its own child only, and fails on its error or after
\* its end, never while the child still works.
HonestVerdict ==
  \A i \in Item : /\ status[i] = "succeeded" => wrote[i] = "R"
                  /\ status[i] = "failed" => child[i] # "work"

\* Workers serve items that were started, one each, so that no result goes to another
\* item and no item is hashed twice; and however many items are queued and removed, no
\* more children than max_hash_jobs run.
OneWorkerEach ==
  /\ \A j, k \in DOMAIN workers : workers[j] = workers[k] => j = k
  /\ \A i \in Item : status[i] = "hashing" /\ Queued(i) => i \in ToSet(workers)
  /\ Cardinality({i \in Item : child[i] \in {"work", "return"}}) <= MaxHashJobs

\* Every item is decided or removed, whatever its child does and whatever else is
\* removed meanwhile (hash_queue: `the rest stay queued').
EveryHashDecided ==
  \A i \in Item : Queued(i) ~> Decided(i) \/ ~Queued(i)
=============================================================================
