----------------------------- MODULE InferenceService -----------------------------
(***************************************************************************)
(* Requests for predictions of one model, single and in batches, while its *)
(* versions are loaded, switched and unloaded (ModelRegistry) and the      *)
(* service shuts down.  One event loop runs everything; it changes between *)
(* tasks where they wait: for an item of the queue, for a computation in   *)
(* the executor, or for a warm-up.                                         *)
(* The circuit breakers are left out: InferenceEngine.predict answers its  *)
(* own exceptions, so record_failure is not reached and they stay closed.  *)
(***************************************************************************)
EXTENDS ModelRegistry

CONSTANTS Singles,    \* requests that come by predict
          Batches,    \* sequences of requests that come by predict_batch
          BatchSize   \* batch_size

Requests == Singles \cup UNION {{b[i]: i \in DOMAIN b}: b \in Batches}

(* Each request is an object of its own.                                   *)
ASSUME ServiceAssumption ==
  /\ \A b \in Batches: /\ b \in Seq(Requests) /\ b # <<>>
                       /\ \A i, j \in DOMAIN b: b[i] = b[j] => i = j
  /\ BatchSize \in Nat \ {0}

VARIABLES phase,      \* serving, draining (_shutdown_event is set), or closed
          processor,  \* BatchProcessor: off, collecting, processing or stopped
          called,     \* requests whose task has yet to enter predict
          queue,      \* BatchProcessor._queue
          batch,      \* what the processor has collected
          results,    \* responses to the batch so far
          job,        \* the engine that computes a request in the executor, or 0
          answer      \* what each caller, or its future, was given

requests == <<called, queue, batch, results, job, answer>>
service  == <<phase, processor>>
vars     == <<registry, service, requests>>

(* A response is known by the request it was made from and the version     *)
(* that made it.                                                           *)
Response == [request: Requests, version: Versions \cup {NoVersion}]
NoAnswer == [request |-> "none", version |-> NoVersion]

TypeOK ==
  /\ RegistryTypeOK
  /\ phase \in {"serving", "draining", "closed"}
  /\ processor \in {"off", "collecting", "processing", "stopped"}
  /\ called \subseteq Requests
  /\ queue \in Seq(Requests)
  /\ batch \in Seq(Requests) /\ Len(batch) <= BatchSize
  /\ results \in Seq(Response) /\ (processor = "processing" => Len(results) < Len(batch))
  /\ job \in [Requests -> 0..Len(loads)]
  /\ answer \in [Requests -> Response \cup {NoAnswer}]

Init ==
  /\ RegistryInit
  /\ phase = "serving" /\ processor = "off"
  /\ called = {} /\ queue = <<>> /\ batch = <<>> /\ results = <<>>
  /\ job = [r \in Requests |-> 0] /\ answer = [r \in Requests |-> NoAnswer]

In(r, s) == \E i \in DOMAIN s: s[i] = r
New(r)   == r \notin called /\ ~In(r, queue) /\ ~In(r, batch) /\ job[r] = 0 /\ answer[r] = NoAnswer

-----------------------------------------------------------------------------
(* predict up to its wait: an error response at once (by the rate limit,   *)
(* by the validation, or as below), or a computation by the engine that is *)
(* in place.                                                               *)
Accepts == phase = "serving" /\ engine # 0

Refusal(r)    == [request |-> r, version |-> NoVersion]
Prediction(r) == [request |-> r, version |-> loads[job[r]].version]

Entering(r) == r \in called \/ (r \in Singles /\ New(r))

RefusePredict(r) ==
  /\ Entering(r)
  /\ called' = called \ {r}
  /\ answer' = [answer EXCEPT ![r] = Refusal(r)]
  /\ UNCHANGED <<registry, service, queue, batch, results, job>>

BeginPredict(r) ==
  /\ Entering(r)
  /\ Accepts
  /\ called' = called \ {r}
  /\ job' = [job EXCEPT ![r] = engine]
  /\ UNCHANGED <<registry, service, queue, batch, results, answer>>

EndPredict(r) ==
  /\ job[r] # 0 /\ ~In(r, batch)
  /\ answer' = [answer EXCEPT ![r] = Prediction(r)]
  /\ job' = [job EXCEPT ![r] = 0]
  /\ UNCHANGED <<registry, service, called, queue, batch, results>>

(* predict_batch submits every request and waits for their futures; where  *)
(* there is no processor yet each of them is a predict.  It does not look  *)
(* at the shutdown, nor at whether the processor still runs.               *)
PredictBatch(b) ==
  /\ \A i \in DOMAIN b: New(b[i])
  /\ IF processor = "off"
     THEN called' = called \cup {b[i]: i \in DOMAIN b} /\ UNCHANGED queue
     ELSE queue' = queue \o b /\ UNCHANGED called
  /\ UNCHANGED <<registry, service, batch, results, job, answer>>

-----------------------------------------------------------------------------
(* Mutant: one request more than fits is taken.                            *)
CollectRequestLate ==
  /\ processor = "collecting"
  /\ queue # <<>> /\ Len(batch) <= BatchSize
  /\ batch' = Append(batch, Head(queue))
  /\ queue' = Tail(queue)
  /\ UNCHANGED <<registry, service, called, results, job, answer>>

(* Mutant: the request stays in the queue while it is processed.           *)
PeekRequest ==
  /\ processor = "collecting"
  /\ queue # <<>> /\ Len(batch) < BatchSize
  /\ batch' = Append(batch, Head(queue))
  /\ UNCHANGED <<registry, service, queue, called, results, job, answer>>

(* BatchProcessor._process_loop: take requests until there are BatchSize   *)
(* of them, or until the deadline.                                         *)
CollectRequest ==
  /\ processor = "collecting"
  /\ queue # <<>> /\ Len(batch) < BatchSize
  /\ batch' = Append(batch, Head(queue))
  /\ queue' = Tail(queue)
  /\ UNCHANGED <<registry, service, called, results, job, answer>>

CloseBatch ==
  /\ processor = "collecting"
  /\ batch # <<>>
  /\ processor' = "processing"
  /\ UNCHANGED <<registry, phase, requests>>

Current == batch[Len(results) + 1]

(* Mutant: predictions are put before the responses that are refusals.      *)
RespondSorted(response) ==
  LET all == IF response.version = NoVersion THEN Append(results, response) ELSE <<response>> \o results
  IN  IF Len(all) < Len(batch)
      THEN results' = all /\ UNCHANGED <<answer, batch, processor>>
      ELSE /\ answer' = [r \in Requests |->
                           IF In(r, batch) THEN all[CHOOSE i \in DOMAIN batch: batch[i] = r] ELSE answer[r]]
           /\ batch' = <<>> /\ results' = <<>>
           /\ processor' = "collecting"

(* _process_batch: one response after the other, and when all are there,   *)
(* each goes to the future at its place.                                   *)
Respond(response) ==
  LET all == Append(results, response)
  IN  IF Len(all) < Len(batch)
      THEN results' = all /\ UNCHANGED <<answer, batch, processor>>
      ELSE /\ answer' = [r \in Requests |->
                           IF In(r, batch) THEN all[CHOOSE i \in DOMAIN batch: batch[i] = r] ELSE answer[r]]
           /\ batch' = <<>> /\ results' = <<>>
           /\ processor' = "collecting"

RefuseCurrent ==
  /\ processor = "processing" /\ job[Current] = 0
  /\ Respond(Refusal(Current))
  /\ UNCHANGED <<registry, phase, called, queue, job>>

BeginCurrent ==
  /\ processor = "processing" /\ job[Current] = 0
  /\ Accepts
  /\ job' = [job EXCEPT ![Current] = engine]
  /\ UNCHANGED <<registry, service, called, queue, batch, results, answer>>

EndCurrent ==
  /\ processor = "processing" /\ job[Current] # 0
  /\ Respond(Prediction(Current))
  /\ job' = [job EXCEPT ![Current] = 0]
  /\ UNCHANGED <<registry, phase, called, queue>>

-----------------------------------------------------------------------------
(* start creates the processor once the configured models are loaded.      *)
Start ==
  /\ phase = "serving" /\ processor = "off"
  /\ processor' = "collecting"
  /\ UNCHANGED <<registry, phase, requests>>

(* shutdown cancels the processor wherever it waits: what is in the batch   *)
(* and in the queue gets no answer any more.                               *)
Shutdown ==
  /\ phase = "serving"
  /\ phase' = "draining"
  /\ processor' = IF processor = "off" THEN "off" ELSE "stopped"
  /\ UNCHANGED <<registry, requests>>

(* Mutant: what the executor has not finished is cancelled.                *)
CancelExecutor ==
  /\ phase = "draining"
  /\ phase' = "closed"
  /\ job' = [r \in Requests |-> 0]
  /\ UNCHANGED <<registry, processor, called, queue, batch, results, answer>>

(* It then waits for as many requests as there are half-open breakers, and *)
(* closes the executor, which finishes what it was given.                  *)
CloseExecutor ==
  /\ phase = "draining"
  /\ phase' = "closed"
  /\ UNCHANGED <<registry, processor, requests>>

Manage == Managed(phase # "closed") /\ UNCHANGED <<service, requests>>

Process == CollectRequest \/ CloseBatch \/ RefuseCurrent \/ BeginCurrent \/ EndCurrent
Predict(r) == RefusePredict(r) \/ BeginPredict(r) \/ EndPredict(r)
Resume(r)  == (r \in called /\ Predict(r)) \/ EndPredict(r)

Next ==
  \/ \E b \in Batches: PredictBatch(b)
  \/ \E r \in Requests: Predict(r)
  \/ Process
  \/ Start \/ Shutdown \/ CloseExecutor
  \/ Manage

(* The loop runs every task that can go on, and the executor finishes what *)
(* it is given.                                                            *)
Fairness == WF_vars(Process) /\ \A r \in Requests: WF_vars(Resume(r))

Spec == Init /\ [][Next]_vars /\ Fairness
-----------------------------------------------------------------------------
(* Every answer was made from the request it is given to, refused ones and *)
(* predictions of several versions mixed in one batch.                     *)
AnswersMatchRequests == \A r \in Requests: answer[r] # NoAnswer => answer[r].request = r

(* A request is in one place, once, and in none when it has its answer: no  *)
(* future is resolved twice and nothing is computed again.                  *)
Came(r)   == ~New(r)
Places(r) == {i \in DOMAIN (queue \o batch): (queue \o batch)[i] = r}

InOnePlace ==
  \A r \in Requests:
    /\ Cardinality(Places(r)) <= 1
    /\ r \in called => job[r] = 0 /\ Places(r) = {}
    /\ answer[r] # NoAnswer => r \notin called /\ job[r] = 0 /\ Places(r) = {}

(* Every request that came gets its response, however small its batch and  *)
(* whatever happens to the versions; those that are computed or wait for    *)
(* their task also after a shutdown, and only what the processor had not    *)
(* finished then is left without one.                                      *)
RequestIsAnswered ==
  \A r \in Requests:
    Came(r) ~> answer[r] # NoAnswer
               \/ (processor = "stopped" /\ (In(r, queue) \/ In(r, batch)))
===================================================================================
