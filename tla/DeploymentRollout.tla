--------------------------- MODULE DeploymentRollout ---------------------------
(***************************************************************************)
(* The rollout of one model version by DeploymentOrchestrator: its state   *)
(* machine, the share of requests it serves, approval gates, pause and     *)
(* resume, rollback, and the thread that monitors it.  Callers and the     *)
(* monitor run in threads of one process, and the only lock guards the     *)
(* table of deployments: a transition is checked in one step and made in   *)
(* another, and the share follows in a third.  rollback_reason, the event  *)
(* texts and the optional cluster weight, only reported, are left out.     *)
(***************************************************************************)
EXTENDS Integers, Sequences, FiniteSets

CONSTANTS Callers,    \* threads that call the orchestrator
          Configs,    \* the configurations a deployment may be created with
          Approvers,  \* config.approvers
          Targets,    \* the states a caller may ask resume_deployment for
          MaxCalls,   \* bound: calls made from outside
          MaxGates    \* bound: approval gates created

Canary == {"CANARY_1", "CANARY_5", "CANARY_25"}
Final  == {"ROLLED_BACK", "FAILED"}
States == Canary \cup Final \cup
          {"PENDING", "VALIDATING", "SHADOW", "PROMOTING", "ACTIVE", "ROLLING_BACK", "PAUSED"}

(* overlap is no setting of the code: without it the calls and the monitor *)
(* happen to come one after the other.                                     *)
Config == [type: {"shadow", "canary", "direct"}, artifact: BOOLEAN, require_approval: BOOLEAN,
           auto_rollback: BOOLEAN, auto_promote: BOOLEAN, overlap: BOOLEAN]

ASSUME RolloutAssumption == /\ Configs \subseteq Config
                            /\ Targets \subseteq States
                            /\ "monitor" \notin Callers
                            /\ MaxCalls \in Nat /\ MaxGates \in Nat

Threads == Callers \cup {"monitor"}

VARIABLES config,   \* of the deployment; never changes
          state,    \* deployment.state
          traffic,  \* current_traffic_percentage
          from,     \* from_state of the last event where it is not PAUSED
          gates,    \* approval_gates
          health,   \* what the metrics say: good, degraded, or bad (a trigger is violated)
          todo,     \* todo[t]: the steps that thread t still has to make
          jumped,   \* was a resume given another state than the one paused?
          calls     \* calls made so far

control == <<gates, health, jumped, calls>>
vars    == <<config, state, traffic, from, todo, control>>

(* VALID_TRANSITIONS; nothing in the code asks for PENDING.                *)
Valid == [PENDING      |-> {"VALIDATING", "FAILED"},
          VALIDATING   |-> {"SHADOW", "CANARY_1", "FAILED"},
          SHADOW       |-> {"CANARY_1", "PAUSED", "ROLLED_BACK", "FAILED"},
          CANARY_1     |-> {"CANARY_5", "ROLLING_BACK", "PAUSED", "FAILED"},
          CANARY_5     |-> {"CANARY_25", "ROLLING_BACK", "PAUSED", "FAILED"},
          CANARY_25    |-> {"PROMOTING", "ROLLING_BACK", "PAUSED", "FAILED"},
          PROMOTING    |-> {"ACTIVE", "ROLLING_BACK", "FAILED"},
          ACTIVE       |-> {"ROLLING_BACK", "PAUSED"},
          ROLLING_BACK |-> {"ROLLED_BACK", "FAILED"},
          ROLLED_BACK  |-> {"PENDING"},
          FAILED       |-> {"PENDING"},
          PAUSED       |-> Canary \cup {"SHADOW", "ROLLING_BACK"}]

(* CANARY_STAGES: what follows a stage, and the percentage of each.        *)
NextStage == [CANARY_1 |-> "CANARY_5", CANARY_5 |-> "CANARY_25", CANARY_25 |-> "ACTIVE"]
Percent == [s \in States |-> IF s = "ACTIVE" THEN 100 ELSE IF s = "CANARY_25" THEN 25
                             ELSE IF s = "CANARY_5" THEN 5 ELSE IF s = "CANARY_1" THEN 1 ELSE 0]

(* The steps of a call.  "try" asks for a transition and goes on whatever  *)
(* the answer, "must" returns when it is refused, "set" makes one that was *)
(* found valid, "share" gives the model the percentage of a stage.         *)
Step == {"try", "must", "set", "share"} \X States

Started ==
  [shadow |-> << <<"must", "SHADOW">>, <<"share", "SHADOW">> >>,
   canary |-> << <<"must", "CANARY_1">>, <<"share", "CANARY_1">> >>,
   direct |-> << <<"must", "PROMOTING">>, <<"share", "ACTIVE">>, <<"must", "ACTIVE">> >>]

(* _validate_deployment wants an artifact path.                            *)
Validated == << <<"try", "VALIDATING">> >>
             \o IF config.artifact THEN Started[config.type] ELSE << <<"try", "FAILED">> >>

(* Mutants: a promotion that skips PROMOTING, and one that sets no share.  *)
AdvancedDirectly(s)    == << <<"must", NextStage[s]>>, <<"share", NextStage[s]>> >>
AdvancedInNameOnly(s) ==
  IF NextStage[s] = "ACTIVE" THEN << <<"try", "PROMOTING">>, <<"must", "ACTIVE">> >>
                             ELSE << <<"must", NextStage[s]>> >>

Advanced(s) ==
  (IF NextStage[s] = "ACTIVE" THEN << <<"try", "PROMOTING">> >> ELSE <<>>)
    \o << <<"must", NextStage[s]>>, <<"share", NextStage[s]>> >>

(* trigger_rollback; its playbook may fail.  The early return in a final   *)
(* state is the refusal of the first transition.                           *)
RollbackTo(end) == << <<"must", "ROLLING_BACK">>, <<"share", "ROLLING_BACK">>, <<"try", end>> >>
Rollbacks == {RollbackTo(end): end \in Final}

TypeOK ==
  /\ config \in Configs
  /\ state \in States
  /\ traffic \in {Percent[s]: s \in States}
  /\ from \in States \ {"PAUSED"}
  /\ gates \in Seq([stage: {"CANARY_1", "ACTIVE"}, approvers: SUBSET Approvers,
                    status: {"PENDING", "APPROVED", "REJECTED", "EXPIRED"}])
  /\ health \in {"good", "degraded", "bad"}
  /\ todo \in [Threads -> Seq(Step)]
  /\ jumped \in BOOLEAN
  /\ calls \in 0..MaxCalls

Init ==
  /\ config \in Configs
  /\ state = "PENDING" /\ from = "PENDING"
  /\ traffic = 0
  /\ gates = <<>>
  /\ health = "good"
  /\ todo = [t \in Threads |-> <<>>]
  /\ jumped = FALSE
  /\ calls = 0

Idle     == \A t \in Threads: todo[t] = <<>>
MayBegin(t) == IF config.overlap THEN todo[t] = <<>> ELSE Idle

Begin(t, steps) ==
  /\ MayBegin(t)
  /\ todo' = [todo EXCEPT ![t] = steps]
  /\ UNCHANGED <<config, state, traffic, from, health>>

Called(t, steps) ==
  /\ t \in Callers
  /\ calls < MaxCalls
  /\ calls' = calls + 1
  /\ Begin(t, steps)

(* _create_approval_gate: the promotion is refused, "Waiting for approval",*)
(* because the gate just created is pending.                               *)
OpenGate(stage) ==
  /\ Len(gates) < MaxGates
  /\ gates' = Append(gates, [stage |-> stage, approvers |-> {}, status |-> "PENDING"])

(* The calls.  What a call reads first and the checks that make it return  *)
(* are its first step; a call that returns there changes nothing.          *)
StartDeployment(t) ==
  /\ state = "PENDING"
  /\ Called(t, Validated) \/ Called(t, Started[config.type])    \* skip_validation
  /\ UNCHANGED <<gates, jumped>>

(* promote_from_shadow of a shadow that is ready, or forced.               *)
PromoteFromShadow ==
  IF config.require_approval THEN <<>> ELSE Started.canary

(* Mutant: only the first promotion asked for opens a gate.                *)
FirstAdvanceNeedsGate ==
  NextStage[state] = "ACTIVE" /\ config.require_approval /\ gates = <<>>

(* advance_canary; the force flag skips the metrics but not the gate.      *)
AdvanceNeedsGate == NextStage[state] = "ACTIVE" /\ config.require_approval
AdvanceCanary == IF AdvanceNeedsGate THEN <<>> ELSE Advanced(state)

AskToPromote(t) ==
  /\ state = "SHADOW"
  /\ Called(t, PromoteFromShadow)
  /\ IF config.require_approval THEN OpenGate("CANARY_1") ELSE UNCHANGED gates
  /\ UNCHANGED jumped

AskToAdvance(t, force) ==
  /\ state \in Canary
  /\ \/ /\ force \/ health = "good"
        /\ Called(t, AdvanceCanary)
        /\ IF AdvanceNeedsGate THEN OpenGate("ACTIVE") ELSE UNCHANGED gates
     \/ /\ ~force /\ health = "bad"
        /\ \E steps \in Rollbacks: Called(t, steps)
        /\ UNCHANGED gates
  /\ UNCHANGED jumped

AskToRollBack(t) ==
  /\ \E steps \in Rollbacks: Called(t, steps)
  /\ UNCHANGED <<gates, jumped>>

AskToPause(t) ==
  /\ Called(t, << <<"must", "PAUSED">> >>)
  /\ UNCHANGED <<gates, jumped>>

(* resume_deployment, to a given state or else to the last one not PAUSED. *)
AskToResume(t, target) ==
  /\ state = "PAUSED"
  /\ Called(t, << <<"must", target>> >>)
  /\ jumped' = (jumped \/ target # from)
  /\ UNCHANGED gates

(* approve_gate: of a pending gate, that may have expired.  An approval    *)
(* promotes nothing by itself.                                             *)
ApproveGate(t, i, who) ==
  LET approvers == gates[i].approvers \cup {who}
  IN  /\ gates[i].status = "PENDING"
      /\ Called(t, <<>>)
      /\ \/ gates' = [gates EXCEPT ![i].status = "EXPIRED"]
         \/ gates' = [gates EXCEPT ![i].approvers = approvers,
                                   ![i].status = IF Approvers \subseteq approvers
                                                 THEN "APPROVED" ELSE @]
      /\ UNCHANGED jumped

(* Mutant: only a gate that is pending takes the model out of service.     *)
RejectIfPending(t, i) ==
  /\ gates' = [gates EXCEPT ![i].status = "REJECTED"]
  /\ IF gates[i].status = "PENDING" THEN \E steps \in Rollbacks: Called(t, steps)
                                     ELSE Called(t, <<>>)
  /\ UNCHANGED jumped

(* reject_gate: of any gate, whatever its status.                          *)
RejectGate(t, i) ==
  /\ gates' = [gates EXCEPT ![i].status = "REJECTED"]
  /\ \E steps \in Rollbacks: Called(t, steps)
  /\ UNCHANGED jumped

(* Mutant: a deployment that is complete is no longer watched.             *)
WatchedUntilActive == Canary \cup {"SHADOW"}

(* The monitor, of the states that _check_all_deployments watches.         *)
Watched == Canary \cup {"SHADOW", "ACTIVE"}

MonitorRollsBack ==
  /\ state \in Watched
  /\ config.auto_rollback /\ health = "bad"
  /\ \E steps \in Rollbacks: Begin("monitor", steps)
  /\ UNCHANGED <<gates, jumped, calls>>

(* _check_auto_promotion, once the shadow is ready or the stage has lasted;*)
(* without auto_rollback it still rolls back through advance_canary.       *)
MonitorPromotes ==
  /\ config.auto_promote
  /\ ~(config.auto_rollback /\ health = "bad")
  /\ \/ /\ state = "SHADOW"
        /\ Begin("monitor", PromoteFromShadow)
        /\ IF config.require_approval THEN OpenGate("CANARY_1") ELSE UNCHANGED gates
     \/ /\ state \in Canary /\ health = "good"
        /\ Begin("monitor", AdvanceCanary)
        /\ IF AdvanceNeedsGate THEN OpenGate("ACTIVE") ELSE UNCHANGED gates
     \/ /\ state \in Canary /\ health = "bad"
        /\ \E steps \in Rollbacks: Begin("monitor", steps)
        /\ UNCHANGED gates
  /\ UNCHANGED <<jumped, calls>>

(* Mutants: a transition that is not checked, and an event that records    *)
(* the state of a pause too.                                               *)
TakeTransition(t) ==
  /\ Head(todo[t])[1] \in {"try", "must"}
  /\ todo' = [todo EXCEPT ![t] = << <<"set", Head(todo[t])[2]>> >> \o Tail(@)]
  /\ UNCHANGED <<config, state, traffic, from, control>>
MakeAnyTransition(t) ==
  /\ Head(todo[t])[1] = "set"
  /\ state' = Head(todo[t])[2]
  /\ from' = state
  /\ todo' = [todo EXCEPT ![t] = Tail(@)]
  /\ UNCHANGED <<config, traffic, control>>

(* The steps of a thread.                                                  *)
CheckTransition(t) ==
  LET kind == Head(todo[t])[1]
      to   == Head(todo[t])[2]
  IN  /\ kind \in {"try", "must"}
      /\ todo' = [todo EXCEPT ![t] = IF to \in Valid[state] THEN << <<"set", to>> >> \o Tail(@)
                                     ELSE IF kind = "try" THEN Tail(@) ELSE <<>>]
      /\ UNCHANGED <<config, state, traffic, from, control>>

MakeTransition(t) ==
  /\ Head(todo[t])[1] = "set"
  /\ state' = Head(todo[t])[2]
  /\ from' = IF state = "PAUSED" THEN from ELSE state
  /\ todo' = [todo EXCEPT ![t] = Tail(@)]
  /\ UNCHANGED <<config, traffic, control>>

SetShare(t) ==
  /\ Head(todo[t])[1] = "share"
  /\ traffic' = Percent[Head(todo[t])[2]]
  /\ todo' = [todo EXCEPT ![t] = Tail(@)]
  /\ UNCHANGED <<config, state, from, control>>

Proceed(t) ==
  /\ todo[t] # <<>>
  /\ CheckTransition(t) \/ MakeTransition(t) \/ SetShare(t)

(* External: the metrics of the two models, as the analysis reads them.    *)
HealthChanges ==
  /\ health' \in {"good", "degraded", "bad"} \ {health}
  /\ UNCHANGED <<config, state, traffic, from, todo, gates, jumped, calls>>

Call(t) ==
  \/ StartDeployment(t)
  \/ AskToPromote(t)
  \/ \E force \in BOOLEAN: AskToAdvance(t, force)
  \/ AskToRollBack(t)
  \/ AskToPause(t)
  \/ \E target \in Targets \cup {from}: AskToResume(t, target)
  \/ \E i \in DOMAIN gates: RejectGate(t, i) \/ \E who \in Approvers: ApproveGate(t, i, who)

Next ==
  \/ \E t \in Callers: Call(t)
  \/ MonitorRollsBack
  \/ MonitorPromotes
  \/ \E t \in Threads: Proceed(t)
  \/ HealthChanges

(* Every thread goes on with what it began, and the loop of the monitor    *)
(* comes round: to the triggers, and to a stage whose time is over.        *)
(* Nobody has to call, and the metrics need not change.                    *)
Fairness ==
  /\ \A t \in Threads: WF_vars(Proceed(t))
  /\ WF_vars(MonitorRollsBack)
  /\ WF_vars(MonitorPromotes)

Spec == Init /\ [][Next]_vars /\ Fairness

-----------------------------------------------------------------------------
(* Safety *)

(* The share that route_request gives the model.                           *)
Exposure == CASE state = "SHADOW" -> 0
              [] state = "ACTIVE" -> 100
              [] OTHER            -> traffic

(* One call at a time, and unless a resume named another stage: between    *)
(* calls a stage serves its percentage, a paused deployment the one it was *)
(* paused at, and nothing before the canary or after the rollback.         *)
ShareMatchesStage ==
  ~config.overlap /\ ~jumped /\ Idle
    => traffic = Percent[IF state = "PAUSED" THEN from ELSE state]

(* One call at a time: a deployment that was rolled back or failed stays   *)
(* so and serves nobody (1868, 1876), whatever is called afterwards.       *)
WithdrawnStaysWithdrawn ==
  [][~config.overlap /\ state \in Final => state' = state /\ Exposure' = 0]_vars

(* With require_approval nobody reaches 100%, by any interleaving: each    *)
(* way to PROMOTING stops at a gate (1725).  Only a caller who resumes to  *)
(* PROMOTING while another resume is under way gets past it.               *)
NoPromotionUnapproved ==
  config.require_approval /\ "PROMOTING" \notin Targets
    => state \notin {"PROMOTING", "ACTIVE"} /\ Exposure < 100

(* One call at a time: a gate for 100% that was rejected took the model    *)
(* out of service (2083), also when the deployment was paused meanwhile.   *)
RejectionWithdraws ==
  ~config.overlap /\ ~jumped /\ Idle
    /\ (\E i \in DOMAIN gates: gates[i].stage = "ACTIVE" /\ gates[i].status = "REJECTED")
  => state \in Final /\ Exposure = 0

(* Liveness *)

(* A model whose metrics stay bad leaves the canary stages and ACTIVE for  *)
(* good, also when calls that are under way bring it back after a rollback *)
(* of the monitor (2144).  It may be left paused, which nobody monitors.   *)
BadModelIsWithdrawn ==
  config.auto_rollback /\ <>[](health = "bad")
    => <>[](state \notin Canary \cup {"ACTIVE", "PROMOTING"})

(* A canary that stays healthy does not wait for ever: with auto_promote   *)
(* and no approval it becomes active (2187), unless a call took it away.   *)
HealthyCanaryIsPromoted ==
  config.auto_promote /\ ~config.require_approval /\ <>[](health = "good")
    => <>[](state \notin Canary)
===============================================================================
