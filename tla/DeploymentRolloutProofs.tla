------------------------ MODULE DeploymentRolloutProofs ------------------------
(***************************************************************************)
(* What DeploymentRollout guarantees for any callers, configurations,      *)
(* approvers and resume targets, and any number of calls and gates.        *)
(***************************************************************************)
EXTENDS DeploymentRollout, SequenceTheorems, TLAPS

(* What a call or a round of the monitor can leave for its thread to do.   *)
Quiet ==
  {<<>>} \cup Rollbacks \cup {<< <<"must", "PAUSED">> >>}
  \cup (IF state = "PENDING" THEN {Validated, Started[config.type]} ELSE {})
  \cup (IF state = "SHADOW" THEN {PromoteFromShadow} ELSE {})
  \cup (IF state \in Canary THEN {AdvanceCanary} ELSE {})

Begun ==
  Quiet \cup (IF state = "PAUSED" THEN {<< <<"must", s>> >>: s \in Targets \cup {from}} ELSE {})

GateStatus == {"PENDING", "APPROVED", "REJECTED", "EXPIRED"}
Gate == [stage: {"CANARY_1", "ACTIVE"}, approvers: SUBSET Approvers, status: GateStatus]
GateOK(gs) == gs \in Seq(Gate)

(* Every step of the specification begins a call, goes on with one, or     *)
(* leaves the deployment alone.                                            *)
LEMMA OpenGateOK ==
  ASSUME TypeOK, NEW stage \in {"CANARY_1", "ACTIVE"}, OpenGate(stage)
  PROVE  GateOK(gates')
BY DEF TypeOK, OpenGate, GateOK, Gate, GateStatus

LEMMA UpdateGateOK ==
  ASSUME TypeOK, NEW i \in DOMAIN gates, NEW names \in SUBSET Approvers, NEW status \in GateStatus
  PROVE  /\ GateOK([gates EXCEPT ![i].status = status])
         /\ GateOK([gates EXCEPT ![i].approvers = names, ![i].status = status])
<1>1. gates \in Seq(Gate) /\ i \in 1..Len(gates) /\ gates[i] \in Gate
  <2>1. gates \in Seq(Gate)
    BY DEF TypeOK, Gate, GateStatus
  <2>2. QED
    BY <2>1, ElementOfSeq, LenProperties
<1>2. \A g \in Gate: [gates EXCEPT ![i] = g] \in Seq(Gate)
  BY <1>1, ExceptSeq
<1>3. /\ [gates[i] EXCEPT !.status = status] \in Gate
      /\ [gates[i] EXCEPT !.approvers = names, !.status = status] \in Gate
  BY <1>1 DEF Gate
<1>4. /\ [gates EXCEPT ![i].status = status] = [gates EXCEPT ![i] = [gates[i] EXCEPT !.status = status]]
      /\ [gates EXCEPT ![i].approvers = names, ![i].status = status]
           = [gates EXCEPT ![i] = [gates[i] EXCEPT !.approvers = names, !.status = status]]
  BY <1>1
<1>5. QED
  BY <1>2, <1>3, <1>4 DEF GateOK

LEMMA CallBegins ==
  ASSUME TypeOK, RolloutAssumption, NEW t \in Callers, Call(t)
  PROVE  /\ \E steps \in Begun: Begin(t, steps)
         /\ GateOK(gates') /\ jumped' \in BOOLEAN /\ calls' \in 0..MaxCalls
<1> DEFINE Goal == /\ \E steps \in Begun: Begin(t, steps)
                   /\ GateOK(gates') /\ jumped' \in BOOLEAN /\ calls' \in 0..MaxCalls
<1> USE DEF Called
<1>0. GateOK(gates) /\ jumped \in BOOLEAN /\ calls \in 0..MaxCalls /\ MaxCalls \in Nat
  BY DEF TypeOK, GateOK, Gate, GateStatus, RolloutAssumption
<1>1. CASE StartDeployment(t)
  BY <1>0, <1>1 DEF StartDeployment, Begun, Quiet
<1>2. CASE AskToPromote(t)
  <2>1. GateOK(gates')
    BY <1>0, <1>2, OpenGateOK DEF AskToPromote
  <2>2. QED
    BY <1>0, <1>2, <2>1 DEF AskToPromote, Begun, Quiet
<1>3. ASSUME NEW force \in BOOLEAN, AskToAdvance(t, force) PROVE Goal
  <2>1. GateOK(gates')
    BY <1>0, <1>3, OpenGateOK DEF AskToAdvance
  <2>2. QED
    BY <1>0, <1>3, <2>1 DEF AskToAdvance, Begun, Quiet
<1>4. CASE AskToRollBack(t)
  BY <1>0, <1>4 DEF AskToRollBack, Begun, Quiet
<1>5. CASE AskToPause(t)
  BY <1>0, <1>5 DEF AskToPause, Begun, Quiet
<1>6. ASSUME NEW target \in Targets \cup {from}, AskToResume(t, target) PROVE Goal
  BY <1>0, <1>6 DEF AskToResume, Begun, Quiet
<1>7. ASSUME NEW i \in DOMAIN gates, RejectGate(t, i) PROVE Goal
  <2>1. gates' = [gates EXCEPT ![i].status = "REJECTED"] /\ "REJECTED" \in GateStatus
    BY <1>7 DEF RejectGate, GateStatus
  <2>2. GateOK(gates')
    BY <2>1, UpdateGateOK
  <2>3. QED
    BY <1>0, <1>7, <2>2 DEF RejectGate, Begun, Quiet
<1>8. ASSUME NEW i \in DOMAIN gates, NEW who \in Approvers, ApproveGate(t, i, who) PROVE Goal
  <2>1. GateOK(gates')
    <3> DEFINE names == gates[i].approvers \cup {who}
               outcome == IF Approvers \subseteq names THEN "APPROVED" ELSE gates[i].status
    <3>1. gates[i] \in Gate
      BY <1>0, ElementOfSeq, LenProperties DEF GateOK
    <3>2. names \in SUBSET Approvers /\ outcome \in GateStatus
      BY <3>1 DEF Gate, GateStatus
    <3>3. \/ gates' = [gates EXCEPT ![i].status = "EXPIRED"]
          \/ gates' = [gates EXCEPT ![i].approvers = names, ![i].status = outcome]
      BY <1>8 DEF ApproveGate
    <3> HIDE DEF names, outcome
    <3>4. CASE gates' = [gates EXCEPT ![i].status = "EXPIRED"]
      BY <3>2, <3>4, UpdateGateOK DEF GateStatus
    <3>5. CASE gates' = [gates EXCEPT ![i].approvers = names, ![i].status = outcome]
      BY <3>2, <3>5, UpdateGateOK
    <3>6. QED
      BY <3>3, <3>4, <3>5
  <2>2. QED
    BY <1>0, <1>8, <2>1 DEF ApproveGate, Begun, Quiet
<1>9. QED
  BY <1>1, <1>2, <1>3, <1>4, <1>5, <1>6, <1>7, <1>8 DEF Call

LEMMA MonitorBegins ==
  ASSUME TypeOK, MonitorRollsBack \/ MonitorPromotes
  PROVE  /\ \E steps \in Begun: Begin("monitor", steps)
         /\ GateOK(gates') /\ UNCHANGED <<jumped, calls>>
<1>0. GateOK(gates)
  BY DEF TypeOK, GateOK, Gate, GateStatus
<1>1. CASE MonitorRollsBack
  BY <1>0, <1>1 DEF MonitorRollsBack, Begun, Quiet
<1>2. CASE MonitorPromotes
  <2>1. GateOK(gates')
    BY <1>0, <1>2, OpenGateOK DEF MonitorPromotes
  <2>2. QED
    BY <1>0, <1>2, <2>1 DEF MonitorPromotes, Begun, Quiet
<1>3. QED
  BY <1>1, <1>2
-------------------------------------------------------------------------------
(* The states as one explicit set, for the provers.                        *)
LEMMA StatesAre ==
  States = {"PENDING", "VALIDATING", "SHADOW", "CANARY_1", "CANARY_5", "CANARY_25",
            "PROMOTING", "ACTIVE", "ROLLING_BACK", "ROLLED_BACK", "FAILED", "PAUSED"}
BY DEF States, Canary, Final

LEMMA StepSeqs ==
  /\ <<>> \in Seq(Step)
  /\ \A a, b, c \in Step: /\ <<a>> \in Seq(Step) /\ <<a, b>> \in Seq(Step)
                          /\ <<a, b, c>> \in Seq(Step)
OBVIOUS

LEMMA StepsAre ==
  \A kind \in {"try", "must", "set", "share"}: \A s \in States: <<kind, s>> \in Step
BY DEF Step

LEMMA BegunIsSteps ==
  ASSUME TypeOK, RolloutAssumption, NEW steps \in Begun
  PROVE  steps \in Seq(Step)
<1>1. /\ Started.shadow \in Seq(Step) /\ Started.canary \in Seq(Step)
      /\ Started.direct \in Seq(Step)
  <2>1. /\ <<"must", "SHADOW">> \in Step /\ <<"share", "SHADOW">> \in Step
        /\ <<"must", "CANARY_1">> \in Step /\ <<"share", "CANARY_1">> \in Step
        /\ <<"must", "PROMOTING">> \in Step /\ <<"share", "ACTIVE">> \in Step
        /\ <<"must", "ACTIVE">> \in Step
    BY StatesAre, StepsAre
  <2>2. QED
    BY <2>1, StepSeqs DEF Started
<1>2. Started[config.type] \in Seq(Step)
  <2>1. config.type \in {"shadow", "canary", "direct"}
    BY DEF TypeOK, RolloutAssumption, Config
  <2>2. \/ Started[config.type] = Started.shadow
        \/ Started[config.type] = Started.canary
        \/ Started[config.type] = Started.direct
    BY <2>1
  <2>3. QED
    BY <1>1, <2>2
<1>3. ASSUME NEW s \in Canary PROVE Advanced(s) \in Seq(Step)
  <2>1. NextStage[s] \in States
    BY StatesAre DEF Canary, NextStage
  <2>2. << <<"must", NextStage[s]>>, <<"share", NextStage[s]>> >> \in Seq(Step)
    BY <2>1, StepsAre, StepSeqs
  <2>3. << <<"try", "PROMOTING">> >> \in Seq(Step)
    BY StatesAre, StepsAre, StepSeqs
  <2>4. QED
    BY <2>2, <2>3, StepSeqs, ConcatProperties DEF Advanced
<1>4. Rollbacks \subseteq Seq(Step)
  <2>1. ASSUME NEW end \in Final PROVE RollbackTo(end) \in Seq(Step)
    <3>1. /\ <<"must", "ROLLING_BACK">> \in Step /\ <<"share", "ROLLING_BACK">> \in Step
          /\ <<"try", end>> \in Step
      BY <2>1, StatesAre, StepsAre DEF Final
    <3>2. QED
      BY <3>1, StepSeqs DEF RollbackTo
  <2>2. QED
    BY <2>1 DEF Rollbacks
<1>5. Validated \in Seq(Step)
  <2>1. << <<"try", "VALIDATING">> >> \in Seq(Step) /\ << <<"try", "FAILED">> >> \in Seq(Step)
    BY StatesAre, StepsAre, StepSeqs
  <2>2. QED
    BY <1>2, <2>1, ConcatProperties DEF Validated
<1>6. \A s \in Targets \cup {from}: << <<"must", s>> >> \in Seq(Step)
  BY StepsAre, StepSeqs DEF TypeOK, RolloutAssumption
<1>7. << <<"must", "PAUSED">> >> \in Seq(Step)
  BY StatesAre, StepsAre, StepSeqs
<1>8. PromoteFromShadow \in Seq(Step)
  BY <1>1, StepSeqs DEF PromoteFromShadow
<1>9. state \in Canary => AdvanceCanary \in Seq(Step)
  BY <1>3, StepSeqs DEF AdvanceCanary
<1>10. QED
  BY <1>1, <1>2, <1>4, <1>5, <1>6, <1>7, <1>8, <1>9, StepSeqs DEF Begun, Quiet

(* Going on keeps the types.                                               *)
LEMMA ProceedTypeOK ==
  ASSUME TypeOK, NEW t \in Threads, Proceed(t)
  PROVE  TypeOK'
<1>1. /\ todo[t] \in Seq(Step) /\ todo[t] # <<>>
      /\ Head(todo[t]) \in Step /\ Tail(todo[t]) \in Seq(Step)
  BY HeadTailProperties DEF TypeOK, Proceed
<1>2. CASE CheckTransition(t)
  <2>1. << <<"set", Head(todo[t])[2]>> >> \o Tail(todo[t]) \in Seq(Step)
    BY <1>1 DEF Step
  <2>2. \E steps \in Seq(Step): todo' = [todo EXCEPT ![t] = steps]
    <3> DEFINE kind == Head(todo[t])[1]
               to   == Head(todo[t])[2]
               next == IF to \in Valid[state] THEN << <<"set", to>> >> \o Tail(todo[t])
                       ELSE IF kind = "try" THEN Tail(todo[t]) ELSE <<>>
    <3>1. todo' = [todo EXCEPT ![t] = next]
      BY <1>2 DEF CheckTransition, TypeOK
    <3>2. next \in Seq(Step)
      BY <1>1, <2>1, StepSeqs
    <3> HIDE DEF next
    <3>3. QED
      BY <3>1, <3>2
  <2>3. todo' \in [Threads -> Seq(Step)]
    BY <2>2 DEF TypeOK
  <2>4. UNCHANGED <<config, state, traffic, from, gates, health, jumped, calls>>
    BY <1>2 DEF CheckTransition, control
  <2>5. QED
    BY <2>3, <2>4 DEF TypeOK
<1>3. CASE MakeTransition(t)
  <2>1. todo' \in [Threads -> Seq(Step)]
    BY <1>1, <1>3 DEF TypeOK, MakeTransition
  <2>2. state' \in States
    BY <1>1, <1>3 DEF MakeTransition, Step
  <2>3. QED
    BY <1>3, <2>1, <2>2 DEF TypeOK, MakeTransition, control
<1>4. CASE SetShare(t)
  <2>1. todo' \in [Threads -> Seq(Step)]
    BY <1>1, <1>4 DEF TypeOK, SetShare
  <2>2. traffic' \in {Percent[s]: s \in States}
    BY <1>1, <1>4 DEF SetShare, Step
  <2>3. QED
    BY <1>4, <2>1, <2>2 DEF TypeOK, SetShare, control
<1>5. QED
  BY <1>2, <1>3, <1>4 DEF Proceed

LEMMA BeginTypeOK ==
  ASSUME TypeOK, RolloutAssumption, NEW t \in Threads, NEW steps \in Begun, Begin(t, steps),
         GateOK(gates'), jumped' \in BOOLEAN, calls' \in 0..MaxCalls
  PROVE  TypeOK'
<1>1. steps \in Seq(Step)
  BY BegunIsSteps
<1>2. todo' \in [Threads -> Seq(Step)]
  BY <1>1 DEF TypeOK, Begin
<1>3. QED
  BY <1>2 DEF TypeOK, Begin, GateOK, Gate, GateStatus

(* Every variable keeps its type: the steps a thread still has to make are *)
(* always transitions and shares of states that exist.                     *)
THEOREM RolloutTypeCorrect == Spec => []TypeOK
<1>1. Init => TypeOK
  <2>1. 0 = Percent["PENDING"] /\ "PENDING" \in States
    BY StatesAre DEF Percent
  <2>2. <<>> \in Seq(Step)
    OBVIOUS
  <2>3. Init => todo \in [Threads -> Seq(Step)]
    BY <2>2 DEF Init
  <2>4. Init => traffic \in {Percent[s]: s \in States}
    BY <2>1 DEF Init
  <2>5. Init => calls \in 0..MaxCalls
    BY RolloutAssumption DEF Init, RolloutAssumption
  <2>6. Init => GateOK(gates)
    BY DEF Init, GateOK
  <2>7. Init => /\ config \in Configs /\ state \in States /\ from \in States \ {"PAUSED"}
                /\ health \in {"good", "degraded", "bad"} /\ jumped \in BOOLEAN
    BY StatesAre DEF Init
  <2>8. QED
    BY <2>3, <2>4, <2>5, <2>6, <2>7 DEF TypeOK, GateOK, Gate, GateStatus
<1>2. TypeOK /\ [Next]_vars => TypeOK'
  <2> SUFFICES ASSUME TypeOK, [Next]_vars PROVE TypeOK'
    OBVIOUS
  <2> USE RolloutAssumption
  <2>1. ASSUME NEW t \in Callers, Call(t) PROVE TypeOK'
    BY <2>1, CallBegins, BeginTypeOK DEF Threads
  <2>2. CASE MonitorRollsBack \/ MonitorPromotes
    <3>1. jumped' \in BOOLEAN /\ calls' \in 0..MaxCalls
      BY <2>2, MonitorBegins DEF TypeOK
    <3>2. QED
      BY <2>2, <3>1, MonitorBegins, BeginTypeOK DEF Threads
  <2>3. ASSUME NEW t \in Threads, Proceed(t) PROVE TypeOK'
    BY <2>3, ProceedTypeOK
  <2>4. CASE HealthChanges
    BY <2>4 DEF TypeOK, HealthChanges
  <2>5. CASE UNCHANGED vars
    BY <2>5 DEF TypeOK, vars, control
  <2>6. QED
    BY <2>1, <2>2, <2>3, <2>4, <2>5 DEF Next
<1>3. QED
  BY <1>1, <1>2, PTL DEF Spec
-------------------------------------------------------------------------------
(* The steps that remain possible when every promotion opens a gate.  A    *)
(* direct deployment never gets past VALIDATING, since PROMOTING is no     *)
(* transition from there, but its threads may hold the steps that follow.  *)
DirectSteps ==
  {<<"try", "VALIDATING">>, <<"try", "FAILED">>, <<"try", "ROLLED_BACK">>,
   <<"must", "PROMOTING">>, <<"must", "ACTIVE">>, <<"must", "ROLLING_BACK">>,
   <<"must", "PAUSED">>, <<"share", "ACTIVE">>, <<"share", "ROLLING_BACK">>,
   <<"set", "VALIDATING">>, <<"set", "FAILED">>}
GatedSteps ==
  Step \ {<<"try", "PROMOTING">>, <<"must", "PROMOTING">>, <<"set", "PROMOTING">>,
          <<"set", "ACTIVE">>, <<"share", "ACTIVE">>}
Allowed == IF config.type = "direct" THEN DirectSteps ELSE GatedSteps

(* The share of 100% comes only after PROMOTING was found valid.           *)
ShareGuarded(s) ==
  \A i \in 1..Len(s): s[i] = <<"share", "ACTIVE">> => i > 1 /\ s[i - 1] = <<"must", "PROMOTING">>

Ungated(s) == s \in Seq(Allowed) /\ ShareGuarded(s)

(* The inductive invariant: no thread holds a step that passes the gate.   *)
GateInv ==
  config.require_approval /\ "PROMOTING" \notin Targets =>
    /\ state \notin {"PROMOTING", "ACTIVE"} /\ from \notin {"PROMOTING", "ACTIVE"}
    /\ traffic < 100
    /\ config.type = "direct" => state \in {"PENDING", "VALIDATING", "FAILED"}
    /\ \A t \in Threads: Ungated(todo[t])

LEMMA UngatedTail ==
  ASSUME NEW s, Ungated(s), s # <<>>, Head(s) # <<"must", "PROMOTING">>
  PROVE  Ungated(Tail(s)) /\ Head(s) \in Allowed /\ Head(s) # <<"share", "ACTIVE">>
<1>1. s \in Seq(Allowed)
  BY DEF Ungated
<1>2. /\ Len(s) \in Nat /\ Len(s) > 0 /\ Head(s) = s[1] /\ s[1] \in Allowed
      /\ Tail(s) \in Seq(Allowed) /\ Len(Tail(s)) = Len(s) - 1
      /\ \A i \in 1..Len(Tail(s)): Tail(s)[i] = s[i + 1]
  BY <1>1, HeadTailProperties, ElementOfSeq, LenProperties, EmptySeq
<1>3. Head(s) # <<"share", "ACTIVE">>
  BY <1>2 DEF Ungated, ShareGuarded
<1>4. ASSUME NEW i \in 1..Len(Tail(s)), Tail(s)[i] = <<"share", "ACTIVE">>
      PROVE  i > 1 /\ Tail(s)[i - 1] = <<"must", "PROMOTING">>
  <2>1. i + 1 \in 1..Len(s) /\ s[i + 1] = <<"share", "ACTIVE">>
    BY <1>2, <1>4
  <2>2. s[i] = <<"must", "PROMOTING">>
    BY <2>1 DEF Ungated, ShareGuarded
  <2>3. i # 1
    BY <1>2, <2>2
  <2>4. i - 1 \in 1..Len(Tail(s)) /\ (i - 1) + 1 = i
    BY <1>2, <2>3
  <2>5. QED
    BY <1>2, <2>2, <2>3, <2>4
<1>5. QED
  BY <1>2, <1>3, <1>4 DEF Ungated, ShareGuarded

LEMMA UngatedPrepend ==
  ASSUME NEW s, Ungated(s), NEW x \in Allowed, x # <<"share", "ACTIVE">>
  PROVE  Ungated(<<x>> \o s)
<1> DEFINE r == <<x>> \o s
<1>1. /\ s \in Seq(Allowed) /\ Len(s) \in Nat
      /\ r \in Seq(Allowed) /\ Len(r) = Len(s) + 1
      /\ r[1] = x /\ \A i \in 1..Len(s): r[i + 1] = s[i]
  BY LenProperties DEF Ungated
<1> HIDE DEF r
<1>2. ASSUME NEW i \in 1..Len(r), r[i] = <<"share", "ACTIVE">>
      PROVE  i > 1 /\ r[i - 1] = <<"must", "PROMOTING">>
  <2>0. i # 1
    BY <1>1, <1>2
  <2>1. i # 1 /\ i - 1 \in 1..Len(s) /\ (i - 1) + 1 = i
    BY <1>1, <2>0
  <2>2. s[i - 1] = <<"share", "ACTIVE">>
    BY <1>1, <1>2, <2>1
  <2>3. i - 1 > 1 /\ s[(i - 1) - 1] = <<"must", "PROMOTING">>
    BY <2>1, <2>2 DEF Ungated, ShareGuarded
  <2>4. (i - 1) - 1 \in 1..Len(s) /\ ((i - 1) - 1) + 1 = i - 1
    BY <2>1, <2>3
  <2>5. QED
    BY <1>1, <2>1, <2>3, <2>4
<1>3. QED
  BY <1>1, <1>2 DEF Ungated, ShareGuarded, r

(* Short sequences without the share of 100%.                              *)
LEMMA UngatedSeqs ==
  /\ Ungated(<<>>)
  /\ \A a \in Allowed \ {<<"share", "ACTIVE">>}: Ungated(<<a>>)
  /\ \A a, b \in Allowed \ {<<"share", "ACTIVE">>}: Ungated(<<a, b>>)
  /\ \A a, b, c \in Allowed \ {<<"share", "ACTIVE">>}: Ungated(<<a, b, c>>)
<1> HIDE DEF Allowed
<1>1. Ungated(<<>>)
  BY DEF Ungated, ShareGuarded
<1>2. ASSUME NEW a \in Allowed \ {<<"share", "ACTIVE">>} PROVE Ungated(<<a>>)
  BY DEF Ungated, ShareGuarded
<1>3. ASSUME NEW a \in Allowed \ {<<"share", "ACTIVE">>}, NEW b \in Allowed \ {<<"share", "ACTIVE">>}
      PROVE  Ungated(<<a, b>>)
  BY DEF Ungated, ShareGuarded
<1>4. ASSUME NEW a \in Allowed \ {<<"share", "ACTIVE">>}, NEW b \in Allowed \ {<<"share", "ACTIVE">>},
             NEW c \in Allowed \ {<<"share", "ACTIVE">>}
      PROVE  Ungated(<<a, b, c>>)
  BY DEF Ungated, ShareGuarded
<1>5. QED
  BY <1>1, <1>2, <1>3, <1>4

LEMMA BegunUngated ==
  ASSUME TypeOK, RolloutAssumption, GateInv, config.require_approval, "PROMOTING" \notin Targets,
         NEW steps \in Begun
  PROVE  Ungated(steps)
<1> DEFINE Plain == Allowed \ {<<"share", "ACTIVE">>}
<1>1. /\ <<"must", "ROLLING_BACK">> \in Plain /\ <<"share", "ROLLING_BACK">> \in Plain
      /\ <<"try", "ROLLED_BACK">> \in Plain /\ <<"try", "FAILED">> \in Plain
      /\ <<"must", "PAUSED">> \in Plain /\ <<"try", "VALIDATING">> \in Plain
  BY StatesAre, StepsAre DEF Allowed, DirectSteps, GatedSteps
<1>2. \A end \in Final: RollbackTo(end) = << <<"must", "ROLLING_BACK">>, <<"share", "ROLLING_BACK">>, <<"try", end>> >>
  BY DEF RollbackTo
<1>3. ASSUME steps \in {<<>>} \cup Rollbacks \cup {<< <<"must", "PAUSED">> >>} PROVE Ungated(steps)
  BY <1>1, <1>2, <1>3, UngatedSeqs DEF Rollbacks, Final
<1>4. config.type \in {"shadow", "canary", "direct"}
  BY DEF TypeOK, RolloutAssumption, Config
<1>5. Ungated(Started[config.type])
  <2>1. CASE config.type = "direct"
    <3>1. Started[config.type] = << <<"must", "PROMOTING">>, <<"share", "ACTIVE">>, <<"must", "ACTIVE">> >>
      BY <2>1 DEF Started
    <3>2. /\ <<"must", "PROMOTING">> \in Allowed /\ <<"share", "ACTIVE">> \in Allowed
          /\ <<"must", "ACTIVE">> \in Allowed
      BY <2>1 DEF Allowed, DirectSteps
    <3> HIDE DEF Plain
    <3>3. QED
      BY <3>1, <3>2 DEF Ungated, ShareGuarded
  <2>2. CASE config.type = "shadow"
    <3>1. <<"must", "SHADOW">> \in Plain /\ <<"share", "SHADOW">> \in Plain
      BY <2>2, StatesAre, StepsAre DEF Allowed, GatedSteps
    <3>2. Started[config.type] = << <<"must", "SHADOW">>, <<"share", "SHADOW">> >>
      BY <2>2 DEF Started
    <3>3. QED
      BY <3>1, <3>2, UngatedSeqs
  <2>3. CASE config.type = "canary"
    <3>1. <<"must", "CANARY_1">> \in Plain /\ <<"share", "CANARY_1">> \in Plain
      BY <2>3, StatesAre, StepsAre DEF Allowed, GatedSteps
    <3>2. Started[config.type] = << <<"must", "CANARY_1">>, <<"share", "CANARY_1">> >>
      BY <2>3 DEF Started
    <3>3. QED
      BY <3>1, <3>2, UngatedSeqs
  <2>4. QED
    BY <1>4, <2>1, <2>2, <2>3
<1>6. Ungated(Validated)
  BY <1>1, <1>5, UngatedPrepend, UngatedSeqs DEF Validated
<1>7. ASSUME state = "SHADOW" PROVE Ungated(PromoteFromShadow)
  BY UngatedSeqs DEF PromoteFromShadow
<1>8. ASSUME state \in Canary PROVE Ungated(AdvanceCanary)
  <2>1. CASE state = "CANARY_25"
    BY <2>1, UngatedSeqs DEF AdvanceCanary, AdvanceNeedsGate, NextStage
  <2>2. CASE state \in {"CANARY_1", "CANARY_5"}
    <3>1. config.type # "direct"
      BY <2>2 DEF GateInv
    <3>2. NextStage[state] \in {"CANARY_5", "CANARY_25"}
      BY <2>2 DEF NextStage
    <3>3. <<"must", NextStage[state]>> \in Plain /\ <<"share", NextStage[state]>> \in Plain
      BY <3>1, <3>2, StatesAre, StepsAre DEF Allowed, GatedSteps
    <3>4. AdvanceCanary = <<>> \o << <<"must", NextStage[state]>>, <<"share", NextStage[state]>> >>
      BY <3>2 DEF AdvanceCanary, AdvanceNeedsGate, Advanced
    <3>5. << <<"must", NextStage[state]>>, <<"share", NextStage[state]>> >> \in Seq(Allowed)
      BY <3>3, UngatedSeqs DEF Ungated
    <3>6. AdvanceCanary = << <<"must", NextStage[state]>>, <<"share", NextStage[state]>> >>
      BY <3>4, <3>5, ConcatEmptySeq
    <3>7. QED
      BY <3>3, <3>6, UngatedSeqs
  <2>3. QED
    BY <1>8, <2>1, <2>2 DEF Canary
<1>9. ASSUME state = "PAUSED", NEW s \in Targets \cup {from} PROVE Ungated(<< <<"must", s>> >>)
  <2>1. config.type # "direct" /\ s # "PROMOTING" /\ s \in States
    BY <1>9 DEF GateInv, TypeOK, RolloutAssumption
  <2>2. <<"must", s>> \in Plain
    BY <2>1, StepsAre DEF Allowed, GatedSteps
  <2>3. QED
    BY <2>2, UngatedSeqs
<1>10. QED
  BY <1>3, <1>5, <1>6, <1>7, <1>8, <1>9 DEF Begun, Quiet

LEMMA OnlyPromotingToActive ==
  \A s \in States \ {"PROMOTING"}: "ACTIVE" \notin Valid[s]
<1>1. ASSUME NEW s \in States \ {"PROMOTING"} PROVE "ACTIVE" \notin Valid[s]
  <2>1. CASE s \in {"PENDING", "VALIDATING", "SHADOW", "CANARY_1", "CANARY_5", "CANARY_25"}
    BY <2>1 DEF Valid
  <2>2. CASE s \in {"ACTIVE", "ROLLING_BACK", "ROLLED_BACK", "FAILED"}
    BY <2>2 DEF Valid
  <2>3. CASE s = "PAUSED"
    BY <2>3 DEF Valid, Canary
  <2>4. QED
    BY <2>1, <2>2, <2>3, StatesAre
<1>2. QED
  BY <1>1

LEMMA ProceedGated ==
  ASSUME TypeOK, GateInv, NEW t \in Threads, Proceed(t)
  PROVE  GateInv'
<1> SUFFICES ASSUME config.require_approval, "PROMOTING" \notin Targets
             PROVE  /\ state' \notin {"PROMOTING", "ACTIVE"} /\ from' \notin {"PROMOTING", "ACTIVE"}
                    /\ traffic' < 100
                    /\ config.type = "direct" => state' \in {"PENDING", "VALIDATING", "FAILED"}
                    /\ \A u \in Threads: Ungated(todo'[u])
  BY DEF GateInv, Proceed, CheckTransition, MakeTransition, SetShare, Ungated, Allowed
<1> DEFINE head == Head(todo[t])
           rest == Tail(todo[t])
<1>1. /\ state \notin {"PROMOTING", "ACTIVE"} /\ from \notin {"PROMOTING", "ACTIVE"}
      /\ traffic < 100
      /\ config.type = "direct" => state \in {"PENDING", "VALIDATING", "FAILED"}
      /\ \A u \in Threads: Ungated(todo[u])
  BY DEF GateInv
<1>2. /\ Ungated(todo[t]) /\ todo[t] # <<>> /\ todo[t] \in Seq(Step)
      /\ head \in Allowed /\ head \in Step /\ head # <<"share", "ACTIVE">>
  <2>1. Ungated(todo[t]) /\ todo[t] # <<>> /\ todo[t] \in Seq(Step)
    BY <1>1 DEF Proceed, TypeOK
  <2>2. head \in Allowed /\ head \in Step
    BY <2>1, HeadTailProperties DEF Ungated
  <2>3. head = todo[t][1] /\ 1 \in 1..Len(todo[t])
    BY <2>1, HeadTailProperties, EmptySeq, LenProperties
  <2>4. head # <<"share", "ACTIVE">>
    BY <2>1, <2>3 DEF Ungated, ShareGuarded
  <2>5. QED
    BY <2>1, <2>2, <2>4
<1>3. head # <<"must", "PROMOTING">> => Ungated(rest)
  BY <1>2, UngatedTail
<1>4. head = <<head[1], head[2]>> /\ head[2] \in States
  BY <1>2 DEF Step
<1> HIDE DEF head, rest
<1>5. ASSUME NEW next, Ungated(next), todo' = [todo EXCEPT ![t] = next]
      PROVE  \A u \in Threads: Ungated(todo'[u])
  BY <1>1, <1>5 DEF TypeOK
<1>6. CASE CheckTransition(t)
  <2>1. /\ head[1] \in {"try", "must"}
        /\ UNCHANGED <<state, from, traffic, config>>
        /\ todo' = [todo EXCEPT ![t] = IF head[2] \in Valid[state] THEN << <<"set", head[2]>> >> \o rest
                                       ELSE IF head[1] = "try" THEN rest ELSE <<>>]
    BY <1>6 DEF CheckTransition, head, rest, TypeOK
  <2>2. CASE head[2] \notin Valid[state] /\ head[1] = "must"
    BY <1>1, <1>5, <2>1, <2>2, UngatedSeqs
  <2>3. CASE head[2] \notin Valid[state] /\ head[1] = "try"
    <3>1. head # <<"must", "PROMOTING">>
      BY <2>3
    <3>2. QED
      BY <1>1, <1>3, <1>5, <2>1, <2>3, <3>1
  <2>4. CASE head[2] \in Valid[state]
    <3>1. head[2] \notin {"PROMOTING", "ACTIVE"} /\ <<"set", head[2]>> \in Allowed
      <4>1. CASE config.type = "direct"
        <5>1. /\ Valid["PENDING"] = {"VALIDATING", "FAILED"} /\ Valid["FAILED"] = {"PENDING"}
              /\ Valid["VALIDATING"] = {"SHADOW", "CANARY_1", "FAILED"}
          BY DEF Valid
        <5>2. head[2] \in {"VALIDATING", "FAILED", "SHADOW", "CANARY_1", "PENDING"}
          BY <1>1, <2>4, <4>1, <5>1
        <5>3. head[2] \in {"VALIDATING", "FAILED"}
          BY <1>2, <1>4, <2>1, <4>1, <5>2 DEF Allowed, DirectSteps
        <5>4. QED
          BY <4>1, <5>3 DEF Allowed, DirectSteps
      <4>2. CASE config.type # "direct"
        <5>1. head[2] # "PROMOTING"
          BY <1>2, <1>4, <2>1, <4>2 DEF Allowed, GatedSteps
        <5>2. head[2] # "ACTIVE"
          BY <1>1, <2>4, OnlyPromotingToActive DEF TypeOK
        <5>3. QED
          BY <1>4, <4>2, <5>1, <5>2, StepsAre DEF Allowed, GatedSteps
      <4>3. QED
        BY <4>1, <4>2
    <3>2. Ungated(rest)
      BY <1>3, <3>1
    <3>3. Ungated(<< <<"set", head[2]>> >> \o rest)
      BY <3>1, <3>2, UngatedPrepend
    <3>4. QED
      BY <1>1, <1>5, <2>1, <2>4, <3>3
  <2>5. QED
    BY <2>1, <2>2, <2>3, <2>4
<1>7. CASE MakeTransition(t)
  <2>1. /\ head[1] = "set" /\ state' = head[2]
        /\ from' = (IF state = "PAUSED" THEN from ELSE state)
        /\ todo' = [todo EXCEPT ![t] = rest]
        /\ UNCHANGED <<traffic, config>>
    BY <1>7 DEF MakeTransition, head, rest, TypeOK
  <2>2. Ungated(rest)
    BY <1>3, <2>1
  <2>3. /\ head[2] \notin {"PROMOTING", "ACTIVE"}
        /\ config.type = "direct" => head[2] \in {"PENDING", "VALIDATING", "FAILED"}
    BY <1>2, <1>4, <2>1 DEF Allowed, DirectSteps, GatedSteps
  <2>4. \A u \in Threads: Ungated(todo'[u])
    BY <1>5, <2>1, <2>2
  <2>5. QED
    BY <1>1, <2>1, <2>3, <2>4
<1>8. CASE SetShare(t)
  <2>1. /\ head[1] = "share" /\ traffic' = Percent[head[2]]
        /\ todo' = [todo EXCEPT ![t] = rest]
        /\ UNCHANGED <<state, from, config>>
    BY <1>8 DEF SetShare, head, rest, TypeOK
  <2>2. Ungated(rest)
    BY <1>3, <2>1
  <2>3. head[2] # "ACTIVE"
    BY <1>2, <1>4, <2>1
  <2>4. traffic' < 100
    BY <1>4, <2>1, <2>3 DEF Percent
  <2>5. \A u \in Threads: Ungated(todo'[u])
    BY <1>5, <2>1, <2>2
  <2>6. QED
    BY <1>1, <2>1, <2>4, <2>5
<1>9. QED
  BY <1>6, <1>7, <1>8 DEF Proceed

LEMMA BeginGated ==
  ASSUME TypeOK, RolloutAssumption, GateInv, NEW t \in Threads, NEW steps \in Begun, Begin(t, steps)
  PROVE  GateInv'
<1> SUFFICES ASSUME config.require_approval, "PROMOTING" \notin Targets
             PROVE  \A u \in Threads: Ungated(todo'[u])
  BY DEF GateInv, Begin, Ungated, Allowed
<1>1. Ungated(steps)
  BY BegunUngated
<1>2. QED
  BY <1>1 DEF GateInv, Begin, TypeOK

(* With require_approval nobody reaches 100%, whatever threads overlap and *)
(* however often they call, unless a resume asks for PROMOTING itself: the *)
(* check of the gate in advance_canary and promote_from_shadow (1649, 1725)*)
(* is never passed, and no other call leads to PROMOTING.                  *)
THEOREM NoUnapprovedRollout == Spec => []NoPromotionUnapproved
<1> USE RolloutAssumption
<1>1. Init => GateInv
  <2>1. ASSUME Init PROVE \A t \in Threads: Ungated(todo[t])
    BY <2>1, UngatedSeqs DEF Init
  <2>2. ASSUME Init PROVE state = "PENDING" /\ from = "PENDING" /\ traffic < 100
    BY <2>2 DEF Init
  <2>3. QED
    BY <2>1, <2>2 DEF GateInv
<1>2. TypeOK /\ GateInv /\ [Next]_vars => GateInv'
  <2> SUFFICES ASSUME TypeOK, GateInv, [Next]_vars PROVE GateInv'
    OBVIOUS
  <2>1. ASSUME NEW t \in Callers, Call(t) PROVE GateInv'
    BY <2>1, CallBegins, BeginGated DEF Threads
  <2>2. CASE MonitorRollsBack \/ MonitorPromotes
    BY <2>2, MonitorBegins, BeginGated DEF Threads
  <2>3. ASSUME NEW t \in Threads, Proceed(t) PROVE GateInv'
    BY <2>3, ProceedGated
  <2>4. CASE HealthChanges
    BY <2>4 DEF GateInv, HealthChanges, Ungated, Allowed
  <2>5. CASE UNCHANGED vars
    BY <2>5 DEF GateInv, vars, control, Ungated, Allowed
  <2>6. QED
    BY <2>1, <2>2, <2>3, <2>4, <2>5 DEF Next
<1>3. GateInv => NoPromotionUnapproved
  BY DEF GateInv, NoPromotionUnapproved, Exposure
<1>4. QED
  BY <1>1, <1>2, <1>3, RolloutTypeCorrect, PTL DEF Spec
-------------------------------------------------------------------------------
(***************************************************************************)
(* One call at a time.  What the one thread that is under way has left to  *)
(* do, q, fits the state s, the share tr, the state fr before a pause and  *)
(* whether a resume jumped.                                                *)
(***************************************************************************)
Serving == Canary \cup {"SHADOW", "ACTIVE"}

(* Between calls the share is that of the stage, or of the one paused.     *)
Settled(s, tr, fr, j) ==
  /\ ~j => LET stage == IF s = "PAUSED" THEN fr ELSE s
           IN  tr = Percent[stage] /\ stage # "ROLLING_BACK"
  /\ s \in {"PENDING", "VALIDATING"} \cup Final => tr = 0

(* A call that has not changed anything yet,                               *)
Waiting(q, s, fr, j) ==
  \/ q = <<>>
  \/ q = << <<"must", "PAUSED">> >>
  \/ q = << <<"set", "PAUSED">> >> /\ "PAUSED" \in Valid[s]
  \/ /\ s = "PAUSED"
     /\ \E x \in States \ {"PAUSED"}:
          /\ ~j => x = fr
          /\ \/ q = << <<"must", x>> >>
             \/ q = << <<"set", x>> >> /\ x \in Valid["PAUSED"]
  \/ \E x \in Serving: q = << <<"must", x>>, <<"share", x>> >>
  \/ \E end \in Final: q = RollbackTo(end)

(* a promotion, from the check to the share,                               *)
Promoting(q, s) ==
  \/ \E x \in Serving: q = << <<"set", x>>, <<"share", x>> >> /\ x \in Valid[s]
  \/ \E x \in Serving: q = << <<"share", x>> >> /\ s = x
  \/ /\ s = "CANARY_25"
     /\ \E k \in {"try", "set"}:
          q = << <<k, "PROMOTING">>, <<"must", "ACTIVE">>, <<"share", "ACTIVE">> >>
  \/ s = "PROMOTING" /\ q = << <<"must", "ACTIVE">>, <<"share", "ACTIVE">> >>

(* a withdrawal, which serves nobody when it ends,                         *)
Withdrawing(q, s, tr) ==
  \E end \in Final:
    \/ /\ q = << <<"set", "ROLLING_BACK">>, <<"share", "ROLLING_BACK">>, <<"try", end>> >>
       /\ "ROLLING_BACK" \in Valid[s]
    \/ q = << <<"share", "ROLLING_BACK">>, <<"try", end>> >> /\ s = "ROLLING_BACK"
    \/ /\ tr = 0 /\ end \in Valid[s] /\ s \in {"ROLLING_BACK", "VALIDATING"}
       /\ \E k \in {"try", "set"}: q = << <<k, end>> >>

(* or a start, which serves nobody yet.                                    *)
Starts == {Started.shadow, Started.canary, Started.direct, << <<"try", "FAILED">> >>}
Starting(q, s, tr) ==
  /\ tr = 0
  /\ \/ s = "PENDING" /\ \E k \in {"try", "set"}, r \in Starts: q = << <<k, "VALIDATING">> >> \o r
     \/ s \in {"PENDING", "VALIDATING"} /\ q = Started.direct

InTurn(q, s, tr, fr, j) ==
  \/ Settled(s, tr, fr, j) /\ Waiting(q, s, fr, j)
  \/ Promoting(q, s)
  \/ Withdrawing(q, s, tr)
  \/ Starting(q, s, tr)

SerialInv ==
  ~config.overlap =>
    \E t \in Threads: /\ InTurn(todo[t], state, traffic, from, jumped)
                      /\ \A u \in Threads \ {t}: todo[u] = <<>>

(* One step of the thread under way, of these five.                        *)
Moves(q, s, tr, fr, q2, s2, tr2, fr2) ==
  LET kind == Head(q)[1]
      to   == Head(q)[2]
  IN  \/ /\ kind \in {"try", "must"}
         /\ q2 = IF to \in Valid[s] THEN << <<"set", to>> >> \o Tail(q)
                 ELSE IF kind = "try" THEN Tail(q) ELSE <<>>
         /\ s2 = s /\ tr2 = tr /\ fr2 = fr
      \/ /\ kind = "set"
         /\ q2 = Tail(q) /\ s2 = to /\ tr2 = tr
         /\ fr2 = IF s = "PAUSED" THEN fr ELSE s
      \/ /\ kind = "share"
         /\ q2 = Tail(q) /\ s2 = s /\ tr2 = Percent[to] /\ fr2 = fr

(* After it the thread is still in turn, and a withdrawn model withdrawn.  *)
StillInTurn(s, q2, s2, tr2, fr2, j) ==
  InTurn(q2, s2, tr2, fr2, j) /\ (s \in Final => s2 = s /\ tr2 = 0)

LEMMA Joined ==
  ASSUME NEW a, NEW b, NEW c
  PROVE  <<a>> \o <<>> = <<a>> /\ <<a>> \o <<b>> = <<a, b>> /\ <<a>> \o <<b, c>> = <<a, b, c>>
<1> DEFINE S == {a, b, c}
           r == <<a>> \o <<b>>
           t == <<a>> \o <<b, c>>
<1>1. <<a>> \in Seq(S) /\ <<b>> \in Seq(S) /\ <<b, c>> \in Seq(S)
  OBVIOUS
<1>2. <<a, b>> \in Seq(S) /\ <<a, b, c>> \in Seq(S)
  OBVIOUS
<1>3. r \in Seq(S) /\ Len(r) = Len(<<a, b>>) /\ \A i \in 1..Len(r): r[i] = <<a, b>>[i]
  BY <1>1
<1>4. t \in Seq(S) /\ Len(t) = Len(<<a, b, c>>) /\ \A i \in 1..Len(t): t[i] = <<a, b, c>>[i]
  BY <1>1
<1>5. <<a>> \o <<>> = <<a>>
  OBVIOUS
<1> HIDE DEF S, r, t
<1>6. r = <<a, b>> /\ t = <<a, b, c>>
  BY <1>2, <1>3, <1>4, SeqEqual
<1>7. QED
  BY <1>5, <1>6 DEF r, t

(* The step <<k, x>> comes first and rest after it.                        *)
Opens(q, k, x, rest) == q # <<>> /\ Head(q) = <<k, x>> /\ Tail(q) = rest

LEMMA Opened ==
  ASSUME NEW k, NEW x, NEW b, NEW c
  PROVE  /\ Opens(<< <<k, x>> >>, k, x, <<>>)
         /\ Opens(<< <<k, x>>, b >>, k, x, <<b>>)
         /\ Opens(<< <<k, x>>, b, c >>, k, x, <<b, c>>)
BY DEF Opens

(* What a check of x leaves to do, and that it changes nothing else.       *)
Checks(x, rest, refused, s, tr, fr, q2, s2, tr2, fr2) ==
  /\ s2 = s /\ tr2 = tr /\ fr2 = fr
  /\ q2 = IF x \in Valid[s] THEN << <<"set", x>> >> \o rest ELSE refused

LEMMA Demanded ==
  ASSUME NEW x, NEW q, NEW rest, Opens(q, "must", x, rest),
         NEW s, NEW tr, NEW fr, NEW q2, NEW s2, NEW tr2, NEW fr2,
         Moves(q, s, tr, fr, q2, s2, tr2, fr2)
  PROVE  Checks(x, rest, <<>>, s, tr, fr, q2, s2, tr2, fr2)
<1>1. Head(q)[1] = "must" /\ Head(q)[2] = x /\ Tail(q) = rest
  BY DEF Opens
<1>2. QED
  BY <1>1 DEF Moves, Checks

LEMMA Tried ==
  ASSUME NEW x, NEW q, NEW rest, Opens(q, "try", x, rest),
         NEW s, NEW tr, NEW fr, NEW q2, NEW s2, NEW tr2, NEW fr2,
         Moves(q, s, tr, fr, q2, s2, tr2, fr2)
  PROVE  Checks(x, rest, rest, s, tr, fr, q2, s2, tr2, fr2)
<1>1. Head(q)[1] = "try" /\ Head(q)[2] = x /\ Tail(q) = rest
  BY DEF Opens
<1>2. QED
  BY <1>1 DEF Moves, Checks

LEMMA Made ==
  ASSUME NEW x, NEW q, NEW rest, Opens(q, "set", x, rest),
         NEW s, NEW tr, NEW fr, NEW q2, NEW s2, NEW tr2, NEW fr2,
         Moves(q, s, tr, fr, q2, s2, tr2, fr2)
  PROVE  q2 = rest /\ s2 = x /\ tr2 = tr /\ fr2 = IF s = "PAUSED" THEN fr ELSE s
<1>1. Head(q)[1] = "set" /\ Head(q)[2] = x /\ Tail(q) = rest
  BY DEF Opens
<1>2. QED
  BY <1>1 DEF Moves

LEMMA Shared ==
  ASSUME NEW x, NEW q, NEW rest, Opens(q, "share", x, rest),
         NEW s, NEW tr, NEW fr, NEW q2, NEW s2, NEW tr2, NEW fr2,
         Moves(q, s, tr, fr, q2, s2, tr2, fr2)
  PROVE  q2 = rest /\ s2 = s /\ tr2 = Percent[x] /\ fr2 = fr
<1>1. Head(q)[1] = "share" /\ Head(q)[2] = x /\ Tail(q) = rest
  BY DEF Opens
<1>2. QED
  BY <1>1 DEF Moves

(* What the proofs need to know of the tables.                             *)
LEMMA ValidFacts ==
  /\ Valid["PAUSED"] = Canary \cup {"SHADOW", "ROLLING_BACK"}
  /\ Valid["ROLLED_BACK"] = {"PENDING"} /\ Valid["FAILED"] = {"PENDING"}
  /\ Final \subseteq Valid["ROLLING_BACK"] /\ "FAILED" \in Valid["VALIDATING"]
  /\ "PROMOTING" \notin Valid["PENDING"] /\ "PROMOTING" \notin Valid["VALIDATING"]
  /\ "VALIDATING" \in Valid["PENDING"] /\ "PROMOTING" \in Valid["CANARY_25"]
  /\ "ACTIVE" \in Valid["PROMOTING"] /\ "ROLLING_BACK" \in Valid["CANARY_25"]
BY DEF Valid, Final

LEMMA PercentFacts ==
  /\ Percent["PENDING"] = 0 /\ Percent["VALIDATING"] = 0 /\ Percent["ROLLING_BACK"] = 0
  /\ \A end \in Final: Percent[end] = 0
BY StatesAre DEF Percent, Final

LEMMA WaitingMoves ==
  ASSUME NEW q, NEW s \in States, NEW tr, NEW fr \in States \ {"PAUSED"}, NEW j \in BOOLEAN,
         Settled(s, tr, fr, j), Waiting(q, s, fr, j), q # <<>>,
         NEW q2, NEW s2, NEW tr2, NEW fr2, Moves(q, s, tr, fr, q2, s2, tr2, fr2)
  PROVE  StillInTurn(s, q2, s2, tr2, fr2, j)
<1> DEFINE Goal == StillInTurn(s, q2, s2, tr2, fr2, j)
<1>0. s \in Final => tr = 0
  BY DEF Settled
<1>9. ASSUME s2 = s, tr2 = tr, fr2 = fr, Waiting(q2, s, fr, j) PROVE Goal
  BY <1>0, <1>9 DEF StillInTurn, InTurn
<1>10. ASSUME s2 = s, tr2 = tr, fr2 = fr, q2 = <<>> PROVE Goal
  BY <1>9, <1>10 DEF Waiting
<1>11. "PAUSED" \in Valid[s] => s # "PAUSED" /\ s \notin Final
  BY ValidFacts DEF Canary, Final
<1>1. CASE q = << <<"must", "PAUSED">> >>
  <2>1. Opens(q, "must", "PAUSED", <<>>)
    BY <1>1, Opened
  <2>2. Checks("PAUSED", <<>>, <<>>, s, tr, fr, q2, s2, tr2, fr2)
    BY <2>1, Demanded
  <2>3. CASE "PAUSED" \in Valid[s]
    <3>1. q2 = << <<"set", "PAUSED">> >>
      BY <2>2, <2>3, Joined DEF Checks
    <3>2. QED
      BY <1>9, <2>2, <2>3, <3>1 DEF Checks, Waiting
  <2>4. CASE "PAUSED" \notin Valid[s]
    BY <1>10, <2>2, <2>4 DEF Checks
  <2>5. QED
    BY <2>3, <2>4
<1>2. CASE q = << <<"set", "PAUSED">> >> /\ "PAUSED" \in Valid[s]
  <2>1. Opens(q, "set", "PAUSED", <<>>)
    BY <1>2, Opened
  <2>2. q2 = <<>> /\ s2 = "PAUSED" /\ tr2 = tr /\ fr2 = s /\ s \notin Final
    BY <1>2, <1>11, <2>1, Made
  <2>3. Settled(s2, tr2, fr2, j)
    BY <1>2, <1>11, <2>2 DEF Settled, Final
  <2>4. QED
    BY <2>2, <2>3 DEF StillInTurn, InTurn, Waiting
<1>3. ASSUME NEW x \in States \ {"PAUSED"}, s = "PAUSED", ~j => x = fr, q = << <<"must", x>> >>
      PROVE  Goal
  <2>1. Opens(q, "must", x, <<>>)
    BY <1>3, Opened
  <2>2. Checks(x, <<>>, <<>>, s, tr, fr, q2, s2, tr2, fr2)
    BY <2>1, Demanded
  <2>3. CASE x \in Valid[s]
    <3>1. q2 = << <<"set", x>> >>
      BY <2>2, <2>3, Joined DEF Checks
    <3>2. QED
      BY <1>3, <1>9, <2>2, <2>3, <3>1 DEF Checks, Waiting
  <2>4. CASE x \notin Valid[s]
    BY <1>10, <2>2, <2>4 DEF Checks
  <2>5. QED
    BY <2>3, <2>4
<1>4. ASSUME NEW x \in States \ {"PAUSED"}, s = "PAUSED", ~j => x = fr, q = << <<"set", x>> >>,
             x \in Valid["PAUSED"]
      PROVE  Goal
  <2>1. Opens(q, "set", x, <<>>)
    BY <1>4, Opened
  <2>2. q2 = <<>> /\ s2 = x /\ tr2 = tr /\ fr2 = fr
    BY <1>4, <2>1, Made
  <2>3. x \notin {"PENDING", "VALIDATING"} \cup Final
    BY <1>4, ValidFacts DEF Canary, Final
  <2>4. Settled(s2, tr2, fr2, j)
    BY <1>4, <2>2, <2>3 DEF Settled
  <2>5. QED
    BY <1>4, <2>2, <2>4 DEF StillInTurn, InTurn, Waiting, Final
<1>5. ASSUME NEW x \in Serving, q = << <<"must", x>>, <<"share", x>> >> PROVE Goal
  <2>1. Opens(q, "must", x, << <<"share", x>> >>)
    BY <1>5, Opened
  <2>2. Checks(x, << <<"share", x>> >>, <<>>, s, tr, fr, q2, s2, tr2, fr2)
    BY <2>1, Demanded
  <2>3. CASE x \in Valid[s]
    <3>1. q2 = << <<"set", x>>, <<"share", x>> >>
      BY <2>2, <2>3, Joined DEF Checks
    <3>2. QED
      BY <1>0, <2>2, <2>3, <3>1 DEF Checks, StillInTurn, InTurn, Promoting
  <2>4. CASE x \notin Valid[s]
    BY <1>10, <2>2, <2>4 DEF Checks
  <2>5. QED
    BY <2>3, <2>4
<1>6. ASSUME NEW end \in Final, q = RollbackTo(end) PROVE Goal
  <2>1. Opens(q, "must", "ROLLING_BACK", << <<"share", "ROLLING_BACK">>, <<"try", end>> >>)
    BY <1>6, Opened DEF RollbackTo
  <2>2. Checks("ROLLING_BACK", << <<"share", "ROLLING_BACK">>, <<"try", end>> >>, <<>>, s, tr, fr, q2, s2, tr2, fr2)
    BY <2>1, Demanded
  <2>3. CASE "ROLLING_BACK" \in Valid[s]
    <3>1. q2 = << <<"set", "ROLLING_BACK">>, <<"share", "ROLLING_BACK">>, <<"try", end>> >>
      BY <2>2, <2>3, Joined DEF Checks
    <3>2. QED
      BY <1>0, <2>2, <2>3, <3>1 DEF Checks, StillInTurn, InTurn, Withdrawing
  <2>4. CASE "ROLLING_BACK" \notin Valid[s]
    BY <1>10, <2>2, <2>4 DEF Checks
  <2>5. QED
    BY <2>3, <2>4
<1>7. QED
  BY <1>1, <1>2, <1>3, <1>4, <1>5, <1>6 DEF Waiting

LEMMA PromotingMoves ==
  ASSUME NEW q, NEW s \in States, NEW tr, NEW fr, NEW j \in BOOLEAN, Promoting(q, s),
         NEW q2, NEW s2, NEW tr2, NEW fr2, Moves(q, s, tr, fr, q2, s2, tr2, fr2)
  PROVE  StillInTurn(s, q2, s2, tr2, fr2, j)
<1> DEFINE Goal == StillInTurn(s, q2, s2, tr2, fr2, j)
<1>0. \A x \in Serving: x \notin {"PAUSED", "ROLLING_BACK", "PENDING", "VALIDATING"} \cup Final
  BY DEF Serving, Canary, Final
<1>1. ASSUME NEW x \in Serving, q = << <<"set", x>>, <<"share", x>> >>, x \in Valid[s] PROVE Goal
  <2>1. Opens(q, "set", x, << <<"share", x>> >>)
    BY <1>1, Opened
  <2>2. q2 = << <<"share", x>> >> /\ s2 = x
    BY <2>1, Made
  <2>3. s \notin Final
    BY <1>0, <1>1, ValidFacts DEF Final
  <2>4. QED
    BY <1>1, <2>2, <2>3 DEF StillInTurn, InTurn, Promoting
<1>2. ASSUME NEW x \in Serving, q = << <<"share", x>> >>, s = x PROVE Goal
  <2>1. Opens(q, "share", x, <<>>)
    BY <1>2, Opened
  <2>2. q2 = <<>> /\ s2 = s /\ tr2 = Percent[x]
    BY <2>1, Shared
  <2>3. Settled(s2, tr2, fr2, j) /\ s \notin Final
    BY <1>0, <1>2, <2>2 DEF Settled
  <2>4. QED
    BY <2>2, <2>3 DEF StillInTurn, InTurn, Waiting
<1>3. CASE s = "CANARY_25"
           /\ q = << <<"try", "PROMOTING">>, <<"must", "ACTIVE">>, <<"share", "ACTIVE">> >>
  <2>1. Opens(q, "try", "PROMOTING", << <<"must", "ACTIVE">>, <<"share", "ACTIVE">> >>)
    BY <1>3, Opened
  <2> DEFINE rest == << <<"must", "ACTIVE">>, <<"share", "ACTIVE">> >>
  <2>2. Checks("PROMOTING", rest, rest, s, tr, fr, q2, s2, tr2, fr2)
    BY <2>1, Tried
  <2>3. s2 = s /\ q2 = << <<"set", "PROMOTING">>, <<"must", "ACTIVE">>, <<"share", "ACTIVE">> >>
    BY <1>3, <2>2, ValidFacts, Joined DEF Checks
  <2>4. QED
    BY <1>3, <2>3 DEF StillInTurn, InTurn, Promoting, Final
<1>4. CASE s = "CANARY_25"
           /\ q = << <<"set", "PROMOTING">>, <<"must", "ACTIVE">>, <<"share", "ACTIVE">> >>
  <2>1. Opens(q, "set", "PROMOTING", << <<"must", "ACTIVE">>, <<"share", "ACTIVE">> >>)
    BY <1>4, Opened
  <2>2. q2 = << <<"must", "ACTIVE">>, <<"share", "ACTIVE">> >> /\ s2 = "PROMOTING"
    BY <2>1, Made
  <2>3. QED
    BY <1>4, <2>2 DEF StillInTurn, InTurn, Promoting, Final
<1>5. CASE s = "PROMOTING" /\ q = << <<"must", "ACTIVE">>, <<"share", "ACTIVE">> >>
  <2>1. Opens(q, "must", "ACTIVE", << <<"share", "ACTIVE">> >>)
    BY <1>5, Opened
  <2>2. Checks("ACTIVE", << <<"share", "ACTIVE">> >>, <<>>, s, tr, fr, q2, s2, tr2, fr2)
    BY <2>1, Demanded
  <2>3. s2 = s /\ q2 = << <<"set", "ACTIVE">>, <<"share", "ACTIVE">> >>
    BY <1>5, <2>2, ValidFacts, Joined DEF Checks
  <2>4. QED
    BY <1>5, <2>3, ValidFacts DEF StillInTurn, InTurn, Promoting, Serving, Final
<1>6. QED
  BY <1>1, <1>2, <1>3, <1>4, <1>5 DEF Promoting

LEMMA WithdrawingMoves ==
  ASSUME NEW q, NEW s \in States, NEW tr, NEW fr, NEW j \in BOOLEAN, Withdrawing(q, s, tr),
         NEW q2, NEW s2, NEW tr2, NEW fr2, Moves(q, s, tr, fr, q2, s2, tr2, fr2)
  PROVE  StillInTurn(s, q2, s2, tr2, fr2, j)
<1> DEFINE Goal == StillInTurn(s, q2, s2, tr2, fr2, j)
<1>0. "ROLLING_BACK" \notin Final /\ "VALIDATING" \notin Final
  BY DEF Final
<1>1. ASSUME NEW end \in Final, "ROLLING_BACK" \in Valid[s],
             q = << <<"set", "ROLLING_BACK">>, <<"share", "ROLLING_BACK">>, <<"try", end>> >>
      PROVE  Goal
  <2>1. Opens(q, "set", "ROLLING_BACK", << <<"share", "ROLLING_BACK">>, <<"try", end>> >>)
    BY <1>1, Opened
  <2>2. q2 = << <<"share", "ROLLING_BACK">>, <<"try", end>> >> /\ s2 = "ROLLING_BACK"
    BY <2>1, Made
  <2>3. s \notin Final
    BY <1>1, ValidFacts DEF Final
  <2>4. QED
    BY <2>2, <2>3 DEF StillInTurn, InTurn, Withdrawing
<1>2. ASSUME NEW end \in Final, s = "ROLLING_BACK",
             q = << <<"share", "ROLLING_BACK">>, <<"try", end>> >>
      PROVE  Goal
  <2>1. Opens(q, "share", "ROLLING_BACK", << <<"try", end>> >>)
    BY <1>2, Opened
  <2>2. q2 = << <<"try", end>> >> /\ s2 = s /\ tr2 = 0
    BY <2>1, Shared, PercentFacts
  <2>3. end \in Valid[s2]
    BY <1>2, <2>2, ValidFacts
  <2>4. QED
    BY <1>0, <1>2, <2>2, <2>3 DEF StillInTurn, InTurn, Withdrawing
<1>3. ASSUME NEW end \in Final, tr = 0, end \in Valid[s], s \in {"ROLLING_BACK", "VALIDATING"},
             q = << <<"try", end>> >>
      PROVE  Goal
  <2>1. Opens(q, "try", end, <<>>)
    BY <1>3, Opened
  <2>2. Checks(end, <<>>, <<>>, s, tr, fr, q2, s2, tr2, fr2)
    BY <2>1, Tried
  <2>3. s2 = s /\ tr2 = tr /\ q2 = << <<"set", end>> >>
    BY <1>3, <2>2, Joined DEF Checks
  <2>4. QED
    BY <1>0, <1>3, <2>3 DEF StillInTurn, InTurn, Withdrawing
<1>4. ASSUME NEW end \in Final, tr = 0, end \in Valid[s], s \in {"ROLLING_BACK", "VALIDATING"},
             q = << <<"set", end>> >>
      PROVE  Goal
  <2>1. Opens(q, "set", end, <<>>)
    BY <1>4, Opened
  <2>2. q2 = <<>> /\ s2 = end /\ tr2 = 0
    BY <1>4, <2>1, Made
  <2>3. Settled(s2, tr2, fr2, j)
    BY <2>2, PercentFacts DEF Settled, Final
  <2>4. QED
    BY <1>0, <1>4, <2>2, <2>3 DEF StillInTurn, InTurn, Waiting
<1>5. QED
  BY <1>1, <1>2, <1>3, <1>4 DEF Withdrawing

LEMMA Prepended ==
  ASSUME NEW S, NEW a \in S, NEW r \in Seq(S)
  PROVE  <<a>> \o r # <<>> /\ Head(<<a>> \o r) = a /\ Tail(<<a>> \o r) = r
<1> DEFINE p == <<a>> \o r
<1>1. /\ p \in Seq(S) /\ Len(p) = Len(r) + 1 /\ Len(r) \in Nat
      /\ p[1] = a /\ \A i \in 1..Len(r): p[i + 1] = r[i]
  BY LenProperties
<1> HIDE DEF p
<1>2. p # <<>>
  BY <1>1, EmptySeq
<1>3. /\ Head(p) = p[1] /\ Tail(p) \in Seq(S) /\ Len(Tail(p)) = Len(p) - 1
      /\ \A i \in 1..Len(Tail(p)): Tail(p)[i] = p[i + 1]
  BY <1>1, <1>2, HeadTailProperties
<1>4. Len(Tail(p)) = Len(r) /\ \A i \in 1..Len(Tail(p)): Tail(p)[i] = r[i]
  BY <1>1, <1>3
<1>5. Tail(p) = r
  BY <1>3, <1>4, SeqEqual
<1>6. QED
  BY <1>1, <1>2, <1>3, <1>5 DEF p

LEMMA StartsAreSteps == Starts \subseteq Seq(Step)
<1>1. /\ <<"must", "SHADOW">> \in Step /\ <<"share", "SHADOW">> \in Step
      /\ <<"must", "CANARY_1">> \in Step /\ <<"share", "CANARY_1">> \in Step
      /\ <<"must", "PROMOTING">> \in Step /\ <<"share", "ACTIVE">> \in Step
      /\ <<"must", "ACTIVE">> \in Step /\ <<"try", "FAILED">> \in Step
  BY StatesAre, StepsAre
<1>2. QED
  BY <1>1, StepSeqs DEF Starts, Started

LEMMA StartsWait ==
  ASSUME NEW r \in Starts, NEW fr, NEW j \in BOOLEAN
  PROVE  InTurn(r, "VALIDATING", 0, fr, j)
<1>0. Settled("VALIDATING", 0, fr, j)
  BY PercentFacts DEF Settled
<1>1. CASE r = Started.shadow
  <2>1. r = << <<"must", "SHADOW">>, <<"share", "SHADOW">> >> /\ "SHADOW" \in Serving
    BY <1>1 DEF Started, Serving
  <2>2. Waiting(r, "VALIDATING", fr, j)
    BY <2>1 DEF Waiting
  <2>3. QED
    BY <1>0, <2>2 DEF InTurn
<1>2. CASE r = Started.canary
  <2>1. r = << <<"must", "CANARY_1">>, <<"share", "CANARY_1">> >> /\ "CANARY_1" \in Serving
    BY <1>2 DEF Started, Serving, Canary
  <2>2. Waiting(r, "VALIDATING", fr, j)
    BY <2>1 DEF Waiting
  <2>3. QED
    BY <1>0, <2>2 DEF InTurn
<1>3. CASE r = Started.direct
  BY <1>3 DEF InTurn, Starting
<1>4. CASE r = << <<"try", "FAILED">> >>
  <2>1. "FAILED" \in Final /\ "FAILED" \in Valid["VALIDATING"]
    BY ValidFacts DEF Final
  <2>2. Withdrawing(r, "VALIDATING", 0)
    BY <1>4, <2>1 DEF Withdrawing
  <2>3. QED
    BY <2>2 DEF InTurn
<1>5. QED
  BY <1>1, <1>2, <1>3, <1>4 DEF Starts

LEMMA StartingMoves ==
  ASSUME NEW q, NEW s \in States, NEW tr, NEW fr, NEW j \in BOOLEAN, Starting(q, s, tr),
         NEW q2, NEW s2, NEW tr2, NEW fr2, Moves(q, s, tr, fr, q2, s2, tr2, fr2)
  PROVE  StillInTurn(s, q2, s2, tr2, fr2, j)
<1> DEFINE Goal == StillInTurn(s, q2, s2, tr2, fr2, j)
<1>0. tr = 0 /\ s \in {"PENDING", "VALIDATING"} /\ s \notin Final /\ s # "PAUSED"
  BY DEF Starting, Final
<1>1. ASSUME NEW k \in {"try", "set"}, NEW r \in Starts, q = << <<k, "VALIDATING">> >> \o r
      PROVE  Opens(q, k, "VALIDATING", r)
  <2>1. <<k, "VALIDATING">> \in Step /\ r \in Seq(Step)
    BY StatesAre, StepsAre, StartsAreSteps
  <2>2. QED
    BY <1>1, <2>1, Prepended DEF Opens
<1>2. ASSUME s = "PENDING", NEW r \in Starts, q = << <<"try", "VALIDATING">> >> \o r PROVE Goal
  <2>1. Opens(q, "try", "VALIDATING", r)
    BY <1>1, <1>2
  <2>2. Checks("VALIDATING", r, r, s, tr, fr, q2, s2, tr2, fr2)
    BY <2>1, Tried
  <2>3. s2 = s /\ tr2 = tr /\ q2 = << <<"set", "VALIDATING">> >> \o r
    BY <1>2, <2>2, ValidFacts DEF Checks
  <2>4. Starting(q2, s2, tr2)
    BY <1>0, <1>2, <2>3 DEF Starting
  <2>5. QED
    BY <1>0, <2>4 DEF StillInTurn, InTurn
<1>3. ASSUME s = "PENDING", NEW r \in Starts, q = << <<"set", "VALIDATING">> >> \o r PROVE Goal
  <2>1. Opens(q, "set", "VALIDATING", r)
    BY <1>1, <1>3
  <2>2. q2 = r /\ s2 = "VALIDATING" /\ tr2 = 0
    BY <1>0, <2>1, Made
  <2>3. QED
    BY <1>0, <2>2, StartsWait DEF StillInTurn
<1>4. CASE q = Started.direct
  <2>1. Opens(q, "must", "PROMOTING", << <<"share", "ACTIVE">>, <<"must", "ACTIVE">> >>)
    BY <1>4, Opened DEF Started
  <2>2. Checks("PROMOTING", << <<"share", "ACTIVE">>, <<"must", "ACTIVE">> >>, <<>>, s, tr, fr, q2, s2, tr2, fr2)
    BY <2>1, Demanded
  <2>3. s2 = s /\ tr2 = tr /\ q2 = <<>>
    BY <1>0, <2>2, ValidFacts DEF Checks
  <2>4. Settled(s2, tr2, fr2, j)
    BY <1>0, <2>3, PercentFacts DEF Settled
  <2>5. QED
    BY <1>0, <2>3, <2>4 DEF StillInTurn, InTurn, Waiting
<1>5. QED
  BY <1>2, <1>3, <1>4 DEF Starting

(* The thread under way stays in turn.                                     *)
LEMMA InTurnMoves ==
  ASSUME NEW q, NEW s \in States, NEW tr, NEW fr \in States \ {"PAUSED"}, NEW j \in BOOLEAN,
         InTurn(q, s, tr, fr, j), q # <<>>,
         NEW q2, NEW s2, NEW tr2, NEW fr2, Moves(q, s, tr, fr, q2, s2, tr2, fr2)
  PROVE  StillInTurn(s, q2, s2, tr2, fr2, j)
<1>1. CASE Settled(s, tr, fr, j) /\ Waiting(q, s, fr, j)
  BY <1>1, WaitingMoves
<1>2. CASE Promoting(q, s)
  BY <1>2, PromotingMoves
<1>3. CASE Withdrawing(q, s, tr)
  BY <1>3, WithdrawingMoves
<1>4. CASE Starting(q, s, tr)
  BY <1>4, StartingMoves
<1>5. QED
  BY <1>1, <1>2, <1>3, <1>4 DEF InTurn
-------------------------------------------------------------------------------
(* The gates for 100%, and what a call does to them and to jumped besides  *)
(* leaving its steps: only a canary at 25% opens such a gate, only a call  *)
(* that rolls back rejects one, and only a resume can jump.                *)
LastGate(gs) == \E i \in DOMAIN gs: gs[i].stage = "ACTIVE"
Rejected(gs) == \E i \in DOMAIN gs: gs[i].stage = "ACTIVE" /\ gs[i].status = "REJECTED"

GateEffect(steps) ==
  /\ LastGate(gates') => \/ LastGate(gates)
                         \/ state = "CANARY_25" /\ config.require_approval /\ steps = <<>>
  /\ Rejected(gates') => Rejected(gates) \/ steps \in Rollbacks

JumpEffect(steps) ==
  \/ steps \in Quiet /\ jumped' = jumped
  \/ /\ state = "PAUSED"
     /\ \E x \in Targets \cup {from}: steps = << <<"must", x>> >> /\ jumped' = (jumped \/ x # from)

Begins(t, steps) == Begin(t, steps) /\ GateEffect(steps) /\ JumpEffect(steps)

LEMMA OpenGateEffect ==
  ASSUME TypeOK, NEW stage, OpenGate(stage)
  PROVE  /\ LastGate(gates') => LastGate(gates) \/ stage = "ACTIVE"
         /\ Rejected(gates') => Rejected(gates)
<1> DEFINE gate == [stage |-> stage, approvers |-> {}, status |-> "PENDING"]
<1>1. gates' = Append(gates, gate) /\ gates \in Seq(Gate)
  BY DEF OpenGate, TypeOK, Gate, GateStatus
<1>2. /\ Len(gates) \in Nat /\ DOMAIN gates = 1..Len(gates)
      /\ DOMAIN gates' = 1..(Len(gates) + 1) /\ gates'[Len(gates) + 1] = gate
      /\ \A i \in 1..Len(gates): gates'[i] = gates[i]
  BY <1>1
<1>3. \A i \in DOMAIN gates': (i \in DOMAIN gates /\ gates'[i] = gates[i]) \/ gates'[i] = gate
  BY <1>2
<1>4. gate.stage = stage /\ gate.status = "PENDING"
  OBVIOUS
<1> HIDE DEF gate
<1>5. QED
  BY <1>3, <1>4 DEF LastGate, Rejected

Updated(i, status) ==
  /\ DOMAIN gates' = DOMAIN gates
  /\ \A k \in DOMAIN gates: k # i => gates'[k] = gates[k]
  /\ gates'[i].stage = gates[i].stage /\ gates'[i].status = status

LEMMA UpdatesGate ==
  ASSUME TypeOK, NEW i \in DOMAIN gates, NEW names, NEW status
  PROVE  /\ gates' = [gates EXCEPT ![i].status = status] => Updated(i, status)
         /\ gates' = [gates EXCEPT ![i].approvers = names, ![i].status = status]
              => Updated(i, status)
<1>1. gates \in Seq(Gate) /\ gates[i] \in Gate
  <2>1. gates \in Seq(Gate)
    BY DEF TypeOK, Gate, GateStatus
  <2>2. QED
    BY <2>1, ElementOfSeq, LenProperties
<1>2. ASSUME gates' = [gates EXCEPT ![i].status = status] PROVE Updated(i, status)
  BY <1>1, <1>2 DEF Gate, Updated
<1>3. ASSUME gates' = [gates EXCEPT ![i].approvers = names, ![i].status = status]
      PROVE  Updated(i, status)
  BY <1>1, <1>3 DEF Gate, Updated
<1>4. QED
  BY <1>2, <1>3

LEMMA UpdateGateEffect ==
  ASSUME NEW i \in DOMAIN gates, NEW status, Updated(i, status)
  PROVE  /\ LastGate(gates') => LastGate(gates)
         /\ Rejected(gates') => Rejected(gates) \/ status = "REJECTED"
BY DEF LastGate, Rejected, Updated

LEMMA OnlyLastStageGated ==
  ASSUME state \in Canary, NextStage[state] = "ACTIVE"
  PROVE  state = "CANARY_25"
BY DEF Canary, NextStage

LEMMA AdvanceEffect ==
  ASSUME TypeOK, state \in Canary,
         IF AdvanceNeedsGate THEN OpenGate("ACTIVE") ELSE UNCHANGED gates
  PROVE  GateEffect(AdvanceCanary)
<1>1. CASE AdvanceNeedsGate
  <2>1. state = "CANARY_25" /\ config.require_approval /\ AdvanceCanary = <<>>
    BY <1>1, OnlyLastStageGated DEF AdvanceNeedsGate, AdvanceCanary
  <2>2. OpenGate("ACTIVE")
    BY <1>1
  <2>3. QED
    BY <2>1, <2>2, OpenGateEffect DEF GateEffect
<1>2. CASE ~AdvanceNeedsGate
  BY <1>2 DEF GateEffect
<1>3. QED
  BY <1>1, <1>2

LEMMA ShadowEffect ==
  ASSUME TypeOK, NEW steps,
         IF config.require_approval THEN OpenGate("CANARY_1") ELSE UNCHANGED gates
  PROVE  GateEffect(steps)
BY OpenGateEffect DEF GateEffect

LEMMA CallEffect ==
  ASSUME TypeOK, NEW t \in Callers, Call(t)
  PROVE  \E steps: Begins(t, steps)
<1> DEFINE Goal == \E steps: Begins(t, steps)
<1> USE DEF Called
<1>0. UNCHANGED gates => \A steps: GateEffect(steps)
  BY DEF GateEffect
<1>1. CASE StartDeployment(t)
  BY <1>0, <1>1 DEF StartDeployment, Begins, JumpEffect, Quiet
<1>2. CASE AskToPromote(t)
  <2>1. GateEffect(PromoteFromShadow)
    BY <1>2, ShadowEffect DEF AskToPromote
  <2>2. QED
    BY <1>2, <2>1 DEF AskToPromote, Begins, JumpEffect, Quiet
<1>3. ASSUME NEW force \in BOOLEAN, AskToAdvance(t, force) PROVE Goal
  <2>1. CASE (force \/ health = "good") /\ Called(t, AdvanceCanary)
             /\ IF AdvanceNeedsGate THEN OpenGate("ACTIVE") ELSE UNCHANGED gates
    <3>1. state \in Canary /\ UNCHANGED jumped
      BY <1>3 DEF AskToAdvance
    <3>2. GateEffect(AdvanceCanary)
      BY <2>1, <3>1, AdvanceEffect
    <3>3. QED
      BY <2>1, <3>1, <3>2 DEF Begins, JumpEffect, Quiet
  <2>2. ASSUME NEW steps \in Rollbacks, Called(t, steps), UNCHANGED gates PROVE Goal
    BY <1>0, <1>3, <2>2 DEF AskToAdvance, Begins, JumpEffect, Quiet
  <2>3. QED
    BY <1>3, <2>1, <2>2 DEF AskToAdvance
<1>4. CASE AskToRollBack(t)
  BY <1>0, <1>4 DEF AskToRollBack, Begins, JumpEffect, Quiet
<1>5. CASE AskToPause(t)
  BY <1>0, <1>5 DEF AskToPause, Begins, JumpEffect, Quiet
<1>6. ASSUME NEW target \in Targets \cup {from}, AskToResume(t, target) PROVE Goal
  BY <1>0, <1>6 DEF AskToResume, Begins, JumpEffect
<1>7. ASSUME NEW i \in DOMAIN gates, RejectGate(t, i) PROVE Goal
  <2>1. PICK steps \in Rollbacks: Called(t, steps)
    BY <1>7 DEF RejectGate
  <2>2. UNCHANGED jumped /\ gates' = [gates EXCEPT ![i].status = "REJECTED"]
    BY <1>7 DEF RejectGate
  <2>3. GateEffect(steps)
    BY <2>1, <2>2, UpdatesGate, UpdateGateEffect DEF GateEffect
  <2>4. QED
    BY <2>1, <2>2, <2>3 DEF Begins, JumpEffect, Quiet
<1>8. ASSUME NEW i \in DOMAIN gates, NEW who \in Approvers, ApproveGate(t, i, who) PROVE Goal
  <2> DEFINE names == gates[i].approvers \cup {who}
             outcome == IF Approvers \subseteq names THEN "APPROVED" ELSE gates[i].status
  <2>1. /\ Called(t, <<>>) /\ UNCHANGED jumped /\ gates[i].status = "PENDING"
        /\ \/ gates' = [gates EXCEPT ![i].status = "EXPIRED"]
           \/ gates' = [gates EXCEPT ![i].approvers = names, ![i].status = outcome]
    BY <1>8 DEF ApproveGate
  <2>2. outcome # "REJECTED"
    BY <2>1
  <2> HIDE DEF names, outcome
  <2>3. /\ LastGate(gates') => LastGate(gates)
        /\ Rejected(gates') => Rejected(gates)
    <3>1. Updated(i, "EXPIRED") \/ Updated(i, outcome)
      BY <2>1, UpdatesGate
    <3>2. QED
      BY <2>2, <3>1, UpdateGateEffect
  <2>4. QED
    BY <2>1, <2>3 DEF Begins, GateEffect, JumpEffect, Quiet
<1>9. QED
  BY <1>1, <1>2, <1>3, <1>4, <1>5, <1>6, <1>7, <1>8 DEF Call

LEMMA MonitorEffect ==
  ASSUME TypeOK, MonitorRollsBack \/ MonitorPromotes
  PROVE  \E steps: Begins("monitor", steps)
<1> DEFINE Goal == \E steps: Begins("monitor", steps)
<1>0. UNCHANGED gates => \A steps: GateEffect(steps)
  BY DEF GateEffect
<1>1. CASE MonitorRollsBack
  BY <1>0, <1>1 DEF MonitorRollsBack, Begins, JumpEffect, Quiet
<1>2. CASE MonitorPromotes
  <2>0. UNCHANGED jumped
    BY <1>2 DEF MonitorPromotes
  <2>1. CASE state = "SHADOW" /\ Begin("monitor", PromoteFromShadow)
             /\ IF config.require_approval THEN OpenGate("CANARY_1") ELSE UNCHANGED gates
    <3>1. GateEffect(PromoteFromShadow)
      BY <2>1, ShadowEffect
    <3>2. QED
      BY <2>0, <2>1, <3>1 DEF Begins, JumpEffect, Quiet
  <2>2. CASE state \in Canary /\ Begin("monitor", AdvanceCanary)
             /\ IF AdvanceNeedsGate THEN OpenGate("ACTIVE") ELSE UNCHANGED gates
    <3>1. GateEffect(AdvanceCanary)
      BY <2>2, AdvanceEffect
    <3>2. QED
      BY <2>0, <2>2, <3>1 DEF Begins, JumpEffect, Quiet
  <2>3. ASSUME NEW steps \in Rollbacks, Begin("monitor", steps), UNCHANGED gates PROVE Goal
    BY <1>0, <2>0, <2>3 DEF Begins, JumpEffect, Quiet
  <2>4. QED
    BY <1>2, <2>1, <2>2, <2>3 DEF MonitorPromotes
<1>3. QED
  BY <1>1, <1>2
-------------------------------------------------------------------------------
(* Between calls the share is settled, and any call may begin.             *)
LEMMA IdleIsSettled ==
  ASSUME NEW s, NEW tr, NEW fr, NEW j, InTurn(<<>>, s, tr, fr, j)
  PROVE  Settled(s, tr, fr, j)
<1>1. ~Promoting(<<>>, s) /\ ~Withdrawing(<<>>, s, tr)
  BY DEF Promoting, Withdrawing
<1>2. ~Starting(<<>>, s, tr)
  <2>1. ASSUME NEW k \in {"try", "set"}, NEW r \in Starts PROVE << <<k, "VALIDATING">> >> \o r # <<>>
    <3>1. <<k, "VALIDATING">> \in Step /\ r \in Seq(Step)
      BY StatesAre, StepsAre, StartsAreSteps
    <3>2. QED
      BY <3>1, Prepended
  <2>2. Started.direct # <<>>
    BY DEF Started
  <2>3. QED
    BY <2>1, <2>2 DEF Starting
<1>3. QED
  BY <1>1, <1>2 DEF InTurn

LEMMA WithdrawnServesNobody ==
  ASSUME NEW q, NEW s \in Final, NEW tr, NEW fr, NEW j, InTurn(q, s, tr, fr, j)
  PROVE  tr = 0
<1>1. ~Promoting(q, s)
  <2>1. \A x \in Serving: x \notin Valid[s] /\ s # x
    BY ValidFacts DEF Final, Serving, Canary
  <2>2. QED
    BY <2>1 DEF Promoting, Final
<1>2. Withdrawing(q, s, tr) => tr = 0
  BY ValidFacts DEF Withdrawing, Final
<1>3. QED
  BY <1>1, <1>2 DEF InTurn, Settled, Starting

LEMMA AloneIsIdle ==
  ASSUME SerialInv, ~config.overlap, Idle
  PROVE  Settled(state, traffic, from, jumped)
BY IdleIsSettled DEF SerialInv, Idle

(* Whatever is begun fits a settled deployment.                            *)
LEMMA QuietWaits ==
  ASSUME TypeOK, RolloutAssumption, Settled(state, traffic, from, jumped), NEW steps \in Quiet
  PROVE  InTurn(steps, state, traffic, from, jumped)
<1> DEFINE Goal == InTurn(steps, state, traffic, from, jumped)
<1>0. Waiting(steps, state, from, jumped) => Goal
  BY DEF InTurn
<1>1. ASSUME steps \in {<<>>} \cup Rollbacks \cup {<< <<"must", "PAUSED">> >>} PROVE Goal
  BY <1>0, <1>1 DEF Waiting, Rollbacks
<1>2. ASSUME NEW x \in Serving, steps = << <<"must", x>>, <<"share", x>> >> PROVE Goal
  BY <1>0, <1>2 DEF Waiting
<1>3. CASE steps = Started.canary
  BY <1>2, <1>3 DEF Started, Serving, Canary
<1>4. ASSUME state = "PENDING", steps \in {Validated, Started[config.type]} PROVE Goal
  <2>1. traffic = 0
    BY <1>4 DEF Settled
  <2>2. Started[config.type] \in {Started.shadow, Started.canary, Started.direct}
    BY DEF TypeOK, RolloutAssumption, Config
  <2>3. CASE steps = Started.shadow
    BY <1>2, <2>3 DEF Started, Serving
  <2>4. CASE steps = Started.direct
    BY <1>4, <2>1, <2>4 DEF InTurn, Starting
  <2>5. CASE steps = Validated
    <3>1. \E r \in Starts: steps = << <<"try", "VALIDATING">> >> \o r
      BY <2>2, <2>5 DEF Validated, Starts
    <3>2. Starting(steps, state, traffic)
      BY <1>4, <2>1, <3>1 DEF Starting
    <3>3. QED
      BY <3>2 DEF InTurn
  <2>6. QED
    BY <1>3, <1>4, <2>2, <2>3, <2>4, <2>5
<1>5. CASE state = "SHADOW" /\ steps = PromoteFromShadow
  BY <1>1, <1>3, <1>5 DEF PromoteFromShadow
<1>6. ASSUME state \in Canary, steps = AdvanceCanary PROVE Goal
  <2>1. CASE steps = <<>>
    BY <1>1, <2>1
  <2>2. CASE steps = Advanced(state) /\ state = "CANARY_25"
    <3>1. steps = << <<"try", "PROMOTING">>, <<"must", "ACTIVE">>, <<"share", "ACTIVE">> >>
      BY <2>2, Joined DEF Advanced, NextStage
    <3>2. Promoting(steps, state)
      BY <2>2, <3>1 DEF Promoting
    <3>3. QED
      BY <3>2 DEF InTurn
  <2>3. CASE steps = Advanced(state) /\ state # "CANARY_25"
    <3> DEFINE x == NextStage[state]
    <3>1. x \in {"CANARY_5", "CANARY_25"}
      BY <1>6, <2>3 DEF Canary, NextStage
    <3>2. steps = <<>> \o << <<"must", x>>, <<"share", x>> >>
      BY <2>3, <3>1 DEF Advanced
    <3>3. << <<"must", x>>, <<"share", x>> >> \in Seq(Step)
      BY <3>1, StatesAre, StepsAre, StepSeqs
    <3>4. steps = << <<"must", x>>, <<"share", x>> >>
      BY <3>2, <3>3, ConcatEmptySeq
    <3>5. x \in Serving
      BY <3>1 DEF Serving, Canary
    <3> HIDE DEF x
    <3>6. QED
      BY <1>2, <3>4, <3>5
  <2>4. QED
    BY <1>6, <2>1, <2>2, <2>3 DEF AdvanceCanary
<1>7. QED
  BY <1>1, <1>4, <1>5, <1>6 DEF Quiet

LEMMA BeginInTurn ==
  ASSUME TypeOK, RolloutAssumption, Settled(state, traffic, from, jumped), NEW steps, JumpEffect(steps)
  PROVE  InTurn(steps, state, traffic, from, jumped')
<1>1. CASE steps \in Quiet /\ jumped' = jumped
  BY <1>1, QuietWaits
<1>2. ASSUME state = "PAUSED", NEW x \in Targets \cup {from}, steps = << <<"must", x>> >>,
             jumped' = (jumped \/ x # from)
      PROVE  InTurn(steps, state, traffic, from, jumped')
  <2>1. Settled(state, traffic, from, jumped')
    BY <1>2 DEF Settled
  <2>2. x \in States
    BY DEF TypeOK, RolloutAssumption
  <2>3. Waiting(steps, state, from, jumped')
    BY <1>2, <2>2 DEF Waiting
  <2>4. QED
    BY <2>1, <2>3 DEF InTurn
<1>3. QED
  BY <1>1, <1>2 DEF JumpEffect

LEMMA SerialBegin ==
  ASSUME TypeOK, RolloutAssumption, SerialInv, NEW t \in Threads, NEW steps, Begins(t, steps)
  PROVE  SerialInv'
<1> SUFFICES ASSUME ~config.overlap
             PROVE  \E u \in Threads: /\ InTurn(todo'[u], state', traffic', from', jumped')
                                      /\ \A v \in Threads \ {u}: todo'[v] = <<>>
  BY DEF SerialInv, Begins, Begin
<1>1. Idle /\ todo' = [todo EXCEPT ![t] = steps] /\ UNCHANGED <<state, traffic, from>>
  BY DEF Begins, Begin, MayBegin
<1>2. todo'[t] = steps /\ \A v \in Threads \ {t}: todo'[v] = <<>>
  BY <1>1 DEF TypeOK, Idle
<1>3. InTurn(steps, state, traffic, from, jumped')
  BY <1>1, AloneIsIdle, BeginInTurn DEF Begins
<1>4. QED
  BY <1>1, <1>2, <1>3

LEMMA ProceedMoves ==
  ASSUME TypeOK, NEW t \in Threads, Proceed(t)
  PROVE  /\ Moves(todo[t], state, traffic, from, todo'[t], state', traffic', from')
         /\ \A u \in Threads \ {t}: todo'[u] = todo[u]
         /\ todo[t] # <<>> /\ UNCHANGED <<config, gates, jumped>>
<1>1. CASE CheckTransition(t)
  BY <1>1 DEF CheckTransition, Proceed, Moves, TypeOK, control
<1>2. CASE MakeTransition(t)
  BY <1>2 DEF MakeTransition, Proceed, Moves, TypeOK, control
<1>3. CASE SetShare(t)
  BY <1>3 DEF SetShare, Proceed, Moves, TypeOK, control
<1>4. QED
  BY <1>1, <1>2, <1>3 DEF Proceed

LEMMA SerialProceed ==
  ASSUME TypeOK, SerialInv, NEW t \in Threads, Proceed(t)
  PROVE  /\ SerialInv'
         /\ ~config.overlap /\ state \in Final => state' = state /\ traffic' = 0
<1> SUFFICES ASSUME ~config.overlap
             PROVE  /\ \E u \in Threads: /\ InTurn(todo'[u], state', traffic', from', jumped')
                                         /\ \A v \in Threads \ {u}: todo'[v] = <<>>
                    /\ state \in Final => state' = state /\ traffic' = 0
  BY ProceedMoves DEF SerialInv
<1>1. /\ InTurn(todo[t], state, traffic, from, jumped)
      /\ \A v \in Threads \ {t}: todo[v] = <<>>
  BY ProceedMoves DEF SerialInv
<1>2. StillInTurn(state, todo'[t], state', traffic', from', jumped)
  BY <1>1, ProceedMoves, InTurnMoves DEF TypeOK
<1>3. jumped' = jumped /\ \A v \in Threads \ {t}: todo'[v] = <<>>
  BY <1>1, ProceedMoves
<1>4. QED
  BY <1>2, <1>3 DEF StillInTurn

LEMMA SerialInit == ASSUME Init PROVE SerialInv
<1>1. Settled(state, traffic, from, jumped)
  BY PercentFacts DEF Init, Settled
<1>2. InTurn(todo["monitor"], state, traffic, from, jumped)
  BY <1>1 DEF Init, Threads, InTurn, Waiting
<1>3. QED
  BY <1>2 DEF Init, Threads, SerialInv

LEMMA SerialStep ==
  ASSUME TypeOK, RolloutAssumption, SerialInv, [Next]_vars
  PROVE  SerialInv'
<1>1. ASSUME NEW t \in Callers, Call(t) PROVE SerialInv'
  BY <1>1, CallEffect, SerialBegin DEF Threads
<1>2. CASE MonitorRollsBack \/ MonitorPromotes
  BY <1>2, MonitorEffect, SerialBegin DEF Threads
<1>3. ASSUME NEW t \in Threads, Proceed(t) PROVE SerialInv'
  BY <1>3, SerialProceed
<1>4. CASE HealthChanges
  BY <1>4 DEF SerialInv, HealthChanges
<1>5. CASE UNCHANGED vars
  BY <1>5 DEF SerialInv, vars, control
<1>6. QED
  BY <1>1, <1>2, <1>3, <1>4, <1>5 DEF Next

LEMMA OneAtATime == Spec => []SerialInv
<1>1. TypeOK /\ SerialInv /\ [Next]_vars => SerialInv'
  BY SerialStep, RolloutAssumption
<1>2. Init => SerialInv
  BY SerialInit
<1>3. QED
  BY <1>1, <1>2, RolloutTypeCorrect, PTL DEF Spec

(* Between calls that come one at a time, each stage serves its share: the *)
(* percentage follows the transition in another step of the same call, and *)
(* a pause keeps what the stage had.                                       *)
THEOREM SharesMatchStages == Spec => []ShareMatchesStage
<1>1. SerialInv => ShareMatchesStage
  BY AloneIsIdle DEF ShareMatchesStage, Settled
<1>2. QED
  BY <1>1, OneAtATime, PTL

(* With calls one at a time, what was rolled back or failed is never       *)
(* brought back and never serves again, whatever is called: no transition  *)
(* that a call has checked can still be waiting.                           *)
THEOREM WithdrawalIsFinal == Spec => WithdrawnStaysWithdrawn
<1> DEFINE Stays == ~config.overlap /\ state \in Final => state' = state /\ Exposure' = 0
<1>1. ASSUME TypeOK, SerialInv, [Next]_vars PROVE Stays
  <2> SUFFICES ASSUME ~config.overlap, state \in Final PROVE state' = state /\ traffic' = 0
    <3>1. ASSUME state' \in Final, traffic' = 0 PROVE Exposure' = 0
      BY <3>1 DEF Exposure, Final
    <3>2. QED
      BY <3>1
  <2> USE <1>1, RolloutAssumption
  <2>1. traffic = 0
    BY WithdrawnServesNobody DEF SerialInv
  <2>2. ASSUME NEW t \in Callers, Call(t) PROVE UNCHANGED <<state, traffic>>
    BY <2>2, CallEffect DEF Begins, Begin
  <2>3. CASE MonitorRollsBack \/ MonitorPromotes
    BY <2>1, <2>3, MonitorEffect DEF Begins, Begin
  <2>4. ASSUME NEW t \in Threads, Proceed(t) PROVE state' = state /\ traffic' = 0
    BY <2>4, SerialProceed
  <2>5. CASE HealthChanges
    BY <2>1, <2>5 DEF HealthChanges
  <2>6. CASE UNCHANGED vars
    BY <2>1, <2>6 DEF vars
  <2>7. QED
    BY <2>1, <2>2, <2>3, <2>4, <2>5, <2>6 DEF Next
<1>2. TypeOK /\ SerialInv /\ [Next]_vars => [Stays]_vars
  BY <1>1
<1>3. QED
  BY <1>2, RolloutTypeCorrect, OneAtATime, PTL DEF Spec, WithdrawnStaysWithdrawn
-------------------------------------------------------------------------------
(* A deployment that came to the gate before 100%, one call at a time and  *)
(* never resumed elsewhere, can only wait, roll back or be withdrawn,      *)
AtGate == {"CANARY_25", "ROLLING_BACK"} \cup Final
GateSteps == {<<kind, s>>: kind \in {"try", "must", "set", "share"}, s \in AtGate \cup {"PAUSED"}}
Stage == IF state = "PAUSED" THEN from ELSE state

(* and once the gate is rejected, what is left of the rollback succeeds.   *)
RollbackLeft(q, s) ==
  \E end \in Final:
    \/ q = RollbackTo(end) /\ s # "ROLLING_BACK"
    \/ q = << <<"set", "ROLLING_BACK">>, <<"share", "ROLLING_BACK">>, <<"try", end>> >>
    \/ q = << <<"share", "ROLLING_BACK">>, <<"try", end>> >> /\ s = "ROLLING_BACK"
    \/ q = << <<"try", end>> >> /\ s = "ROLLING_BACK"
    \/ q = << <<"set", end>> >>

RejectionInv ==
  ~config.overlap /\ ~jumped =>
    /\ LastGate(gates) => /\ config.require_approval /\ Stage \in AtGate
                          /\ \A t \in Threads: todo[t] \in Seq(GateSteps)
    /\ Rejected(gates) => state \in Final \/ \E t \in Threads: RollbackLeft(todo[t], state)

LEMMA GateStepSeqs ==
  /\ <<>> \in Seq(GateSteps)
  /\ \A a, b, c \in GateSteps: <<a>> \in Seq(GateSteps) /\ <<a, b, c>> \in Seq(GateSteps)
OBVIOUS

LEMMA GateStepsAre ==
  /\ \A kind \in {"try", "must", "set", "share"}: \A s \in AtGate \cup {"PAUSED"}: <<kind, s>> \in GateSteps
  /\ \A p \in GateSteps: p = <<p[1], p[2]>> /\ p[2] \in AtGate \cup {"PAUSED"}
BY DEF GateSteps

LEMMA RollbackMoves ==
  ASSUME NEW q, NEW s \in AtGate \cup {"PAUSED"}, s \notin Final, RollbackLeft(q, s), NEW tr, NEW fr,
         NEW q2, NEW s2, NEW tr2, NEW fr2, Moves(q, s, tr, fr, q2, s2, tr2, fr2)
  PROVE  s2 \in Final \/ RollbackLeft(q2, s2)
<1> DEFINE Goal == s2 \in Final \/ RollbackLeft(q2, s2)
<1>1. ASSUME NEW end \in Final, q = RollbackTo(end), s # "ROLLING_BACK" PROVE Goal
  <2> DEFINE rest == << <<"share", "ROLLING_BACK">>, <<"try", end>> >>
  <2>1. Opens(q, "must", "ROLLING_BACK", rest)
    BY <1>1, Opened DEF RollbackTo
  <2>2. Checks("ROLLING_BACK", rest, <<>>, s, tr, fr, q2, s2, tr2, fr2)
    BY <2>1, Demanded
  <2>3. "ROLLING_BACK" \in Valid[s]
    BY <1>1, ValidFacts DEF AtGate
  <2>4. q2 = << <<"set", "ROLLING_BACK">>, <<"share", "ROLLING_BACK">>, <<"try", end>> >>
    BY <2>2, <2>3, Joined DEF Checks
  <2>5. QED
    BY <2>4 DEF RollbackLeft
<1>2. ASSUME NEW end \in Final,
             q = << <<"set", "ROLLING_BACK">>, <<"share", "ROLLING_BACK">>, <<"try", end>> >>
      PROVE  Goal
  <2>1. Opens(q, "set", "ROLLING_BACK", << <<"share", "ROLLING_BACK">>, <<"try", end>> >>)
    BY <1>2, Opened
  <2>2. q2 = << <<"share", "ROLLING_BACK">>, <<"try", end>> >> /\ s2 = "ROLLING_BACK"
    BY <2>1, Made
  <2>3. QED
    BY <2>2 DEF RollbackLeft
<1>3. ASSUME NEW end \in Final, q = << <<"share", "ROLLING_BACK">>, <<"try", end>> >>,
             s = "ROLLING_BACK"
      PROVE  Goal
  <2>1. Opens(q, "share", "ROLLING_BACK", << <<"try", end>> >>)
    BY <1>3, Opened
  <2>2. q2 = << <<"try", end>> >> /\ s2 = s
    BY <2>1, Shared
  <2>3. QED
    BY <1>3, <2>2 DEF RollbackLeft
<1>4. ASSUME NEW end \in Final, q = << <<"try", end>> >>, s = "ROLLING_BACK" PROVE Goal
  <2>1. Opens(q, "try", end, <<>>)
    BY <1>4, Opened
  <2>2. Checks(end, <<>>, <<>>, s, tr, fr, q2, s2, tr2, fr2)
    BY <2>1, Tried
  <2>3. q2 = << <<"set", end>> >>
    BY <1>4, <2>2, ValidFacts, Joined DEF Checks
  <2>4. QED
    BY <2>3 DEF RollbackLeft
<1>5. ASSUME NEW end \in Final, q = << <<"set", end>> >> PROVE Goal
  <2>1. Opens(q, "set", end, <<>>)
    BY <1>5, Opened
  <2>2. QED
    BY <2>1, Made
<1>6. QED
  BY <1>1, <1>2, <1>3, <1>4, <1>5 DEF RollbackLeft

(* Nothing that can be begun at the gate leads past it.                    *)
LEMMA BegunAtGate ==
  ASSUME TypeOK, Stage \in AtGate, config.require_approval, NEW steps, JumpEffect(steps), ~jumped'
  PROVE  steps \in Seq(GateSteps)
<1>1. Rollbacks \subseteq Seq(GateSteps)
  <2>1. ASSUME NEW end \in Final PROVE RollbackTo(end) \in Seq(GateSteps)
    <3>1. /\ <<"must", "ROLLING_BACK">> \in GateSteps /\ <<"share", "ROLLING_BACK">> \in GateSteps
          /\ <<"try", end>> \in GateSteps
      BY GateStepsAre DEF AtGate
    <3>2. QED
      BY <3>1, GateStepSeqs DEF RollbackTo
  <2>2. QED
    BY <2>1 DEF Rollbacks
<1>2. << <<"must", "PAUSED">> >> \in Seq(GateSteps)
  BY GateStepsAre, GateStepSeqs
<1>3. ASSUME steps \in Quiet PROVE steps \in Seq(GateSteps)
  <2>1. state # "PENDING" /\ state # "SHADOW" /\ (state \in Canary => state = "CANARY_25")
    BY DEF Stage, AtGate, Final, Canary
  <2>2. state = "CANARY_25" => AdvanceCanary = <<>>
    BY DEF AdvanceCanary, AdvanceNeedsGate, NextStage
  <2>3. steps \in {<<>>} \cup Rollbacks \cup {<< <<"must", "PAUSED">> >>}
    BY <1>3, <2>1, <2>2 DEF Quiet
  <2>4. QED
    BY <1>1, <1>2, <2>3, GateStepSeqs
<1>4. ASSUME state = "PAUSED", steps = << <<"must", from>> >> PROVE steps \in Seq(GateSteps)
  BY <1>4, GateStepsAre, GateStepSeqs DEF Stage
<1>5. QED
  BY <1>3, <1>4 DEF JumpEffect

LEMMA RejectionBegin ==
  ASSUME TypeOK, RolloutAssumption, SerialInv, RejectionInv,
         NEW t \in Threads, NEW steps, Begins(t, steps)
  PROVE  RejectionInv'
<1> SUFFICES ASSUME ~config.overlap, ~jumped'
             PROVE  /\ LastGate(gates') => /\ config.require_approval /\ Stage' \in AtGate
                                           /\ \A u \in Threads: todo'[u] \in Seq(GateSteps)
                    /\ Rejected(gates') => \/ state' \in Final
                                           \/ \E u \in Threads: RollbackLeft(todo'[u], state')
  BY DEF RejectionInv, Begins, Begin
<1>1. Idle /\ todo' = [todo EXCEPT ![t] = steps] /\ UNCHANGED <<state, from>>
  BY DEF Begins, Begin, MayBegin
<1>2. todo'[t] = steps /\ \A v \in Threads \ {t}: todo'[v] = <<>>
  BY <1>1 DEF TypeOK, Idle
<1>3. ~jumped /\ GateEffect(steps) /\ JumpEffect(steps)
  <2>1. GateEffect(steps) /\ JumpEffect(steps)
    BY DEF Begins
  <2>2. (jumped' = jumped) \/ \E x: jumped' = (jumped \/ x # from)
    BY <2>1 DEF JumpEffect
  <2>3. jumped => jumped'
    BY <2>2, Zenon
  <2>4. QED
    BY <2>1, <2>3
<1>4. Stage # "ROLLING_BACK" /\ Stage' = Stage
  BY <1>1, <1>3, AloneIsIdle DEF Settled, Stage
<1>5. ASSUME LastGate(gates')
      PROVE  /\ config.require_approval /\ Stage \in AtGate
             /\ \A u \in Threads: todo'[u] \in Seq(GateSteps)
  <2>1. config.require_approval /\ Stage \in AtGate
    BY <1>3, <1>5 DEF GateEffect, RejectionInv, Stage, AtGate
  <2>2. steps \in Seq(GateSteps)
    BY <1>3, <2>1, BegunAtGate
  <2>3. QED
    BY <1>2, <2>1, <2>2, GateStepSeqs
<1>6. ASSUME Rejected(gates')
      PROVE  state \in Final \/ \E u \in Threads: RollbackLeft(todo'[u], state)
  <2>1. CASE Rejected(gates)
    <3>1. \A u \in Threads: ~RollbackLeft(todo[u], state)
      BY <1>1 DEF Idle, RollbackLeft, RollbackTo
    <3>2. QED
      BY <1>3, <2>1, <3>1 DEF RejectionInv
  <2>2. CASE steps \in Rollbacks
    <3>1. state # "ROLLING_BACK"
      BY <1>4 DEF Stage
    <3>2. RollbackLeft(todo'[t], state)
      BY <1>2, <2>2, <3>1 DEF Rollbacks, RollbackLeft
    <3>3. QED
      BY <3>2
  <2>3. QED
    BY <1>3, <1>6, <2>1, <2>2 DEF GateEffect
<1>7. QED
  BY <1>1, <1>4, <1>5, <1>6

(* A step at the gate stays at the gate.                                   *)
LEMMA GateMoves ==
  ASSUME NEW q \in Seq(GateSteps), q # <<>>, NEW s, NEW tr, NEW fr, NEW q2, NEW s2, NEW tr2, NEW fr2,
         Moves(q, s, tr, fr, q2, s2, tr2, fr2), (IF s = "PAUSED" THEN fr ELSE s) \in AtGate
  PROVE  q2 \in Seq(GateSteps) /\ (IF s2 = "PAUSED" THEN fr2 ELSE s2) \in AtGate
<1> DEFINE x == Head(q)[2]
           rest == Tail(q)
<1>1. Head(q) \in GateSteps /\ rest \in Seq(GateSteps)
  BY HeadTailProperties
<1>2. x \in AtGate \cup {"PAUSED"}
  BY <1>1, GateStepsAre
<1>3. "PAUSED" \notin AtGate
  BY DEF AtGate, Final
<1>4. << <<"set", x>> >> \o rest \in Seq(GateSteps)
  <2>1. << <<"set", x>> >> \in Seq(GateSteps)
    BY <1>2, GateStepsAre, GateStepSeqs
  <2>2. QED
    BY <1>1, <2>1, ConcatProperties
<1>5. \/ /\ s2 = s /\ fr2 = fr
         /\ q2 = << <<"set", x>> >> \o rest \/ q2 = rest \/ q2 = <<>>
      \/ q2 = rest /\ s2 = x /\ fr2 = IF s = "PAUSED" THEN fr ELSE s
  BY DEF Moves
<1> HIDE DEF x, rest
<1>6. QED
  BY <1>1, <1>2, <1>3, <1>4, <1>5, GateStepSeqs

LEMMA RejectionProceed ==
  ASSUME TypeOK, SerialInv, RejectionInv, NEW t \in Threads, Proceed(t)
  PROVE  RejectionInv'
<1>0. UNCHANGED <<config, gates, jumped>>
  BY ProceedMoves
<1> SUFFICES ASSUME ~config.overlap, ~jumped
             PROVE  /\ LastGate(gates) => /\ config.require_approval /\ Stage' \in AtGate
                                          /\ \A u \in Threads: todo'[u] \in Seq(GateSteps)
                    /\ Rejected(gates) => \/ state' \in Final
                                          \/ \E u \in Threads: RollbackLeft(todo'[u], state')
  BY <1>0 DEF RejectionInv
<1>1. /\ Moves(todo[t], state, traffic, from, todo'[t], state', traffic', from')
      /\ todo[t] # <<>> /\ \A u \in Threads \ {t}: todo'[u] = todo[u]
  BY ProceedMoves
<1>2. \A u \in Threads \ {t}: todo[u] = <<>>
  BY <1>1 DEF SerialInv
<1>3. ASSUME LastGate(gates)
      PROVE  /\ config.require_approval /\ Stage' \in AtGate
             /\ \A u \in Threads: todo'[u] \in Seq(GateSteps)
  <2>1. config.require_approval /\ Stage \in AtGate /\ \A u \in Threads: todo[u] \in Seq(GateSteps)
    BY <1>3 DEF RejectionInv
  <2>2. todo'[t] \in Seq(GateSteps) /\ Stage' \in AtGate
    BY <1>1, <2>1, GateMoves DEF Stage
  <2>3. QED
    BY <1>1, <2>1, <2>2
<1>4. ASSUME Rejected(gates)
      PROVE  state' \in Final \/ \E u \in Threads: RollbackLeft(todo'[u], state')
  <2>1. CASE state \in Final
    BY <2>1, SerialProceed
  <2>2. CASE state \notin Final
    <3>1. RollbackLeft(todo[t], state)
      <4>1. ~RollbackLeft(<<>>, state)
        BY DEF RollbackLeft, RollbackTo
      <4>2. QED
        BY <1>2, <1>4, <2>2, <4>1 DEF RejectionInv
    <3>2. state \in AtGate \cup {"PAUSED"}
      <4>1. LastGate(gates)
        BY <1>4 DEF LastGate, Rejected
      <4>2. QED
        BY <4>1 DEF RejectionInv, Stage
    <3>3. state' \in Final \/ RollbackLeft(todo'[t], state')
      BY <1>1, <2>2, <3>1, <3>2, RollbackMoves
    <3>4. QED
      BY <3>3
  <2>3. QED
    BY <2>1, <2>2
<1>5. QED
  BY <1>3, <1>4

(* With calls one at a time, rejecting the gate before 100% withdraws the  *)
(* model by the time the call is over, also from a pause: a deployment at  *)
(* that gate can only be at 25%, paused there, or already withdrawn, and   *)
(* from each of them the rollback is valid.                                *)
THEOREM RejectionsWithdraw == Spec => []RejectionWithdraws
<1> USE RolloutAssumption
<1>1. Init => RejectionInv
  BY DEF Init, RejectionInv, LastGate, Rejected
<1>2. TypeOK /\ SerialInv /\ RejectionInv /\ [Next]_vars => RejectionInv'
  <2> SUFFICES ASSUME TypeOK, SerialInv, RejectionInv, [Next]_vars PROVE RejectionInv'
    OBVIOUS
  <2>1. ASSUME NEW t \in Callers, Call(t) PROVE RejectionInv'
    BY <2>1, CallEffect, RejectionBegin DEF Threads
  <2>2. CASE MonitorRollsBack \/ MonitorPromotes
    BY <2>2, MonitorEffect, RejectionBegin DEF Threads
  <2>3. ASSUME NEW t \in Threads, Proceed(t) PROVE RejectionInv'
    BY <2>3, RejectionProceed
  <2>4. CASE HealthChanges
    BY <2>4 DEF RejectionInv, HealthChanges, Stage
  <2>5. CASE UNCHANGED vars
    BY <2>5 DEF RejectionInv, vars, control, Stage
  <2>6. QED
    BY <2>1, <2>2, <2>3, <2>4, <2>5 DEF Next
<1>3. SerialInv /\ RejectionInv => RejectionWithdraws
  <2> SUFFICES ASSUME SerialInv, RejectionInv, ~config.overlap, ~jumped, Idle, Rejected(gates)
               PROVE  state \in Final /\ Exposure = 0
    BY DEF RejectionWithdraws, Rejected
  <2>1. ~RollbackLeft(<<>>, state)
    BY DEF RollbackLeft, RollbackTo
  <2>2. state \in Final
    BY <2>1 DEF RejectionInv, Idle
  <2>3. traffic = 0
    BY <2>2, AloneIsIdle DEF Settled
  <2>4. QED
    BY <2>2, <2>3 DEF Exposure, Final
<1>4. QED
  BY <1>1, <1>2, <1>3, RolloutTypeCorrect, OneAtATime, PTL DEF Spec
===============================================================================
