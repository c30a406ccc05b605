--------------------------- MODULE RecoveryApiProofs ---------------------------
(***************************************************************************)
(* What RecoveryApi guarantees for every set of accounts, requests,        *)
(* outreaches, drafted texts, hours and flags.                             *)
(***************************************************************************)
EXTENDS RecoveryApi, AccountLedgerProofs

(* A row of another kind of writer keeps the invariant of the ledger if it *)
(* is covered by child rows that cover at least what they covered before.  *)
LEMMA WriteKeepsIInv ==
  ASSUME IInv, NEW a \in Accounts, NEW row \in Row, NEW rows \in Child,
         Covers(a, rows, row),
         \A b \in Row: Covers(a, child[a], b) => Covers(a, rows, b),
         acct' = [acct EXCEPT ![a] = row],
         child' = [child EXCEPT ![a] = rows],
         req' = req
  PROVE  IInv'
<1>1. TypeOK'
  BY DEF IInv, TypeOK
<1>2. RollupsNeverExceedRows'
  <2> SUFFICES ASSUME NEW b \in Accounts PROVE Covers(b, child'[b], acct'[b])
    BY DEF RollupsNeverExceedRows, Covers
  <2>1. CASE b = a
    BY <2>1 DEF IInv, TypeOK
  <2>2. CASE b # a
    BY <2>2 DEF IInv, TypeOK, RollupsNeverExceedRows
  <2>3. QED
    BY <2>1, <2>2
<1>3. LoadedCovered'
  <2> SUFFICES ASSUME NEW s \in Requests, IsWorking(s)
               PROVE  Covers(req[s].account, child'[req[s].account], req[s].loaded)
    BY DEF LoadedCovered, Covers, IsWorking
  <2>1. /\ req[s].account \in Accounts /\ req[s].loaded \in Row
        /\ Covers(req[s].account, child[req[s].account], req[s].loaded)
    BY WorkingType DEF IInv, LoadedCovered
  <2>2. CASE req[s].account = a
    BY <2>1, <2>2 DEF IInv, TypeOK
  <2>3. CASE req[s].account # a
    BY <2>1, <2>3 DEF IInv, TypeOK
  <2>4. QED
    BY <2>2, <2>3
<1>4. QED
  BY <1>1, <1>2, <1>3 DEF IInv

(* No step of the account handlers uncovers a row.                         *)
LEMMA NextKeepsCover ==
  ASSUME IInv, Next, NEW a \in Accounts, NEW b \in Row, Covers(a, child[a], b)
  PROVE  Covers(a, child'[a], b)
<1>1. ASSUME NEW r \in Requests, NEW c \in Accounts, NEW op \in Ops,
             GetAccount(r, c, op)
      PROVE  Covers(a, child'[a], b)
  BY <1>1 DEF GetAccount, dbVars
<1>2. ASSUME NEW r \in Requests, IsWorking(r), Commit(r)
      PROVE  Covers(a, child'[a], b)
  <2>1. /\ req[r].account \in Accounts /\ req[r].op \in Op
        /\ child \in [Accounts -> Child]
    BY <1>2, WorkingType DEF IInv, TypeOK
  <2>2. child' = [child EXCEPT ![req[r].account] = Inserted(child[req[r].account], req[r].op)]
    BY <1>2 DEF Commit
  <2>3. CASE req[r].account = a
    <3>1. child'[a] = Inserted(child[a], req[r].op) /\ child[a] \in Child
      BY <2>1, <2>2, <2>3
    <3>2. QED
      BY <2>1, <3>1, InsertKeepsCover
  <2>4. CASE req[r].account # a
    BY <2>1, <2>2, <2>4
  <2>5. QED
    BY <2>3, <2>4
<1>3. QED
  BY <1>1, <1>2 DEF Next, UpdateAccountStatus, LogContactAttempt, RecordPayment
-------------------------------------------------------------------------------
(* What waits for a draft has passed the preflight check by its flags.     *)
DraftsPassed ==
  \A o \in Outreaches: outreach[o].phase = "drafting"
                         => PreflightPasses(outreach[o].channel, outreach[o].flags)

(* The inductive invariant: the ledger's, with the copies that wait for a  *)
(* draft covered like those of the requests, and the halves of the         *)
(* compliance check joined by DraftsPassed.                                *)
OutreachInv == /\ outreach \in [Outreaches -> {Idle} \union Drafting \union Answered]
               /\ DraftsCovered
               /\ DraftsPassed
               /\ LawfulWhenLoaded
ApiInv == IInv /\ flags \in [Accounts -> SUBSET Flags] /\ OutreachInv

LEMMA DraftingType ==
  ASSUME ApiInv, NEW o \in Outreaches, outreach[o].phase = "drafting"
  PROVE  /\ outreach[o] \in Drafting
         /\ outreach[o].account \in Accounts
         /\ outreach[o].loaded \in Row
         /\ outreach[o].flags \in SUBSET Flags
         /\ outreach[o].channel \in Channels
         /\ Covers(outreach[o].account, child[outreach[o].account], outreach[o].loaded)
         /\ PreflightPasses(outreach[o].channel, outreach[o].flags)
<1>1. outreach[o] \in Drafting
  BY DEF ApiInv, OutreachInv, Idle, Answered
<1>2. QED
  BY <1>1 DEF Drafting, ApiInv, OutreachInv, DraftsCovered, DraftsPassed

(* One outreach moves on: what must be shown of its new state.             *)
Good(rows, x) ==
  /\ x \in {Idle} \union Drafting \union Answered
  /\ x.phase = "drafting" => /\ Covers(x.account, rows[x.account], x.loaded)
                             /\ PreflightPasses(x.channel, x.flags)
  /\ x.phase = "answered" /\ x.status = "sent"
       => Lawful(x.channel, x.text, x.flagsLoaded) /\ x.hour \in 8..21

KeepsCover == \A a \in Accounts, b \in Row:
                Covers(a, child[a], b) => Covers(a, child'[a], b)

LEMMA OutreachesStayGood ==
  ASSUME ApiInv, KeepsCover, NEW o \in Outreaches
  PROVE  Good(child', outreach[o])
<1>1. outreach[o] \in {Idle} \union Drafting \union Answered
  BY DEF ApiInv, OutreachInv
<1>2. outreach[o].phase = "drafting" =>
        /\ Covers(outreach[o].account, child'[outreach[o].account], outreach[o].loaded)
        /\ PreflightPasses(outreach[o].channel, outreach[o].flags)
  BY DraftingType DEF KeepsCover
<1>3. outreach[o].phase = "answered" /\ outreach[o].status = "sent" =>
        /\ Lawful(outreach[o].channel, outreach[o].text, outreach[o].flagsLoaded)
        /\ outreach[o].hour \in 8..21
  BY DEF ApiInv, OutreachInv, LawfulWhenLoaded, Sent
<1>4. QED
  BY <1>1, <1>2, <1>3 DEF Good

(* A step that leaves the outreaches alone, or moves one to a good state.  *)
LEMMA GoodStep ==
  ASSUME ApiInv, KeepsCover,
         \/ outreach' = outreach
         \/ \E o \in Outreaches:
              \E x: Good(child', x) /\ outreach' = [outreach EXCEPT ![o] = x]
  PROVE  OutreachInv'
<1>1. outreach \in [Outreaches -> {Idle} \union Drafting \union Answered]
  BY DEF ApiInv, OutreachInv
<1>2. \A o \in Outreaches: Good(child', outreach'[o])
  BY <1>1, OutreachesStayGood
<1>3. outreach' \in [Outreaches -> {Idle} \union Drafting \union Answered]
  BY <1>1 DEF Good
<1>4. QED
  BY <1>2, <1>3
     DEF OutreachInv, DraftsCovered, DraftsPassed, LawfulWhenLoaded, Sent, Good

(* The preflight and the guard together ask what the law asks.             *)
LEMMA ChecksAreLawful ==
  ASSUME NEW text, NEW channel, NEW fs, NEW attempts, NEW days, NEW hour \in Hours,
         PreflightPasses(channel, fs),
         OutreachPasses(text, channel, fs, attempts, days, hour)
  PROVE  Lawful(channel, text, fs) /\ hour \in 8..21
<1>1. hour \in 0..23 /\ hour # NoTime
  BY OutreachAssumption DEF NoTime
<1>2. hour \in 8..21
  BY <1>1 DEF OutreachPasses, HourPasses
<1>3. Lawful(channel, text, fs)
  BY DEF Lawful, PreflightPasses, OutreachPasses, FlagsPass, TextPasses, DisputePasses
<1>4. QED
  BY <1>2, <1>3

LEMMA AnswerType ==
  ASSUME ApiInv, NEW d, d.account \in Accounts, d.channel \in Channels,
         d.flags \in SUBSET Flags,
         NEW status \in {"blocked", "error", "approved", "sent"},
         NEW text \in Texts \union {{}}, NEW hour \in Hours \union {NoTime}
  PROVE  /\ Answer(d, status, text, hour) \in Answered
         /\ status # "sent" => Good(child', Answer(d, status, text, hour))
<1>1. Answer(d, status, text, hour) \in Answered
  BY DEF Answer, Answered, ApiInv
<1>2. QED
  BY <1>1 DEF Good, Answer
-------------------------------------------------------------------------------
LEMMA StartStep ==
  ASSUME ApiInv, NEW o \in Outreaches, NEW a \in Accounts, NEW channel \in Channels,
         NEW dry \in BOOLEAN, StartOutreach(o, a, channel, dry)
  PROVE  ApiInv'
<1> DEFINE d == [phase |-> "drafting", account |-> a, channel |-> channel,
                 dry_run |-> dry, loaded |-> acct[a], flags |-> flags[a]]
           x == IF PreflightPasses(channel, d.flags)
                THEN d ELSE Answer(d, "blocked", {}, NoTime)
<1>1. /\ outreach' = [outreach EXCEPT ![o] = x]
      /\ acct' = acct /\ child' = child /\ req' = req /\ flags' = flags
  BY DEF StartOutreach, vars
<1>2. d \in Drafting
  BY DEF ApiInv, IInv, TypeOK, Drafting
<1>3. Covers(a, child[a], acct[a])
  BY DEF ApiInv, IInv, RollupsNeverExceedRows
<1>4. Good(child', x)
  <2>1. CASE PreflightPasses(channel, d.flags)
    BY <1>1, <1>2, <1>3, <2>1 DEF Good
  <2>2. CASE ~PreflightPasses(channel, d.flags)
    <3>1. d.account \in Accounts /\ d.channel \in Channels /\ d.flags \in SUBSET Flags
      BY <1>2 DEF Drafting
    <3> HIDE DEF d
    <3>2. QED
      BY <2>2, <3>1, AnswerType
  <2>3. QED
    BY <2>1, <2>2
<1>5. OutreachInv'
  <2> HIDE DEF x
  <2> QED BY <1>1, <1>4, GoodStep DEF KeepsCover
<1>6. IInv'
  BY <1>1, NextIInv DEF vars, ApiInv
<1>7. QED
  BY <1>1, <1>5, <1>6 DEF ApiInv

(* An outreach ends without a change of the row: it adds at most an event. *)
LEMMA EndStep ==
  ASSUME ApiInv, NEW o \in Outreaches, outreach[o].phase = "drafting",
         NEW status \in {"blocked", "error", "approved"},
         NEW text \in Texts \union {{}}, NEW hour \in Hours \union {NoTime},
         outreach' = [outreach EXCEPT ![o] = Answer(outreach[o], status, text, hour)],
         \/ child' = child
         \/ child' = [child EXCEPT ![outreach[o].account].events = @ + 1],
         acct' = acct, req' = req, flags' = flags
  PROVE  ApiInv'
<1> DEFINE a == outreach[o].account
<1>0. a \in Accounts /\ child[a] \in Child /\ acct[a] \in Row
  BY DraftingType DEF ApiInv, IInv, TypeOK
<1>1. Good(child', Answer(outreach[o], status, text, hour))
  BY DraftingType, AnswerType
<1>2. CASE child' = child
  <2>1. IInv'
    BY <1>2, NextIInv DEF vars, ApiInv
  <2>2. OutreachInv'
    BY <1>1, <1>2, GoodStep DEF KeepsCover
  <2>3. QED
    BY <2>1, <2>2 DEF ApiInv
<1>3. CASE child' = [child EXCEPT ![outreach[o].account].events = @ + 1]
  <2> DEFINE rows == [child[a] EXCEPT !.events = @ + 1]
  <2>1. rows \in Child /\ child' = [child EXCEPT ![a] = rows]
    BY <1>0, <1>3 DEF Child
  <2>2. rows.contacts = child[a].contacts /\ rows.completed = child[a].completed
    BY <1>0 DEF Child
  <2>3. \A b \in Row: Covers(a, child[a], b) => Covers(a, rows, b)
    BY <2>2 DEF Covers
  <2>4. acct' = [acct EXCEPT ![a] = acct[a]]
    BY <1>0 DEF ApiInv, IInv, TypeOK
  <2> HIDE DEF rows, a
  <2>5. IInv'
    <3>1. Covers(a, rows, acct[a])
      BY <1>0, <2>3 DEF ApiInv, IInv, RollupsNeverExceedRows
    <3>2. QED
      BY <1>0, <2>1, <2>3, <2>4, <3>1, WriteKeepsIInv DEF ApiInv
  <2>6. KeepsCover
    BY <1>0, <2>1, <2>3 DEF KeepsCover, ApiInv, IInv, TypeOK
  <2>7. OutreachInv'
    BY <1>1, <2>6, GoodStep
  <2>8. QED
    BY <2>5, <2>7 DEF ApiInv
<1>4. QED
  BY <1>2, <1>3

LEMMA SendStep ==
  ASSUME ApiInv, NEW o \in Outreaches, NEW text \in Texts, NEW hour \in Hours,
         SendOutreach(o, text, hour)
  PROVE  ApiInv'
<1> DEFINE d == outreach[o]
           a == d.account
           op == [kind |-> "contact", compliant |-> TRUE]
           row == Flushed(acct[a], d.loaded, Assigned(d.loaded, op))
           rows == Inserted(child[a], op)
<1>1. d.phase = "drafting" /\ ~d.dry_run /\ Verdict(d, text, hour)
  BY DEF SendOutreach
<1>2. /\ a \in Accounts /\ d.loaded \in Row /\ op \in Op
      /\ child \in [Accounts -> Child] /\ acct \in [Accounts -> Row]
  BY <1>1, DraftingType DEF Op, ContactOp, ApiInv, IInv, TypeOK
<1>3. /\ Assigned(d.loaded, op) = Touched(d.loaded)
      /\ rows = [child[a] EXCEPT !.contacts = @ + 1]
  <2>1. One(~op.compliant) = 0
    BY DEF One
  <2>2. rows = [child[a] EXCEPT !.contacts = @ + 1, !.events = @ + 0]
    BY <2>1 DEF Inserted
  <2>3. child[a] \in Child
    BY <1>2
  <2>4. rows = [child[a] EXCEPT !.contacts = @ + 1]
    <3> DEFINE c == child[a]
    <3>1. c.events + 0 = c.events /\ c \in Child
      BY <2>3 DEF Child
    <3>2. [c EXCEPT !.contacts = @ + 1, !.events = c.events] = [c EXCEPT !.contacts = @ + 1]
      <4> HIDE DEF c
      <4> QED BY <3>1 DEF Child
    <3>3. QED
      BY <2>2, <3>1, <3>2
  <2>5. Assigned(d.loaded, op) = Touched(d.loaded)
    BY DEF Assigned
  <2>6. QED
    BY <2>4, <2>5
<1>4. /\ acct' = [acct EXCEPT ![a] = row]
      /\ child' = [child EXCEPT ![a] = rows]
      /\ req' = req /\ flags' = flags
      /\ outreach' = [outreach EXCEPT ![o] = Answer(d, "sent", text, hour)]
  BY <1>2, <1>3 DEF SendOutreach
<1>5. row \in Row /\ rows \in Child /\ Assigned(d.loaded, op) \in Row
  BY <1>2, AssignedType, FlushedType, InsertedType
<1>6. \A b \in Row: Covers(a, child[a], b) => Covers(a, rows, b)
  BY <1>2, InsertKeepsCover
<1>7. Covers(a, rows, row)
  <2>1. Covers(a, child[a], d.loaded) /\ Covers(a, child[a], acct[a])
    BY <1>1, <1>2, DraftingType DEF ApiInv, IInv, RollupsNeverExceedRows
  <2>2. Covers(a, rows, Assigned(d.loaded, op)) /\ Covers(a, rows, acct[a])
    BY <1>2, <1>6, <2>1, AssignedCovered
  <2>3. QED
    BY <1>2, <1>5, <2>2, FlushCovered
<1>8. Good(child', Answer(d, "sent", text, hour))
  <2>1. Answer(d, "sent", text, hour) \in Answered
    BY <1>1, DraftingType, AnswerType
  <2>2. Lawful(d.channel, text, d.flags) /\ hour \in 8..21
    BY <1>1, DraftingType, ChecksAreLawful DEF Verdict
  <2>3. QED
    BY <2>1, <2>2 DEF Good, Answer
<1> HIDE DEF d, a, op, row, rows
<1>9. IInv'
  BY <1>2, <1>4, <1>5, <1>6, <1>7, WriteKeepsIInv DEF ApiInv
<1>10. KeepsCover
  BY <1>2, <1>4, <1>6 DEF KeepsCover
<1>11. OutreachInv'
  BY <1>4, <1>8, <1>10, GoodStep
<1>12. QED
  BY <1>4, <1>9, <1>11 DEF ApiInv

LEMMA ApiNextInv == ApiInv /\ [ApiNext]_apiVars => ApiInv'
<1> SUFFICES ASSUME ApiInv, [ApiNext]_apiVars PROVE ApiInv'
  OBVIOUS
<1>1. CASE Next /\ UNCHANGED <<flags, outreach>>
  <2>1. IInv'
    BY <1>1, NextIInv DEF ApiInv
  <2>2. KeepsCover
    BY <1>1, NextKeepsCover DEF KeepsCover, ApiInv
  <2>3. OutreachInv'
    BY <1>1, <2>2, GoodStep
  <2>4. QED
    BY <1>1, <2>1, <2>3 DEF ApiInv
<1>2. ASSUME NEW o \in Outreaches, NEW a \in Accounts, NEW channel \in Channels,
             NEW dry \in BOOLEAN, StartOutreach(o, a, channel, dry)
      PROVE  ApiInv'
  BY <1>2, StartStep
<1>3. ASSUME NEW o \in Outreaches, NEW status \in {"error", "blocked"},
             AbandonOutreach(o, status)
      PROVE  ApiInv'
  BY <1>3, EndStep DEF AbandonOutreach, vars
<1>4. ASSUME NEW o \in Outreaches, NEW text \in Texts, NEW hour \in Hours,
             BlockOutreach(o, text, hour)
      PROVE  ApiInv'
  BY <1>4, EndStep DEF BlockOutreach
<1>5. ASSUME NEW o \in Outreaches, NEW text \in Texts, NEW hour \in Hours,
             SendOutreach(o, text, hour)
      PROVE  ApiInv'
  BY <1>5, SendStep
<1>6. ASSUME NEW o \in Outreaches, NEW text \in Texts, NEW hour \in Hours,
             ApproveOutreach(o, text, hour)
      PROVE  ApiInv'
  BY <1>6, EndStep DEF ApproveOutreach, vars
<1>7. CASE UNCHANGED <<vars, outreach>>
           /\ flags' \in [Accounts -> SUBSET Flags]
  <2>1. IInv'
    BY <1>7, NextIInv DEF ApiInv
  <2>2. OutreachInv'
    BY <1>7, GoodStep DEF KeepsCover, vars
  <2>3. QED
    BY <1>7, <2>1, <2>2 DEF ApiInv
<1>8. ASSUME NEW a \in Accounts, NEW f \in Raisable, RaiseFlag(a, f)
      PROVE  ApiInv'
  BY <1>7, <1>8, OutreachAssumption DEF RaiseFlag, ApiInv
<1>9. CASE UNCHANGED apiVars
  BY <1>7, <1>9 DEF apiVars, ApiInv
<1>10. QED
  BY <1>1, <1>2, <1>3, <1>4, <1>5, <1>6, <1>8, <1>9 DEF ApiNext

LEMMA ApiInitInv == ApiInit => ApiInv
<1> SUFFICES ASSUME ApiInit PROVE ApiInv
  OBVIOUS
<1>1. IInv
  BY InitIInv DEF ApiInit
<1>2. flags \in [Accounts -> SUBSET Flags]
  BY OutreachAssumption DEF ApiInit
<1>3. OutreachInv
  BY DEF ApiInit, Idle, OutreachInv, DraftsCovered, DraftsPassed, LawfulWhenLoaded, Sent
<1>4. QED
  BY <1>1, <1>2, <1>3 DEF ApiInv

(* Every reachable state is well typed.                                    *)
THEOREM ApiTypeCorrect == ApiSpec => []ApiTypeOK
<1>1. ApiInv => ApiTypeOK
  BY DEF ApiInv, IInv, OutreachInv, ApiTypeOK
<1>2. QED
  BY ApiInitInv, ApiNextInv, <1>1, PTL DEF ApiSpec

(* Whatever the model drafts and whatever is raised meanwhile, nothing is  *)
(* sent that the flags loaded with the account forbid, or out of hours.    *)
THEOREM SendsAreLawful == ApiSpec => []LawfulWhenLoaded
<1>1. ApiInv => LawfulWhenLoaded
  BY DEF ApiInv, OutreachInv
<1>2. QED
  BY ApiInitInv, ApiNextInv, <1>1, PTL DEF ApiSpec

(* With outreaches that write back a row they held over the wait for the   *)
(* draft, the rollups still count nothing that was not recorded.           *)
THEOREM ApiRollupsBounded ==
  ApiSpec => [](RollupsNeverExceedRows /\ LoadedCovered /\ DraftsCovered)
<1>1. ApiInv => RollupsNeverExceedRows /\ LoadedCovered /\ DraftsCovered
  BY DEF ApiInv, IInv, OutreachInv
<1>2. QED
  BY ApiInitInv, ApiNextInv, <1>1, PTL DEF ApiSpec

(* An outreach writes back no money column, however old the row it holds,  *)
(* so beside the outreaches too only completed payments move money.        *)
LEMMA SendMovesNoMoney ==
  ASSUME ApiInv, NEW o \in Outreaches, NEW text \in Texts, NEW hour \in Hours,
         SendOutreach(o, text, hour), NEW a \in Accounts
  PROVE  acct'[a].balance = acct[a].balance /\ acct'[a].paid = acct[a].paid
<1> DEFINE d == outreach[o]
<1>1. d.account \in Accounts /\ d.loaded \in Row /\ acct \in [Accounts -> Row]
  BY DraftingType DEF SendOutreach, ApiInv, IInv, TypeOK
<1>2. acct' = [acct EXCEPT ![d.account] =
                 Flushed(acct[d.account], d.loaded, Touched(d.loaded))]
  BY DEF SendOutreach
<1>3. /\ Touched(d.loaded).balance = d.loaded.balance
      /\ Touched(d.loaded).paid = d.loaded.paid
  BY <1>1 DEF Touched, Row
<1> HIDE DEF d
<1>4. CASE a = d.account
  BY <1>1, <1>2, <1>3, <1>4 DEF Flushed, Column
<1>5. CASE a # d.account
  BY <1>1, <1>2, <1>5
<1>6. QED
  BY <1>4, <1>5

THEOREM ApiMoneyMoves == ApiSpec => MoneyMovesOnlyWithPayments
<1> DEFINE Claim == \A a \in Accounts:
                      acct'[a].balance # acct[a].balance \/ acct'[a].paid # acct[a].paid
                        => child'[a].completed > child[a].completed
<1>1. ASSUME ApiInv, [ApiNext]_apiVars PROVE [Claim]_vars
  <2>1. CASE Next
    BY <1>1, <2>1, NextMovesMoney DEF ApiInv
  <2>2. ASSUME NEW o \in Outreaches, NEW text \in Texts, NEW hour \in Hours,
               SendOutreach(o, text, hour)
        PROVE  Claim
    BY <1>1, <2>2, SendMovesNoMoney
  <2>3. CASE acct' = acct
    BY <2>3
  <2>4. acct' = acct \/ Next \/ \E o \in Outreaches, text \in Texts, hour \in Hours:
                                   SendOutreach(o, text, hour)
    BY <1>1 DEF ApiNext, apiVars, vars, StartOutreach, AbandonOutreach, BlockOutreach,
                ApproveOutreach, RaiseFlag
  <2> HIDE DEF Claim
  <2>5. QED
    BY <2>1, <2>2, <2>3, <2>4
<1>2. QED
  <2> HIDE DEF Claim
  <2>1. ApiSpec => [][Claim]_vars
    BY ApiInitInv, ApiNextInv, <1>1, PTL DEF ApiSpec
  <2>2. QED
    BY <2>1 DEF Claim, MoneyMovesOnlyWithPayments
===============================================================================
