------------------------------ MODULE RecoveryApi ------------------------------
(***************************************************************************)
(* The outreach endpoint of api/recovery_router.py, beside the account     *)
(* handlers.  It is a coroutine: it loads the account, copies it to a      *)
(* dictionary, waits for the language model to draft a message, and only   *)
(* then checks the draft against the dictionary and records the contact on *)
(* the account object it loaded at the start.                              *)
(***************************************************************************)
EXTENDS AccountLedger, ComplianceGuard

CONSTANTS Outreaches,      \* the outreach requests, each served once
          Texts,           \* what the language model may draft
          Hours,           \* the hours (UTC) at which a draft may come back
          InitialFlags,    \* the flags an account may start with
          Raisable         \* the flags that may be raised while requests run

ASSUME OutreachAssumption == /\ Texts \subseteq SUBSET Features
                             /\ Hours \subseteq 0..23
                             /\ InitialFlags \subseteq SUBSET Flags
                             /\ Raisable \subseteq Flags

VARIABLES flags,       \* flags[a]: the compliance flags of account a's row
          outreach     \* outreach[o]: how far outreach o has got

apiVars == <<vars, flags, outreach>>

Idle     == [phase |-> "idle"]
Drafting == [phase: {"drafting"}, account: Accounts, channel: Channels,
             dry_run: BOOLEAN, loaded: Row, flags: SUBSET Flags]
Answered == [phase: {"answered"}, account: Accounts, channel: Channels,
             status: {"blocked", "error", "approved", "sent"},
             text: Texts \union {{}}, hour: Hours \union {NoTime},
             flagsLoaded: SUBSET Flags, flagsAtEnd: SUBSET Flags]

ApiTypeOK == /\ TypeOK
             /\ flags \in [Accounts -> SUBSET Flags]
             /\ outreach \in [Outreaches -> {Idle} \union Drafting \union Answered]

ApiInit == /\ Init
           /\ flags \in [Accounts -> InitialFlags]
           /\ outreach = [o \in Outreaches |-> Idle]

(* Mutant: the status of a message stays what the draft said.              *)
AnswerAsDrafted(d, status, text, hour) ==
  [phase |-> "answered", account |-> d.account, channel |-> d.channel,
   status |-> d.phase, text |-> text, hour |-> hour,
   flagsLoaded |-> d.flags, flagsAtEnd |-> flags[d.account]]

(* The answer to the request d, with what held when it was loaded and what *)
(* holds as it is given.                                                   *)
Answer(d, status, text, hour) ==
  [phase |-> "answered", account |-> d.account, channel |-> d.channel,
   status |-> status, text |-> text, hour |-> hour,
   flagsLoaded |-> d.flags, flagsAtEnd |-> flags[d.account]]

(* Up to the wait: the load, the dictionary and the preflight check.  A    *)
(* preflight block answers at once and writes nothing.                     *)
StartOutreach(o, a, channel, dry) ==
  /\ outreach[o] = Idle
  /\ LET d == [phase |-> "drafting", account |-> a, channel |-> channel,
               dry_run |-> dry, loaded |-> acct[a], flags |-> flags[a]]
     IN  outreach' = [outreach EXCEPT ![o] =
           IF PreflightPasses(channel, d.flags) THEN d
                                                ELSE Answer(d, "blocked", {}, NoTime)]
  /\ UNCHANGED <<vars, flags>>

(* The model call raises, or the model itself answers "block": nothing is  *)
(* written.                                                                *)
AbandonOutreach(o, status) ==
  /\ outreach[o].phase = "drafting"
  /\ outreach' = [outreach EXCEPT ![o] = Answer(@, status, {}, NoTime)]
  /\ UNCHANGED <<vars, flags>>

(* _account_to_dict has no days_since_first_contact, and the guard takes   *)
(* the missing key for 0.                                                  *)
DaysSinceFirst(loaded) == 0

Verdict(d, text, hour) ==
  OutreachPasses(text, d.channel, d.flags, d.loaded.attempts,
                 DaysSinceFirst(d.loaded), IF d.dry_run THEN NoTime ELSE hour)

(* The draft has come back.  Blocked by the guard: a compliance event.     *)
BlockOutreach(o, text, hour) ==
  LET d == outreach[o] IN
  /\ d.phase = "drafting"
  /\ ~Verdict(d, text, hour)
  /\ child' = [child EXCEPT ![d.account].events = @ + 1]
  /\ outreach' = [outreach EXCEPT ![o] = Answer(d, "blocked", text, hour)]
  /\ UNCHANGED <<acct, req, flags>>

(* Mutant: the account is updated, but the attempt is not inserted.        *)
SendOutreachUnlogged(o, text, hour) ==
  LET d == outreach[o] IN
  /\ d.phase = "drafting"
  /\ ~d.dry_run
  /\ Verdict(d, text, hour)
  /\ acct' = [acct EXCEPT ![d.account] = Flushed(@, d.loaded, Touched(d.loaded))]
  /\ outreach' = [outreach EXCEPT ![o] = Answer(d, "sent", text, hour)]
  /\ UNCHANGED <<req, child, flags>>

(* Passed, and not a dry run: a contact attempt and the account's rollups, *)
(* flushed over the row as it is now.                                      *)
SendOutreach(o, text, hour) ==
  LET d == outreach[o] IN
  /\ d.phase = "drafting"
  /\ ~d.dry_run
  /\ Verdict(d, text, hour)
  /\ child' = [child EXCEPT ![d.account].contacts = @ + 1]
  /\ acct' = [acct EXCEPT ![d.account] = Flushed(@, d.loaded, Touched(d.loaded))]
  /\ outreach' = [outreach EXCEPT ![o] = Answer(d, "sent", text, hour)]
  /\ UNCHANGED <<req, flags>>

ApproveOutreach(o, text, hour) ==
  LET d == outreach[o] IN
  /\ d.phase = "drafting"
  /\ d.dry_run
  /\ Verdict(d, text, hour)
  /\ outreach' = [outreach EXCEPT ![o] = Answer(d, "approved", text, hour)]
  /\ UNCHANGED <<vars, flags>>

(* Someone raises a flag on an account's row.  No code in the repository   *)
(* does: the columns are set from outside.                                 *)
RaiseFlag(a, f) ==
  /\ flags' = [flags EXCEPT ![a] = @ \union {f}]
  /\ UNCHANGED <<vars, outreach>>

ApiNext ==
  \/ Next /\ UNCHANGED <<flags, outreach>>
  \/ \E o \in Outreaches:
       \/ \E a \in Accounts, channel \in Channels, dry \in BOOLEAN:
            StartOutreach(o, a, channel, dry)
       \/ \E status \in {"error", "blocked"}: AbandonOutreach(o, status)
       \/ \E text \in Texts, hour \in Hours:
            \/ BlockOutreach(o, text, hour)
            \/ SendOutreach(o, text, hour)
            \/ ApproveOutreach(o, text, hour)
  \/ \E a \in Accounts, f \in Raisable: RaiseFlag(a, f)

ApiSpec == ApiInit /\ [][ApiNext]_apiVars

-------------------------------------------------------------------------------
Sent == {o \in Outreaches: outreach[o].phase = "answered"
                           /\ outreach[o].status = "sent"}

(* What the law asks of a message to a debtor with these flags.            *)
Lawful(channel, text, fs) ==
  /\ fs \intersect {"deceased", "bankruptcy", "attorney", "statute"} = {}
  /\ channel \in {"sms", "voice"} => "do_not_call" \notin fs
  /\ channel = "email" => "do_not_email" \notin fs
  /\ channel = "mail"  => "do_not_mail" \notin fs
  /\ "mini_miranda" \in text
  /\ text \intersect {"threat", "false_representation"} = {}
  /\ "disputed" \in fs => "validation" \in text

(* Whatever the model drafts, no message is sent that the law forbids by   *)
(* the flags that were loaded with the account, nor outside the hours of   *)
(* contact (by the clock of the server).  Neither check suffices alone:    *)
(* only the preflight keeps SMS from a do-not-call debtor, only the guard  *)
(* looks at voice and at the statute of limitations.                       *)
LawfulWhenLoaded ==
  \A o \in Sent: /\ Lawful(outreach[o].channel, outreach[o].text, outreach[o].flagsLoaded)
                 /\ outreach[o].hour \in 8..21

(* compliance_guard.py:12: "false negatives (allowing non-compliant        *)
(* actions) are not" acceptable; so by the flags at the time of sending.   *)
LawfulWhenSent ==
  \A o \in Sent: Lawful(outreach[o].channel, outreach[o].text, outreach[o].flagsAtEnd)

(* A copy of the row that waits for a draft is still covered by the child  *)
(* rows when the draft is back, so writing it over the row is safe for the *)
(* bounds of AccountLedger!RollupsNeverExceedRows.                         *)
DraftsCovered ==
  \A o \in Outreaches:
    outreach[o].phase = "drafting" =>
      Covers(outreach[o].account, child[outreach[o].account], outreach[o].loaded)
===============================================================================
