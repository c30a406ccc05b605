---------------------------- MODULE ComplianceGuard ----------------------------
(***************************************************************************)
(* The deterministic checks an outreach message must pass: the specialist's *)
(* preflight (agents/outreach_specialist.py), made before a message is     *)
(* drafted, and the guard (agents/compliance_guard.py), made on the draft. *)
(* A text is abstracted to the features the guard's patterns look for.     *)
(***************************************************************************)
EXTENDS Integers

CONSTANT CallLimit      \* REG_F_CALL_LIMIT

ASSUME CallLimitAssumption == CallLimit \in Nat

Channels == {"sms", "email", "voice", "mail", "digital"}
Flags    == {"deceased", "bankruptcy", "attorney", "statute", "disputed",
             "do_not_call", "do_not_email", "do_not_mail"}
Features == {"mini_miranda", "threat", "false_representation", "validation"}

(* Mutant: preflight looks at the channels the guard looks at.             *)
PreflightLikeGuard(channel, flags) ==
  /\ flags \intersect {"deceased", "bankruptcy", "attorney"} = {}
  /\ ~(channel = "voice" /\ "do_not_call"  \in flags)
  /\ ~(channel = "email" /\ "do_not_email" \in flags)
  /\ ~(channel = "mail"  /\ "do_not_mail"  \in flags)

(* _preflight_check: does it let a draft be made?                          *)
PreflightPasses(channel, flags) ==
  /\ flags \intersect {"deceased", "bankruptcy", "attorney"} = {}
  /\ ~(channel = "sms"   /\ "do_not_call"  \in flags)
  /\ ~(channel = "email" /\ "do_not_email" \in flags)
  /\ ~(channel = "mail"  /\ "do_not_mail"  \in flags)

(* _check_account_flags finds no violation.                                *)
FlagsPass(channel, flags) ==
  /\ flags \intersect {"bankruptcy", "deceased", "attorney", "statute"} = {}
  /\ ~(channel = "voice" /\ "do_not_call"  \in flags)
  /\ ~(channel = "email" /\ "do_not_email" \in flags)
  /\ ~(channel = "mail"  /\ "do_not_mail"  \in flags)

(* _has_mini_miranda, _check_threats and _check_false_representations.     *)
TextPasses(text) == "mini_miranda" \in text
                    /\ text \intersect {"threat", "false_representation"} = {}

(* _check_contact_hours.  Instants are taken on the hour, so hour 21 is    *)
(* 21:00 sharp, which the code still allows.                               *)
HourPasses(hour) == 8 <= hour /\ hour <= 21

DisputePasses(text, flags) == "disputed" \in flags => "validation" \in text

(* The contact-frequency check, which needs the days since first contact.  *)
FrequencyPasses(attempts, daysSinceFirst) ==
  daysSinceFirst \in 1..7 => attempts < CallLimit

(* check_outreach in strict mode, with a contact time or (hour = NoTime)   *)
(* without one, for the debtor as recipient.                               *)
NoTime == -1
OutreachPasses(text, channel, flags, attempts, daysSinceFirst, hour) ==
  /\ FlagsPass(channel, flags)
  /\ TextPasses(text)
  /\ hour # NoTime => HourPasses(hour)
  /\ DisputePasses(text, flags)
  /\ FrequencyPasses(attempts, daysSinceFirst)
===============================================================================
