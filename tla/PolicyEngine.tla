----------------------------- MODULE PolicyEngine -----------------------------
(***************************************************************************)
(* evaluate() of the policy-engine plugin: one tool call is judged by the  *)
(* configured policies, in order.  A policy that the call breaks is noted  *)
(* as a violation; it then blocks the call, or, a numeric cap that may     *)
(* modify, lowers the argument and lets the call through at once, or has   *)
(* no effect.  executeTool merges what was lowered into the arguments.     *)
(***************************************************************************)
EXTENDS Integers, Sequences, FiniteSets

CONSTANTS
  Policies,      \* policies a configuration may list, all of them enabled
  MaxPolicies,   \* bound: length of a configuration
  Tools, Fields, Names,
  MaxNumber,     \* bound: numeric arguments
  Absent           \* an argument that is missing or null

Numbers == 0 .. MaxNumber
Arguments == [Fields -> Names \cup Numbers \cup {Absent}]
Hours == 0 .. 23

ASSUME PolicyAssumption ==
  /\ MaxPolicies \in Nat /\ MaxNumber \in Nat
  /\ Names \cap Numbers = {} /\ Absent \notin Names \cup Numbers
  /\ \A p \in Policies :
       /\ p.tools \subseteq Tools /\ p.action \in {"block", "modify"}
       /\ \/ p.type = "allowlist" /\ p.field \in Fields /\ p.allowlist \subseteq Names
          \/ p.type = "max_value" /\ p.field \in Fields /\ p.max \in Numbers
          \/ p.type = "time_restriction" /\ p.start \in Hours /\ p.end \in Hours
          \/ p.type = "required_field" /\ p.fields \subseteq Fields

VARIABLES
  policies,     \* config.policies
  tool,         \* the call: its tool,
  args,         \* its arguments,
  hour,         \* and the hour it is made at
  next,         \* the policy to look at next
  verdict,      \* "pending", then "allow" or "block"
  cap,          \* the position of the policy that modified the call, or 0
  violations    \* the positions of the policies noted as violated

policyVars == <<policies, tool, args, hour, next, verdict, cap, violations>>

PolicyInit ==
  /\ policies \in UNION {[1 .. n -> Policies] : n \in 0 .. MaxPolicies}
  /\ tool \in Tools /\ args \in Arguments /\ hour \in Hours
  /\ next = 1 /\ verdict = "pending" /\ cap = 0 /\ violations = {}

-------------------------------------------------------------------------------
(* Faulty variants, see AcpMerchant. *)

OutsideHours_StartExcluded(p) == hour <= p.start \/ hour >= p.end
CapTo_OneMore(p) == p.max + 1

-------------------------------------------------------------------------------
(* The evaluation. *)

OutsideHours(p) == hour < p.start \/ hour >= p.end

\* The call breaks policy p.
Breaks(p) ==
  CASE p.type = "allowlist" -> args[p.field] \in Names \ p.allowlist
    [] p.type = "max_value" -> args[p.field] \in Numbers /\ args[p.field] > p.max
    [] p.type = "time_restriction" -> OutsideHours(p)
    [] p.type = "required_field" -> \E f \in p.fields : args[f] = Absent

Here == policies[next]

Judging == verdict = "pending" /\ next \in DOMAIN policies

Broken == tool \in Here.tools /\ Breaks(Here)

NextPolicy == next + 1

Skip ==
  /\ Judging
  /\ ~Broken
  /\ next' = NextPolicy
  /\ UNCHANGED <<policies, tool, args, hour, verdict, cap, violations>>

\* A "modify" policy that is no cap only notes the violation.
Note ==
  /\ Judging
  /\ Broken /\ Here.action = "modify" /\ Here.type # "max_value"
  /\ violations' = violations \cup {next}
  /\ next' = NextPolicy
  /\ UNCHANGED <<policies, tool, args, hour, verdict, cap>>

Block ==
  /\ Judging
  /\ Broken /\ Here.action = "block"
  /\ violations' = violations \cup {next}
  /\ verdict' = "block"
  /\ UNCHANGED <<policies, tool, args, hour, next, cap>>

CapTo(p) == p.max

\* return { allow: true, modifiedArgs }, whatever policies are left.
Cap ==
  /\ Judging
  /\ Broken /\ Here.action = "modify" /\ Here.type = "max_value"
  /\ violations' = violations \cup {next}
  /\ verdict' = "allow"
  /\ cap' = next
  /\ args' = [args EXCEPT ![Here.field] = CapTo(Here)]
  /\ UNCHANGED <<policies, tool, hour, next>>

Allow ==
  /\ verdict = "pending" /\ next \notin DOMAIN policies
  /\ verdict' = "allow"
  /\ UNCHANGED <<policies, tool, args, hour, next, cap, violations>>

PolicyNext == Skip \/ Note \/ Block \/ Cap \/ Allow

PolicySpec == PolicyInit /\ [][PolicyNext]_policyVars

-------------------------------------------------------------------------------
(* What the policies mean, each by itself. *)

\* The call is one that policy p is content with.
Accepts(p) ==
  tool \in p.tools =>
    /\ p.type = "allowlist" /\ args[p.field] \in Names => args[p.field] \in p.allowlist
    /\ p.type = "max_value" /\ args[p.field] \in Numbers => args[p.field] <= p.max
    /\ p.type = "time_restriction" => hour \in p.start .. p.end - 1
    /\ p.type = "required_field" => \A f \in p.fields : args[f] # Absent

Blocking == {i \in DOMAIN policies : policies[i].action = "block"}

-------------------------------------------------------------------------------
(* Properties *)

\* Type invariant of the evaluation.
PolicyTypeOK ==
  /\ policies \in Seq(Policies) /\ tool \in Tools /\ args \in Arguments
  /\ hour \in Hours
  /\ next \in 1 .. Len(policies) + 1 /\ verdict \in {"pending", "allow", "block"}
  /\ cap \in {0} \cup DOMAIN policies /\ violations \subseteq DOMAIN policies

\* Unless a cap cut the evaluation short, the verdict is what the set of policies
\* says, in whatever order they are listed: allowed exactly when every blocking
\* policy accepts the call, and then the violations noted are all there are.
VerdictIsWhatPoliciesSay ==
  verdict # "pending" /\ cap = 0 =>
    /\ verdict = "allow" <=> \A i \in Blocking : Accepts(policies[i])
    /\ verdict = "allow" => violations = {i \in DOMAIN policies : ~Accepts(policies[i])}

\* A capped call is one that every policy before the cap lets pass, and the cap
\* itself accepts it as modified.
CappedCallsFit ==
  cap # 0 =>
    /\ verdict = "allow" /\ Accepts(policies[cap])
    /\ \A i \in Blocking : i < cap => Accepts(policies[i])

\* A call that is allowed breaks no policy that blocks.
AllowedCallsFit ==
  verdict = "allow" => \A i \in Blocking : Accepts(policies[i])
===============================================================================
