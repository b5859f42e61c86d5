-------------------------- MODULE PolicyEngineProofs --------------------------
(***************************************************************************)
(* The verdict of evaluate(), for any policies of the four types, in lists *)
(* of any length, and any call.                                            *)
(***************************************************************************)
EXTENDS PolicyEngine, TLAPS

\* The positions of the policies that reject the call.
Rejecting == {i \in DOMAIN policies : ~Accepts(policies[i])}

\* The policies an evaluation that has come to `next` has looked at.
LookedAt == {i \in DOMAIN policies : i < next \/ (i = next /\ verdict = "block")}

\* The inductive invariant: the properties speak of the end, this of every policy
\* on the way.
EvaluationInv ==
  /\ PolicyTypeOK
  /\ \A i \in Blocking \cap Rejecting : next <= i
  /\ cap = 0 => violations = LookedAt \cap Rejecting
  /\ verdict = "pending" => cap = 0
  /\ verdict = "allow" /\ cap = 0 => next = Len(policies) + 1
  /\ verdict = "block" => cap = 0 /\ next \in Blocking \cap Rejecting
  /\ cap # 0 => verdict = "allow" /\ cap = next /\ next \notin Rejecting

\* The code tests whether a call breaks a policy, the property whether the policy
\* accepts it: one is the negation of the other.
LEMMA BreaksIsRejects ==
  ASSUME NEW p \in Policies, tool \in Tools, args \in Arguments, hour \in Hours
  PROVE  (tool \in p.tools /\ Breaks(p)) <=> ~Accepts(p)
<1> USE PolicyAssumption DEF PolicyAssumption, Arguments, Numbers, Hours,
      Breaks, OutsideHours, Accepts
<1>1. CASE p.type = "allowlist"
  BY <1>1
<1>2. CASE p.type = "max_value"
  BY <1>2
<1>3. CASE p.type = "time_restriction"
  BY <1>3
<1>4. CASE p.type = "required_field"
  BY <1>4
<1> QED
  BY <1>1, <1>2, <1>3, <1>4

\* Lowering a number to a cap breaks no policy that accepted the call, and the cap
\* accepts what it wrote.
LEMMA CappingIsAccepted ==
  ASSUME NEW p \in Policies, NEW q \in Policies, args \in Arguments,
         args' = [args EXCEPT ![q.field] = CapTo(q)],
         UNCHANGED <<tool, hour>>,
         q.type = "max_value", Breaks(q)
  PROVE  /\ Accepts(p) => Accepts(p)'
         /\ Accepts(q)'
<1> USE PolicyAssumption DEF PolicyAssumption, Arguments, Numbers, Hours,
      Breaks, Accepts, CapTo
<1>1. q.field \in Fields /\ q.max \in Numbers /\ args[q.field] \in Numbers
      /\ args[q.field] > q.max
  OBVIOUS
<1>2. args'[q.field] = q.max /\ \A f \in Fields \ {q.field} : args'[f] = args[f]
  BY <1>1
<1>3. Accepts(q)'
  BY <1>1, <1>2
<1>4. ASSUME Accepts(p) PROVE Accepts(p)'
  <2>1. CASE p.type = "allowlist"
    BY <1>1, <1>2, <1>4, <2>1
  <2>2. CASE p.type = "max_value"
    BY <1>1, <1>2, <1>4, <2>2
  <2>3. CASE p.type = "time_restriction"
    BY <1>4, <2>3
  <2>4. CASE p.type = "required_field"
    BY <1>1, <1>2, <1>4, <2>4
  <2> QED
    BY <2>1, <2>2, <2>3, <2>4
<1> QED
  BY <1>3, <1>4

\* The evaluation starts with no policy looked at and nothing decided.
LEMMA EvaluationInit == PolicyInit => EvaluationInv
<1> SUFFICES ASSUME PolicyInit PROVE EvaluationInv
  OBVIOUS
<1>1. policies \in Seq(Policies)
  BY DEF PolicyInit
<1>2. Len(policies) \in Nat /\ DOMAIN policies = 1 .. Len(policies)
  BY <1>1
<1>3. PolicyTypeOK
  BY <1>1, <1>2 DEF PolicyInit, PolicyTypeOK
<1> QED
  BY <1>2, <1>3 DEF PolicyInit, EvaluationInv, LookedAt, Blocking

\* A step adds what it finds at `next`, and only a cap changes what policies say.
LEMMA EvaluationNext == EvaluationInv /\ [PolicyNext]_policyVars => EvaluationInv'
<1> SUFFICES ASSUME EvaluationInv, [PolicyNext]_policyVars PROVE EvaluationInv'
  OBVIOUS
<1>0. /\ Len(policies) \in Nat /\ DOMAIN policies = 1 .. Len(policies)
      /\ next \in Nat
      /\ \A i \in DOMAIN policies : policies[i] \in Policies
  BY DEF EvaluationInv, PolicyTypeOK
<1>u. UNCHANGED <<policies, tool, args, hour>> =>
        Rejecting' = Rejecting /\ Blocking' = Blocking
  BY DEF Rejecting, Blocking, Accepts
<1>s. Rejecting \subseteq DOMAIN policies /\ Blocking \subseteq DOMAIN policies
  BY DEF Rejecting, Blocking
<1>j. ASSUME Judging
      PROVE  /\ Here \in Policies /\ Here = policies[next]
             /\ verdict = "pending" /\ cap = 0 /\ next \in DOMAIN policies
             /\ Broken <=> next \in Rejecting
             /\ Here.action = "block" <=> next \in Blocking
  <2>1. Here \in Policies /\ next \in DOMAIN policies
    BY <1>0, <1>j DEF Judging, Here
  <2>2. Broken <=> ~Accepts(Here)
    BY <2>1, BreaksIsRejects DEF Broken, EvaluationInv, PolicyTypeOK
  <2> QED
    BY <1>j, <2>1, <2>2 DEF Judging, Here, EvaluationInv, Rejecting, Blocking
<1> USE DEF EvaluationInv, PolicyTypeOK, LookedAt
<1>1. CASE Skip
  BY <1>0, <1>1, <1>j, <1>u, <1>s DEF Skip, NextPolicy
<1>2. CASE Note
  <2>1. Here.action # "block"
    BY <1>2 DEF Note
  <2> QED
    BY <1>0, <1>2, <2>1, <1>j, <1>u, <1>s DEF Note, NextPolicy
<1>3. CASE Block
  BY <1>0, <1>3, <1>j, <1>u, <1>s DEF Block
<1>4. CASE Cap
  <2>1. /\ Here \in Policies /\ Here = policies[next] /\ Breaks(Here)
        /\ Here.type = "max_value" /\ next \in DOMAIN policies
    BY <1>0, <1>4, <1>j DEF Cap, Broken
  <2>2. /\ cap' = next /\ next' = next /\ verdict' = "allow"
        /\ violations' = violations \cup {next}
        /\ UNCHANGED <<policies, tool, hour>>
        /\ args' = [args EXCEPT ![Here.field] = CapTo(Here)]
    BY <1>4 DEF Cap
  <2>3. ASSUME NEW i \in DOMAIN policies
        PROVE  (Accepts(policies[i]) => Accepts(policies[i])') /\ Accepts(policies[next])'
    <3>1. PICK p \in Policies, q \in Policies : p = policies[i] /\ q = policies[next]
      BY <1>0, <2>1
    <3>2. (Accepts(p) => Accepts(p)') /\ Accepts(q)'
      BY <2>1, <2>2, <3>1, CappingIsAccepted
    <3> QED
      BY <2>2, <3>1, <3>2 DEF Accepts
  <2>4. Rejecting' \subseteq Rejecting \ {next} /\ Blocking' = Blocking
    BY <2>1, <2>2, <2>3 DEF Rejecting, Blocking
  <2>5. args' \in Arguments
    BY <2>1, <2>2, PolicyAssumption
    DEF Arguments, Numbers, CapTo, PolicyAssumption
  <2> QED
    BY <1>0, <2>1, <2>2, <2>4, <2>5
<1>5. CASE Allow
  BY <1>0, <1>5, <1>u, <1>s DEF Allow
<1>6. CASE UNCHANGED policyVars
  BY <1>6, <1>u DEF policyVars
<1> QED
  BY <1>1, <1>2, <1>3, <1>4, <1>5, <1>6 DEF PolicyNext

\* EvaluationInv holds after any number of policies.
LEMMA EvaluationAlways == PolicySpec => []EvaluationInv
BY EvaluationInit, EvaluationNext, PTL DEF PolicySpec

\* Whatever policies are configured and in whatever order, a call that no cap
\* modified is allowed exactly when every blocking policy accepts it, and then what
\* was noted is every policy that rejects it.
THEOREM PoliciesDecide == PolicySpec => []VerdictIsWhatPoliciesSay
<1>1. EvaluationInv => VerdictIsWhatPoliciesSay
  <2> SUFFICES ASSUME EvaluationInv, verdict # "pending", cap = 0
               PROVE  /\ verdict = "allow" <=> Blocking \cap Rejecting = {}
                      /\ verdict = "allow" => violations = Rejecting
    BY DEF VerdictIsWhatPoliciesSay, Rejecting, Blocking
  <2>1. Len(policies) \in Nat /\ DOMAIN policies = 1 .. Len(policies)
    BY DEF EvaluationInv, PolicyTypeOK
  <2>2. Rejecting \subseteq DOMAIN policies /\ Blocking \subseteq DOMAIN policies
    BY DEF Rejecting, Blocking
  <2>3. CASE verdict = "allow"
    <3>1. LookedAt = DOMAIN policies /\ next = Len(policies) + 1
      BY <2>1, <2>3 DEF EvaluationInv, LookedAt
    <3>2. violations = Rejecting
      BY <2>2, <3>1 DEF EvaluationInv
    <3>3. Blocking \cap Rejecting = {}
      BY <2>1, <2>2, <3>1 DEF EvaluationInv
    <3> QED
      BY <2>3, <3>2, <3>3
  <2>4. CASE verdict = "block"
    BY <2>4 DEF EvaluationInv
  <2> QED
    BY <2>3, <2>4 DEF EvaluationInv, PolicyTypeOK
<1> QED
  BY <1>1, EvaluationAlways, PTL

\* A call that a cap lets through fits the cap and every blocking policy before it,
\* also as it was modified.
THEOREM CapsFit == PolicySpec => []CappedCallsFit
<1>1. EvaluationInv => CappedCallsFit
  <2> SUFFICES ASSUME EvaluationInv, cap # 0
               PROVE  /\ verdict = "allow" /\ Accepts(policies[cap])
                      /\ \A i \in Blocking : i < cap => Accepts(policies[i])
    BY DEF CappedCallsFit
  <2>1. verdict = "allow" /\ cap = next /\ cap \notin Rejecting /\ cap \in DOMAIN policies
    BY DEF EvaluationInv, PolicyTypeOK
  <2>2. Blocking \subseteq DOMAIN policies /\ next \in Nat
        /\ DOMAIN policies \subseteq Nat
    BY DEF Blocking, EvaluationInv, PolicyTypeOK
  <2>3. \A i \in Blocking : i < cap => i \notin Rejecting
    BY <2>1, <2>2 DEF EvaluationInv
  <2> QED
    BY <2>1, <2>2, <2>3 DEF Rejecting
<1> QED
  BY <1>1, EvaluationAlways, PTL
===============================================================================
