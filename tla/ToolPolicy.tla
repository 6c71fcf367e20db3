----------------------------- MODULE ToolPolicy -----------------------------
(***************************************************************************)
(* What becomes of one tool call of the tool loop: the policies of         *)
(* policies.json, the overrides of trust.json and of the session, and the  *)
(* corrections on record, in the order the loop asks them.                 *)
(***************************************************************************)
EXTENDS Integers, Sequences, TLAPS

Tiers == {"auto", "confirm", "deny"}
MaxCorrections == 20
MaxWords == 3

-----------------------------------------------------------------------------
(* Policies: the first that is enabled and matches decides. *)

Holds(cond, context) ==
    CASE cond.operator \in {"eq", "in", "matches"} -> context[cond.field] \in cond.values
      [] cond.operator = "not_eq"       -> context[cond.field] \notin cond.values
      [] OTHER                          -> TRUE

Matches(policy, context) ==
    policy.enabled /\ \A c \in policy.conditions : Holds(c, context)

Evaluate(policies, context) ==
    LET matching == {i \in DOMAIN policies : Matches(policies[i], context)}
    IN  IF matching = {} THEN "none"
        ELSE policies[CHOOSE i \in matching : \A j \in matching : i <= j].action

\* The first of the policies there always are.  The other two ask for
\* run_status, which no call of evaluate gives.
ReadOnly == {"pwd", "ls", "read_file", "rg", "think"}
AutoApproveReadOnly ==
    [enabled |-> TRUE, action |-> "auto-approve",
     conditions |-> {[field |-> "tool", operator |-> "in", values |-> ReadOnly]}]

LoadPolicies(custom) == <<AutoApproveReadOnly>> \o custom

-----------------------------------------------------------------------------
(* Trust: overrides of the tool, of the domain and of the session. *)

\* An override may be missing ("none"), and load_trust_policy takes whatever
\* string trust.json has: "other" stands for those that are no tier.
Overrides == Tiers \cup {"none", "other"}

Override(s, tier) ==
    LET denied == s.denied \/ tier = "deny"
    IN  IF tier = "none" THEN s
        ELSE [tier |-> IF denied THEN s.tier ELSE tier, denied |-> denied]

ResolveTrustTier(base, tool, domain, session) ==
    LET s == Override(Override(Override([tier |-> base, denied |-> base = "deny"], tool), domain), session)
    IN  IF s.denied THEN "deny" ELSE s.tier

\* A correction is among those that were retrieved for the run, and one of the
\* newest on record mentions the tool or one of the first long words of its
\* argument.  A correction is a record of the words of its context and of its
\* wrong answer; retrieved is the count in the run's retrieval_built event.
ShouldElevateApproval(tool, words, retrieved, corrections) ==
    /\ retrieved > 0
    /\ \E i \in DOMAIN corrections :
          /\ i <= MaxCorrections
          /\ \/ tool \in corrections[i].context \cup corrections[i].wrong
             \/ \E k \in DOMAIN words : k <= MaxWords /\ words[k] \in corrections[i].context

-----------------------------------------------------------------------------
(* A call: what it finds configured, and what the operator would say. *)

Calls ==
    [known : BOOLEAN, aborted : BOOLEAN, policy : {"none", "auto-approve", "deny"},
     base : {"auto", "confirm"}, tool : Overrides, domain : Overrides, session : Overrides,
     corrected : BOOLEAN, autonomous : BOOLEAN, consent : BOOLEAN]

TierOf(c) ==
    LET tier == ResolveTrustTier(c.base, c.tool, c.domain, c.session)
    IN  IF c.corrected /\ tier \notin {"confirm", "deny"} THEN "confirm" ELSE tier

\* The event the call leaves, in the order of the loop's tests.
Outcome(c) ==
    IF ~c.known THEN "unknown tool"
    ELSE IF c.aborted THEN "aborted by plugin"
    ELSE IF c.policy = "auto-approve" THEN "policy_auto_approved"
    ELSE IF c.policy = "deny" THEN "policy_denied"
    ELSE IF TierOf(c) = "deny" THEN "tool_denied"
    ELSE IF TierOf(c) = "confirm" /\ c.autonomous THEN "autonomous_tool_escalated"
    ELSE IF TierOf(c) = "confirm" /\ ~c.consent THEN "approval required"
    ELSE "tool_called"

Runs(c) == Outcome(c) \in {"policy_auto_approved", "tool_called"}

\* The flag that goes with the call.
Approved(c) ==
    \/ Outcome(c) = "policy_auto_approved"
    \/ TierOf(c) = "confirm" /\ c.consent
    \/ TierOf(c) = "auto" /\ c.base = "confirm"

\* ToolRegistry.run raises PermissionError otherwise, which ends the run.
RegistryAccepts(c) == c.base # "confirm" \/ Approved(c)

-----------------------------------------------------------------------------
(* What the order of the tests comes to *)

\* docs/trust-and-security.md:69-73: the base tier, then the overrides of the
\* tool, the domain and the session, each over the ones before; any deny wins.
Resolution(base, overrides) ==
    LET given == {i \in DOMAIN overrides : overrides[i] # "none"}
    IN  IF base = "deny" \/ \E i \in given : overrides[i] = "deny" THEN "deny"
        ELSE IF given = {} THEN base
        ELSE overrides[CHOOSE i \in given : \A j \in given : j <= i]

\* The loop through the overrides resolves what the documentation says,
\* whatever is overridden at which level (resolve_trust_tier).
ASSUME ResolutionIsDocumented ==
    \A base \in Tiers, tool, domain, session \in Overrides :
        ResolveTrustTier(base, tool, domain, session) = Resolution(base, <<tool, domain, session>>)

\* A deny on any of the four levels denies, and nothing else does, a string
\* that is no tier included (resolve_trust_tier).
THEOREM AnyDenyWins ==
    ASSUME NEW base \in Tiers, NEW tool \in Overrides,
           NEW domain \in Overrides, NEW session \in Overrides
    PROVE  ResolveTrustTier(base, tool, domain, session) = "deny"
               <=> "deny" \in {base, tool, domain, session}
BY DEF ResolveTrustTier, Override, Overrides, Tiers

\* A tool is handed to the registry only behind a policy, a tier that asks for
\* nothing and that no correction concerns (auto, or a string that is no tier),
\* or the operator's consent, which an autonomous run has from nobody
\* (_execute_tool_loop).
THEOREM RunsOnlyAsAllowed ==
    ASSUME NEW c \in Calls, Runs(c)
    PROVE  /\ c.known /\ ~c.aborted /\ c.policy # "deny"
           /\ \/ c.policy = "auto-approve"
              \/ ~c.corrected /\ TierOf(c) \notin {"confirm", "deny"}
              \/ TierOf(c) = "confirm" /\ c.consent /\ ~c.autonomous
<1>1. c.known /\ ~c.aborted /\ c.policy # "deny"
  BY DEF Runs, Outcome
<1>2. CASE c.policy # "auto-approve"
  <2>1. TierOf(c) # "deny"
    BY <1>1, <1>2 DEF Runs, Outcome
  <2>2. TierOf(c) = "confirm" => c.consent /\ ~c.autonomous
    BY <1>1, <1>2 DEF Runs, Outcome
  <2>3. TierOf(c) \notin {"confirm", "deny"} => ~c.corrected
    BY DEF TierOf
  <2> QED BY <1>1, <2>1, <2>2, <2>3
<1> QED BY <1>1, <1>2

\* Of the calls that the loop hands it, the registry, which tests the tool's own
\* approval by itself, refuses those of a confirm tool whose override is a string
\* that is no tier: the loop asks nobody, and the PermissionError ends the run
\* (orchestrator.py:1002, tools.py:273).  As long as every override is a tier it
\* refuses none.
THEOREM RegistryRefusesUnknownTiers ==
    ASSUME NEW c \in Calls, Runs(c)
    PROVE  /\ ~RegistryAccepts(c) <=>
                 c.policy # "auto-approve" /\ c.base = "confirm" /\ TierOf(c) \notin Tiers
           /\ "other" \notin {c.tool, c.domain, c.session} => RegistryAccepts(c)
<1>1. CASE c.policy = "auto-approve"
  BY <1>1 DEF Runs, Outcome, RegistryAccepts, Approved
<1>2. CASE c.policy # "auto-approve"
  <2>1. \/ TierOf(c) \notin {"confirm", "deny"}
        \/ TierOf(c) = "confirm" /\ c.consent
    BY <1>2, RunsOnlyAsAllowed
  <2>2. ~RegistryAccepts(c) <=> c.base = "confirm" /\ TierOf(c) \notin Tiers
    <3>1. Outcome(c) # "policy_auto_approved"
      BY <1>2 DEF Outcome
    <3>. QED
      BY <2>1, <3>1 DEF RegistryAccepts, Approved, Tiers
  <2>3. "other" \notin {c.tool, c.domain, c.session} => TierOf(c) \in Tiers
    BY DEF TierOf, ResolveTrustTier, Override, Calls, Overrides, Tiers
  <2> QED BY <1>2, <2>2, <2>3
<1> QED BY <1>1, <1>2
=============================================================================
