------------------------------- MODULE Policy -------------------------------
(***************************************************************************)
(* The life of a Policy (internal/authz): it is read from YAML with        *)
(* nothing compiled, Validate compiles its rules one by one and may stop   *)
(* in the middle, config.Load validates again what LoadPolicy has          *)
(* validated, and Evaluate runs on what was compiled.  A rule whose        *)
(* matcher or program was not compiled has nil there, which constrains     *)
(* nothing.  Authz says what a rule means; here is how it is computed.     *)
(* Identities carry the payload their claims were flattened from.          *)
(***************************************************************************)
EXTENDS Authz, Identity

CONSTANTS
    Policies,     \* the policies files may hold
    Identities,   \* the identities to evaluate: [iss, sub, claims, payload]
    Now           \* the time of evaluation

ASSUME PolicyAssumption ==
    \A p \in Policies :
        /\ Len(p) \in Nat /\ DOMAIN p = 1..Len(p)
        /\ \A i \in DOMAIN p : /\ p[i].sub.form \in {"none", "glob", "regex"}
                               /\ p[i].sub.text \in Seq(STRING)

(* A payload is a JSON object: finitely many leaves, each below some keys. *)
ASSUME IdentityAssumption ==
    \A id \in Identities :
        /\ id.sub \in Seq(STRING)
        /\ id.claims \in Parse(id.payload) /\ IsFiniteSet(id.payload)
        /\ \A leaf \in id.payload :
            leaf.path # <<>> /\ leaf.path \in Seq(Seq(STRING) \ {<<>>})

VARIABLES
    rules,      \* Policy.Rules
    matcher,    \* matcher[i]: Rule.matcher
    program,    \* program[i]: Rule.celProgram, "" for nil
    validated,  \* Policy.validated
    at,         \* the rule Validate looks at, 0 when no Validate runs
    asked,      \* the identity Evaluate was last given
    decision    \* and what it returned: a rule, or 0 for an error

vars == <<rules, matcher, program, validated, at, asked, decision>>

nil == [kind |-> "nil"]

-----------------------------------------------------------------------------
(* compileSub: a glob is split at the stars, and the segments are joined   *)
(* by ".*" between "^" and "$".                                            *)

(* A star begins a segment, any other part belongs to the last one.        *)
Split(segs, part) ==
    IF part = "*" THEN Append(segs, <<>>) ELSE [segs EXCEPT ![Len(segs)] = Append(@, part)]

(* strings.SplitSeq(pattern, "*").                                         *)
Segments(text) == FoldLeft(Split, << <<>> >>, text)

compileSub(pattern) ==
    CASE pattern.form = "none"  -> nil
      [] pattern.form = "regex" -> [kind |-> "regex", spans |-> pattern.spans]
      [] pattern.form = "glob"  -> [kind |-> "glob", segs |-> Segments(pattern.text)]

(* The segments occur in sub in this order, the first at its start and the *)
(* last at its end, with no line break between two, which "." does not     *)
(* match: before[k] parts lie before segment k.                            *)
Occur(segs, sub) ==
    \E before \in [1..Len(segs) -> 0..Len(sub)] :
        /\ before[1] = 0 /\ before[Len(segs)] + Len(segs[Len(segs)]) = Len(sub)
        /\ \A k \in 1..Len(segs) :
            /\ before[k] + Len(segs[k]) <= Len(sub)
            /\ SubSeq(sub, before[k] + 1, before[k] + Len(segs[k])) = segs[k]
            /\ k < Len(segs) =>
                /\ before[k] + Len(segs[k]) <= before[k + 1]
                /\ Unbroken(sub, before[k] + Len(segs[k]), before[k + 1])

(* A rule without a pattern matches no subject.                            *)
subMatches_NilRefuses(m, sub) ==
    CASE m.kind = "nil"   -> FALSE
      [] m.kind = "regex" -> sub \in m.spans
      [] m.kind = "glob"  -> Occur(m.segs, sub)

(* Rule.subMatches: a nil matcher constrains nothing.                      *)
subMatches(m, sub) ==
    CASE m.kind = "nil"   -> TRUE
      [] m.kind = "regex" -> sub \in m.spans
      [] m.kind = "glob"  -> Occur(m.segs, sub)

(* compileCELProgram: the expression type-checks and yields a bool.        *)
compileCELProgram(expr) == expr \in CelPrograms

(* Errors and breaches of the cost limit are "no match".                   *)
evalCEL(prg, id) == CelEval(prg, id, Now)

(* Rule.matches, with what was compiled.                                   *)
matches(i, id) ==
    /\ rules[i].issuer \in {"", id.iss}
    /\ subMatches(matcher[i], id.sub)
    /\ rules[i].claims \subseteq id.claims
    /\ program[i] = "" \/ evalCEL(program[i], id)

-----------------------------------------------------------------------------
NoIdentity == CHOOSE id \in Identities : TRUE

(* yaml.Unmarshal.                                                         *)
Init ==
    /\ rules \in Policies
    /\ matcher = [i \in DOMAIN rules |-> nil]
    /\ program = [i \in DOMAIN rules |-> ""]
    /\ validated = FALSE /\ at = 0
    /\ asked = NoIdentity /\ decision = 0

(* validated is set before the rules are looked at.                        *)
ValidateBegins_Sets ==
    /\ at = 0 /\ Len(rules) > 0
    /\ at' = 1
    /\ validated' = TRUE
    /\ UNCHANGED <<rules, matcher, program, asked, decision>>

(* Validate of a policy with rules.                                        *)
ValidateBegins ==
    /\ at = 0 /\ Len(rules) > 0
    /\ at' = 1
    /\ UNCHANGED <<rules, matcher, program, validated, asked, decision>>

(* A CEL expression counts as a pin.                                       *)
RuleAccepted_ExprPins(r) ==
    /\ r.account # "" /\ CompileSub(r.sub)
    /\ r.expr # "" => compileCELProgram(r.expr)
    /\ HasStrongPin(r) \/ r.allowBroad \/ r.expr # ""

(* No check of Validate's loop fails for the rule.                         *)
RuleAccepted(r) ==
    /\ r.account # "" /\ CompileSub(r.sub)
    /\ r.expr # "" => r.allowBroad /\ compileCELProgram(r.expr)
    /\ HasStrongPin(r) \/ r.allowBroad

(* One round of the loop.  A rule refused for its program or as too broad  *)
(* has got its matcher already, and a broad one its program.               *)
ValidateRule ==
    LET r == rules[at]
        subOK  == r.account # "" /\ CompileSub(r.sub)
        exprOK == subOK /\ r.expr # "" /\ r.allowBroad /\ compileCELProgram(r.expr)
    IN  /\ at > 0
        /\ matcher' = IF subOK THEN [matcher EXCEPT ![at] = compileSub(r.sub)] ELSE matcher
        /\ program' = IF exprOK THEN [program EXCEPT ![at] = r.expr] ELSE program
        /\ at' = IF RuleAccepted(r) /\ at < Len(rules) THEN at + 1 ELSE 0
        /\ validated' = (validated \/ (RuleAccepted(r) /\ at = Len(rules)))
        /\ UNCHANGED <<rules, asked, decision>>

(* Evaluate: nothing before Validate, then the first rule that matches.    *)
Evaluate(id) ==
    /\ at = 0
    /\ asked' = id
    /\ decision' = IF validated /\ \E i \in DOMAIN rules : matches(i, id)
                   THEN CHOOSE i \in DOMAIN rules :
                            matches(i, id) /\ \A j \in 1..(i - 1) : ~matches(j, id)
                   ELSE 0
    /\ UNCHANGED <<rules, matcher, program, validated, at>>

Next == ValidateBegins \/ ValidateRule \/ \E id \in Identities : Evaluate(id)

Spec == Init /\ [][Next]_vars

-----------------------------------------------------------------------------
(* Properties.                                                             *)

(* Evaluate grants what the policy means and nothing else: only a valid    *)
(* policy grants, never one whose Validate stopped in the middle, and the  *)
(* compiled matchers and programs find the first rule that matches by the  *)
(* meaning of globs, which the authorizer's model uses (RuleMatches).      *)
GrantsByMeaning ==
    decision # 0 =>
        /\ PolicyValid(rules)
        /\ RuleMatches(rules[decision], asked, Now)
        /\ \A j \in 1..(decision - 1) : ~RuleMatches(rules[j], asked, Now)

(* A policy once validated denies only identities no rule matches, also    *)
(* when it is validated a second time (LoadPolicy, then config.Load).      *)
DeniesByMeaning ==
    [][Evaluate(asked') /\ validated /\ decision' = 0 =>
            \A i \in DOMAIN rules : ~RuleMatches(rules[i], asked', Now)]_vars

(* validated means valid, whatever order rules fail in, and every pattern  *)
(* and expression of a validated policy has been compiled.                 *)
ValidatedIsCompiled ==
    validated =>
        /\ PolicyValid(rules)
        /\ \A i \in DOMAIN rules :
            /\ (matcher[i] = nil) = (rules[i].sub.form = "none")
            /\ program[i] = rules[i].expr

(* A leaf of the AWS namespace satisfies the claim c.                      *)
FromNamespace(c, payload) ==
    \E leaf \in payload : leaf.path[1] = <<Namespace>> /\ leaf.text = c[2]

(* A rule that asks for a plain claim is satisfied by a top-level claim of *)
(* the payload, never by one of the same name that AWS nests under its     *)
(* namespace or that belongs to another object, and a copy of a registered *)
(* claim satisfies no rule (Parse, flatten, and then Evaluate).  The one   *)
(* plain claim with two sources is "aws", which is also what a namespace   *)
(* that holds no object is written under.  A rule that asks for an "aws."  *)
(* claim is satisfied by the namespace, provided that no other top-level   *)
(* claim of the payload is named "aws" or begins with "aws.".              *)
NamespacesApart ==
    decision # 0 =>
        \A c \in rules[decision].claims :
            /\ Len(c[1]) = 1 =>
                /\ c[1][1] \notin reserved
                /\ \E leaf \in asked.payload :
                    /\ leaf.text = c[2]
                    /\ leaf.path \in {<<c[1]>>} \cup
                                     (IF c[1] = <<awsPrefix>> THEN {<< <<Namespace>> >>} ELSE {})
            /\ c[1][1] = awsPrefix /\ (\A leaf \in asked.payload : leaf.path[1][1] # awsPrefix)
                => FromNamespace(c, asked.payload)

(* A rule that asks for an "aws." claim is satisfied by the AWS namespace  *)
(* only: the prefix keeps its claims from colliding with a top-level claim *)
(* (the README's Security notes).                                          *)
AWSClaimsApart ==
    decision # 0 =>
        \A c \in rules[decision].claims :
            Len(c[1]) > 1 /\ c[1][1] = awsPrefix => FromNamespace(c, asked.payload)
=============================================================================
