------------------------------- MODULE Authz --------------------------------
(***************************************************************************)
(* The authorization policy (internal/authz): validation with the          *)
(* broad-rule guardrail, and matching of one rule against an identity.     *)
(*                                                                         *)
(* A policy is a sequence of rules                                         *)
(*   [issuer, sub, claims, expr, allowBroad, account, maxExpiry]           *)
(* where "" means unset, claims is a set of <<key, value>> that must all   *)
(* be present, and maxExpiry is a duration in clock ticks.                 *)
(*                                                                         *)
(* A sub pattern is [form, text, anchored, compiles, spans].  form is      *)
(* "none", "glob" or "regex"; text is the pattern as a sequence of parts,  *)
(* of which "*", ":" and a line break are special (for a regex: without    *)
(* "re:", "^" and "$").  What a regular expression matches is the regexp   *)
(* package's affair: spans is the set of subjects its leftmost match spans *)
(* whole.                                                                  *)
(* A subject is a sequence of parts as well.                               *)
(*                                                                         *)
(* An identity is [iss, sub, aud, exp, claims].                            *)
(***************************************************************************)
EXTENDS Integers, Sequences, FiniteSets

CONSTANTS
    AccountIDs,        \* the parts that are literal 12-digit AWS account ids
    CelPrograms,       \* the CEL expressions that compile to a bool program
    CelEval(_, _, _)   \* CelEval(expr, id, now): TRUE, FALSE; errors are FALSE

(* Claims that pin a GitHub identity.                                      *)
githubStrongPinKeys == {<<"repository">>, <<"repository_id">>, <<"job_workflow_ref">>}

(* compileSub: a regex must be anchored and compile; a glob always does.   *)
CompileSub(pattern) ==
    pattern.form = "regex" => pattern.anchored /\ pattern.compiles

LineBreak == "LF"

(* No line break lies between the places i and j of a subject.             *)
Unbroken(sub, i, j) == \A m \in (i + 1)..j : sub[m] # LineBreak

(* A glob spans a subject when its parts occur in order, a star standing   *)
(* for any run of parts within a line, and the ends coincide: ends[i] are  *)
(* the places in the subject where the first i parts of the pattern may    *)
(* have matched up to.                                                     *)
GlobSpans(text, sub) ==
    LET ends[i \in 0..Len(text)] ==
            IF i = 0 THEN {0}
            ELSE IF text[i] = "*" THEN {j \in 0..Len(sub) :
                    \E k \in ends[i - 1] : k <= j /\ Unbroken(sub, k, j)}
            ELSE {j \in 1..Len(sub) : sub[j] = text[i] /\ j - 1 \in ends[i - 1]}
    IN  Len(sub) \in ends[Len(text)]

SubMatches(pattern, sub) ==
    \/ pattern.form = "none"
    \/ pattern.form = "glob" /\ GlobSpans(pattern.text, sub)
    \/ pattern.form = "regex" /\ sub \in pattern.spans

SubIsExact(pattern) ==
    pattern.form = "glob" /\ \A i \in 1..Len(pattern.text) : pattern.text[i] # "*"

(* The fifth colon-separated field is a literal account id.                *)
AccountPinnedInARN(pattern) ==
    LET text == pattern.text
        field5 == {i \in 1..Len(text) :
                    text[i] # ":" /\ Cardinality({j \in 1..(i - 1) : text[j] = ":"}) = 4}
    IN  /\ pattern.form # "none"
        /\ \E i \in 1..Len(text) : field5 = {i} /\ text[i] \in AccountIDs

HasStrongPin(rule) ==
    \/ SubIsExact(rule.sub)
    \/ AccountPinnedInARN(rule.sub)
    \/ \E c \in rule.claims : c[1] = <<"aws", "aws_account">> /\ c[2] \in AccountIDs
    \/ \E c \in rule.claims : c[1] \in githubStrongPinKeys

(* Policy.Validate returns no error.                                       *)
PolicyValid(policy) ==
    /\ Len(policy) > 0
    /\ \A i \in 1..Len(policy) :
        LET rule == policy[i]
        IN  /\ rule.account # ""
            /\ CompileSub(rule.sub)
            /\ rule.expr # "" => rule.allowBroad /\ rule.expr \in CelPrograms
            /\ HasStrongPin(rule) \/ rule.allowBroad

(* Rule.matches, evaluated at time now.                                    *)
RuleMatches(rule, id, now) ==
    /\ rule.issuer \in {"", id.iss}
    /\ SubMatches(rule.sub, id.sub)
    /\ rule.claims \subseteq id.claims
    /\ rule.expr = "" \/ CelEval(rule.expr, id, now)
=============================================================================
