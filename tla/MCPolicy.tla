------------------------------ MODULE MCPolicy ------------------------------
(***************************************************************************)
(* All policies of up to two of a few rules (good ones, one for each check *)
(* that refuses a rule, globs with a star in every place) against all      *)
(* subjects of up to four parts, or three with line breaks.                *)
(***************************************************************************)
EXTENDS Policy

MCAccountIDs == {"111122223333"}
MCCelPrograms == {"long", "owner"}

(* One program is about the subject, the other about a claim.              *)
Owner == {<<<<"repository">>, "sylr/app">>}
Copy  == {<<<<"sub">>, "admin">>}
Bare  == {<<<<"aws">>, "none">>}
Account == {<<<<"aws", "aws_account">>, "111122223333">>}

MCCelEval(expr, id, now) == IF expr = "long" THEN Len(id.sub) > 2 ELSE Owner \subseteq id.claims

Sub(form, text) == [form |-> form, text |-> text, anchored |-> TRUE, compiles |-> TRUE,
                    spans |-> {<<"a", "b">>, <<"b">>}]
AnySub == Sub("none", <<>>)
Glob(text) == Sub("glob", text)
Regex == Sub("regex", <<"a|ab|b">>)

Rule(sub, expr, allowBroad) ==
    [issuer |-> "", sub |-> sub, claims |-> {}, expr |-> expr, allowBroad |-> allowBroad,
     account |-> "APP", maxExpiry |-> 0]

Globs == {<<"a", "b">>, <<"*">>, <<"a", "*">>, <<"*", "a">>, <<"a", "*", "a">>, <<"*", "b", "*">>}

Good == {Rule(Glob(g), "", TRUE) : g \in Globs}
    \cup {Rule(AnySub, "long", TRUE), [Rule(Regex, "owner", TRUE) EXCEPT !.issuer = "github"], Rule(Glob(<<"a">>), "", FALSE),
          [Rule(AnySub, "", FALSE) EXCEPT !.claims = Owner], [Rule(AnySub, "", TRUE) EXCEPT !.claims = Copy],
          [Rule(AnySub, "", TRUE) EXCEPT !.claims = Bare], [Rule(AnySub, "", FALSE) EXCEPT !.claims = Account],
          Rule(Glob(<<":", ":", ":", ":", "111122223333", ":", "*">>), "", FALSE)}

Bad == {[Rule(AnySub, "", TRUE) EXCEPT !.account = ""],
        Rule([Regex EXCEPT !.anchored = FALSE], "", TRUE),
        Rule(Glob(<<"a">>), "long", FALSE), Rule(Glob(<<"b">>), "not a bool", TRUE),
        Rule(Glob(<<"a", "*">>), "", FALSE)}

MCPolicies == {<<>>} \cup {<<r>> : r \in Good \cup Bad}
                \cup {<<r, q>> : r \in Good \cup Bad, q \in Good \cup Bad}

(* The same claims at top level and in the AWS namespace, a copy of sub in *)
(* both, a namespace that holds no object, and a top-level claim "aws".    *)
Leaf(path, text) == [path |-> path, kind |-> "string", text |-> text]

Common(under) ==
    {Leaf(under \o << <<"repository">> >>, "sylr/app"), Leaf(under \o << <<"sub">> >>, "admin")}

Payload(iss) ==
    CASE iss = "aws"    -> Common(<< <<Namespace>> >>)
                            \cup {Leaf(<< <<Namespace>>, <<"aws_account">> >>, "111122223333")}
      [] iss = "github" -> Common(<<>>) \cup {Leaf(<< <<Namespace>> >>, "none")}
      [] iss = "other"  -> Common(<<>>) \cup {Leaf(<< <<"aws">>, <<"aws_account">> >>, "111122223333")}

(* What is matched against the claims does not depend on the subject, so   *)
(* each issuer has its own kind of subjects.                               *)
Subjects(iss) ==
    CASE iss = "aws"    -> UNION {[1..n -> {"a", "b"}] : n \in 0..2}
      [] iss = "github" -> UNION {[1..n -> {"a", "b"}] : n \in 0..4}
      [] iss = "other"  -> UNION {[1..n -> {"a", "b", LineBreak}] : n \in 0..3}

IdentityOf(iss, sub) ==
    [iss |-> iss, sub |-> sub, claims |-> CHOOSE c \in Parse(Payload(iss)) : TRUE,
     payload |-> Payload(iss)]

MCIdentities == UNION {{IdentityOf(iss, sub) : sub \in Subjects(iss)} : iss \in {"aws", "github", "other"}}
=============================================================================
