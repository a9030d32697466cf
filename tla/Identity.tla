------------------------------ MODULE Identity ------------------------------
(***************************************************************************)
(* The claim set a token's JSON payload flattens to                        *)
(* (internal/identity/identity.go).                                        *)
(*                                                                         *)
(* A payload is the set of the scalar, array and null leaves of the JSON   *)
(* object: [path, kind, text].  A path is the sequence of the object keys  *)
(* from the root to the leaf; a key is the sequence of its dot-separated   *)
(* parts, so that "a.b" is <<"a", "b">> and dotted keys can meet.  text is *)
(* the string Go makes of the scalar: the string itself, the literal of a  *)
(* json.Number, "true" or "false" of a bool.                               *)
(*                                                                         *)
(* A claim set (map[string]string) is its graph: a set of <<key, value>>.  *)
(***************************************************************************)
EXTENDS Naturals, Sequences, SequencesExt

(* The key AWS nests its claims under; it stands for one part, dots and    *)
(* all, because Parse only ever compares it with a whole top-level key.    *)
Namespace == "https://sts.amazonaws.com/"

awsPrefix == "aws"

(* Registered claims, matched through verified fields only.                *)
reserved == {"iss", "sub", "aud", "exp", "nbf", "iat"}

(* The leaves flatten writes: scalars only (arrays and null are skipped),  *)
(* below a top-level key that is not reserved.                             *)
Written(payload) ==
    {l \in payload : /\ l.kind \in {"string", "number", "bool"}
                     /\ l.path[1] \notin {<<k>> : k \in reserved}}

(* A mistake NamespacesApart notices: the namespace is dropped.            *)
FlatKey_Bare(leaf) ==
    FlattenSeq(IF leaf.path[1] = <<Namespace>> THEN Tail(leaf.path) ELSE leaf.path)

(* The dotted key a leaf is written under.                                 *)
FlatKey(leaf) ==
    LET top == IF leaf.path[1] = <<Namespace>> THEN <<awsPrefix>> ELSE leaf.path[1]
    IN  FlattenSeq(<<top>> \o Tail(leaf.path))

(* The orders in which flatten may write the leaves.  Go iterates over a   *)
(* map in an unspecified order, but finishes an object before it leaves    *)
(* it: whatever lies between two leaves of an object is of that object.    *)
WriteOrders(payload) ==
    {s \in SetToSeqs(Written(payload)) :
        \A i, j, k \in 1..Len(s) :
            i < j /\ j < k =>
                IsPrefix(LongestCommonPrefix({s[i].path, s[k].path}), s[j].path)}

(* What the map holds after the writes of s: the last one to each key.     *)
LastWrites(s) ==
    {<<FlatKey(s[i]), s[i].text>> :
        i \in {i \in 1..Len(s) : \A j \in 1..Len(s) : j > i => FlatKey(s[j]) # FlatKey(s[i])}}

(* Every claim set Parse can return for a payload.                         *)
Parse(payload) == {LastWrites(s) : s \in WriteOrders(payload)}
=============================================================================
