--------------------------- MODULE MCBucketConfig ---------------------------
(* Instances of BucketConfig for TLC. *)
EXTENDS BucketConfig, TLC

St(effect, actions, resource, conditions) ==
  [effect |-> effect, principal |-> {"*"}, actions |-> actions,
   resources |-> {resource}, conditions |-> conditions]

GetA  == St("Allow", {"GetObject"}, <<"b", "/", "a", "*">>, {})
DenyZ == St("Deny", {"GetObject"}, <<"b", "/", "z">>,
            {[name |-> "IpAddress", key |-> "SourceIp", values |-> {{"ip1"}}]})
ListA == St("Allow", {"ListBucket"}, <<"b">>,
            {[name |-> "StringEquals", key |-> "prefix", values |-> {<<"a">>}]})
Wrong == St("Allow", {"GetObject"}, <<"b">>, {})

MCBuckets  == {"b"}
MCEdits    == {<<<< >>, "none">>, <<<< >>, "readonly">>,
               <<<<"a">>, "none">>, <<<<"a">>, "readwrite">>}
MCDocs     == {<<GetA, ListA>>, <<Wrong>>}
MCSymmetry == Permutations(Procs)

\* Documents with the same statement twice.
MCDocsTwice == {<<GetA, DenyZ, GetA>>}
MCNoEdits   == {<<<< >>, "none">>}
=============================================================================
