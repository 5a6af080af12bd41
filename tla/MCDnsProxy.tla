---------------------------- MODULE MCDnsProxy ----------------------------
(* Model values for DnsProxy: two clients that use the same id, a name     *)
(* below a blocked one, a name that merely ends like one, another type.    *)
EXTENDS DnsProxy

Query(client, id, name, form) ==
  [client |-> client, id |-> id, name |-> name, form |-> form]

MCBlocked == {<<"ads", "com">>}

AllQueries ==
  {Query("c1", 7, <<"www", "com">>, "A"),
   Query("c2", 7, <<"badads", "com">>, "A"),
   Query("c2", 9, <<"x", "ads", "com">>, "A"),
   Query("c2", 9, <<"www", "com">>, "other"),
   Query("c1", 9, <<"www", "com">>, "bad")}

FewQueries ==
  {Query("c1", 7, <<"www", "com">>, "A"),
   Query("c2", 9, <<"x", "ads", "com">>, "A")}
=============================================================================
