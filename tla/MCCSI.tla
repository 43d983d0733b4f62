------------------------------- MODULE MCCSI -------------------------------
(* Values for the constants of CSIProvider.                                 *)
EXTENDS CSIProvider

CONSTANTS m1, m2

Obj(name, path, key, encoding, mode) ==
    [name |-> name, path |-> path, key |-> key, encoding |-> encoding, mode |-> mode,
     args |-> FALSE]
Ask(address, role, method, objects) ==
    [readable |-> TRUE, address |-> address, namespace |-> Absent, role |-> role,
     method |-> method, objects |-> objects]

App == <<"app">>
SecretApp == <<"secret", "/", "app">>

\* Named user:id, so that its cache key is that of Odd: secret/app:user:user:id.
User == Obj(<<"user", ":", "id">>, SecretApp, <<"user">>, "text", "0400")
Odd == Obj(<<"id">>, SecretApp, <<"user", ":", "user">>, "base64", "broken")
Dynamic == [Obj(<<"cert">>, App, <<>>, "hex", "") EXCEPT !.args = TRUE]

MCFields == {<<"user">>}

\* Two mounts of one object on two servers, an object whose cache key is another's,
\* one that cannot be fetched, and a request that is refused.
AppPod == Ask(Absent, "app", Absent, <<User, Odd>>)
OtherPod == Ask("other", Absent, "token", <<User>>)

MCRequests ==
    {AppPod, OtherPod,
     Ask(Absent, Absent, "jwt", <<Dynamic>>),
     [Ask(Absent, "", Absent, <<>>) EXCEPT !.readable = FALSE]}

\* The other server's secret stays as it is.
MCVolatile == {Location(AppPod, User)}
MCInitial == [l \in Locations |->
    IF l \in MCVolatile THEN Nothing ELSE [version |-> 1, fields |-> MCFields]]

=============================================================================
