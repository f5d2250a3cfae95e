---------------------------- MODULE MCSubmission ----------------------------
(* Three calls that choose among submissions of one key: a request, the same  *)
(* request spelled out, another callback, two firewall tests of different     *)
(* connections, and two malformed ones; one submission uses a second key.     *)
EXTENDS RunSubmission, TLC

Terse == [request_id |-> "", correlation_id |-> "", execution_mode |-> "",
          connection |-> "", content |-> "x"]

Hook == [url |-> "https://allowed", workflow |-> "wf", signal |-> "completion"]

Send(key, callback, body) ==
    [key |-> key, correlation |-> "corr", callback |-> callback, body |-> body,
     wellFormed |-> TRUE]

Plain     == Send("k1", NoCallback, Terse)
SpeltOut  == Send("k1", NoCallback, [request_id |-> "k1", correlation_id |-> "corr",
                                     execution_mode |-> "inmemory",
                                     connection |-> "", content |-> "x"])
Test(connection) ==
    Send("k1", NoCallback, [Terse EXCEPT !.execution_mode = "firewall",
                                         !.connection = connection])
Hooked    == Send("k1", Hook, Terse)
OtherKey  == Send("k2", Hook, Terse)
Misnamed  == Send("k2", NoCallback, [Terse EXCEPT !.request_id = "k1"])
HalfHook  == Send("k1", [Hook EXCEPT !.signal = ""], Terse)

MCSubmissions ==
    {Plain, SpeltOut, Test("port 1389"), Test("port 443"), Hooked, OtherKey, Misnamed, HalfHook}

\* Enough for liveness: both contend for k1.
Contenders == {Plain, Test("port 1389")}

CallSymmetry == Permutations(Calls)
=============================================================================
