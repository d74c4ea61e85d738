----------------------------- MODULE MCHttpFront ----------------------------
(* Instances of HttpFront for TLC. *)
EXTENDS HttpFront

Direct(c, forged) ==
    [client |-> c, via |-> <<>>, forged |-> forged, host |-> "localhost",
     origin |-> "none", large |-> FALSE, method |-> "POST"]

\* A direct client that forges a header, one behind two trusted proxies that
\* forges another, and what each check refuses.
SomeKinds ==
    { Direct("ann", <<"bob">>),
      [Direct("bob", <<"proxy1", "ann">>) EXCEPT !.via = <<"proxy1", "proxy2">>],
      [Direct("bob", <<>>) EXCEPT !.via = <<"proxy1">>, !.method = "PUT"],
      [Direct("bob", <<"a", "b", "c">>) EXCEPT !.via = <<"proxy2">>],
      [Direct("ann", <<>>) EXCEPT !.origin = "http://elsewhere"] }
=============================================================================
