---------------------------- MODULE MCLifecycle ----------------------------
(* Lifecycle on three calls and two server addresses. *)
EXTENDS Lifecycle

CONSTANTS c1, c2, c3, a1, a2

Calls == {c1, c2, c3}
Addrs == {a1, a2}
\* Enable is given both servers, disable the second one only now and then.
Given == {Addrs}
GivenDefault == {{a1}, Addrs}
=============================================================================
