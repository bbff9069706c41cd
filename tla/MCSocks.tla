------------------------------ MODULE MCSocks ------------------------------
(* Socks with two DNS servers, whose responses may come twice, and two packets *)
(* of somebody else.                                                           *)
EXTENDS Socks

CONSTANTS ip1, ip2

Ips == {ip1, ip2}
TwoServers == 2
Twice == 2

Msg(header, records, whole) ==
    [header |-> header, records |-> records, whole |-> whole]

\* An address; one behind an alias; the same cut off; an error that carries an
\* address all the same; a response to another query.
Messages ==
    {Msg("ok", <<ip1>>, 1), Msg("ok", <<"other", ip2, ip1>>, 3),
     Msg("ok", <<"other", ip2>>, 1), Msg("rcode", <<ip1>>, 1),
     Msg("otherId", <<ip2>>, 1)}
=============================================================================
