---------------------------- MODULE MCExtension ----------------------------
(* Extension with two domains. *)
EXTENDS Extension

CONSTANTS kit, uni

Domains == {kit, uni}
OneDomain == {kit}
Defaults == {kit}
Ports == <<"1080", "1081">>
Preferred == Ports[1]
Fallback == Ports[2]
=============================================================================
