----------------------------- MODULE MCHeartbeat -----------------------------
(***************************************************************************)
(* Instances of Heartbeat for TLC.  Identifiers and sequence numbers are    *)
(* two bits wide or less, so that they wrap, and collide, within a run.     *)
(***************************************************************************)
EXTENDS Heartbeat, TLC

CONSTANTS c1, c2, s1, s2, home, far, alt, gw

MCAddrs   == {home, far, alt, gw}
StableDns == ("far" :> {far}) @@ ("home" :> {home})
TwoDns    == ("far" :> {far, alt}) @@ ("home" :> {home})

HomeKernel      == {<<home, "empty">>}
FarKernel       == {<<far, "empty">>}
NobodyElse      == {}
HostUnreachable == {<<DESTINATION_UNREACHABLE, 1>>}
RedirectForHost == {<<REDIRECT, 1>>}
NoErrors        == {}

AllFaults  == {"dns", "send", "recv", "db", "stop", "truncate", "damage", "interrupt"}
LiveFaults == {"dns", "send", "recv", "db", "interrupt"}
NoFaults   == {}

\* One client on host home; it probes far, whose server has a second address,
\* and its own host.
OneClient == {c1}
OneAddrOf == c1 :> home
OnePid    == c1 :> 5
OneHosts  == c1 :> <<"far", "home">>
OneServer == {s1}
OneHomes  == s1 :> {far, alt}

\* Two clients side by side on home.  They probe the same server, and one of
\* them its own host, where a second server runs.
TwoClients     == {c1, c2}
SideBySide     == (c1 :> home) @@ (c2 :> home)
DistinctPids   == (c1 :> 1) @@ (c2 :> 2)
SideHosts      == (c1 :> <<"far", "home">>) @@ (c2 :> <<"far">>)
TwoServers     == {s1, s2}
TwoHomes       == (s1 :> {far}) @@ (s2 :> {home})

\* Two hosts that watch each other: a client and a server on both, and client
\* processes whose identifiers are equal, as they may be on different hosts.
FaceToFace == (c1 :> home) @@ (c2 :> far)
EqualPids  == (c1 :> 1) @@ (c2 :> 5)
CrossHosts == (c1 :> <<"far">>) @@ (c2 :> <<"home">>)
=============================================================================
