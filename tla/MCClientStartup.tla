--------------------------- MODULE MCClientStartup ---------------------------
(***************************************************************************)
(* Instances of ClientStartup for TLC.                                      *)
(***************************************************************************)
EXTENDS ClientStartup, TLC

CONSTANTS t1, t2, module, default, named

TwoClients  == {t1, t2}
OneClient   == {t1}
OwnProcess  == [t \in Threads |-> t]
ThreeFiles  == {module, default, named}
OneVar      == {"env"}

Cmd(c, h, i, w, n) == [config |-> c, hosts |-> h, interval |-> i, timeout |-> w, count |-> n]
Toml(v, d, i, w, s) == [valid |-> v, database |-> d, interval |-> i, timeout |-> w, servers |-> s]

\* Nothing typed; everything typed; options typed that equal their defaults.
SomeLines ==
    {Cmd(FALSE, None, None, None, None),
     Cmd(TRUE, <<"a", "b">>, 2, 3, -1),
     Cmd(TRUE, LocalHost, DEFAULT_INTERVAL, DEFAULT_TIMEOUT, 4)}

\* A host and a timeout typed that equal their defaults, and no interval.
DefaultsTyped == {Cmd(FALSE, LocalHost, None, DEFAULT_TIMEOUT, None)}

Full    == Toml(TRUE, named, 7, 9, <<"c">>)
Bare    == Toml(TRUE, None, None, None, << >>)
Invalid == Toml(FALSE, None, 0, None, << >>)

\* A file with every key, one with none that main reads, and one that does not
\* validate.
FilesAt ==
    [l \in {Places[i] : i \in DOMAIN Places} |->
       CASE l = "explicit"        -> {Full, Invalid}
         [] l \in {"env", "local"} -> {Full}
         [] l = "user"            -> {Bare}
         [] OTHER                 -> {}]

\* One file, with every key, in the working directory.
FullFile ==
    [l \in {Places[i] : i \in DOMAIN Places} |-> IF l = "local" THEN {Full} ELSE {}]
=============================================================================
