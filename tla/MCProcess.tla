----------------------------- MODULE MCProcess -----------------------------
(* An instance of Process for TLC. *)
EXTENDS Process

CONSTANTS r1, r2

MCReqs == {r1, r2}

Sound ==
    [complete |-> TRUE, tls |-> TRUE, secret |-> "file", bootstrap |-> "ok",
     device |-> "ok", defaultRole |-> TRUE, rules |-> FALSE, requireCPP |-> TRUE,
     allowUnauthenticated |-> FALSE, challenge |-> "static", staticSecret |-> "set",
     inventory |-> "file", scep |-> TRUE, ra |-> "rsa", devAllowAll |-> FALSE,
     devRole |-> FALSE]

\* Everything that bears on who may enrol, in all combinations ...
AuthConfigs ==
    {[Sound EXCEPT !.requireCPP = q, !.allowUnauthenticated = u, !.challenge = c,
                   !.scep = e, !.devAllowAll = d] :
        q \in BOOLEAN, u \in BOOLEAN, c \in {"", "none", "static", "other"},
        e \in BOOLEAN, d \in BOOLEAN}

\* ... anchors, secrets and RA keys that are missing, broken or of the wrong kind ...
FileConfigs ==
    {[Sound EXCEPT !.staticSecret = s, !.ra = k, !.bootstrap = b, !.device = v] :
        s \in {"unnamed", "empty", "set"}, k \in {"none", "bad", "ec", "rsa"},
        b \in {"none", "bad", "ok"}, v \in {"none", "bad", "ok"}}

\* ... and the rest.
OtherConfigs ==
    {[Sound EXCEPT !.complete = p, !.tls = t, !.defaultRole = f, !.rules = g,
                   !.devAllowAll = d, !.devRole = w] :
        p \in BOOLEAN, t \in BOOLEAN, f \in BOOLEAN, g \in BOOLEAN, d \in BOOLEAN,
        w \in BOOLEAN}
    \cup {[Sound EXCEPT !.secret = s, !.inventory = i] :
        s \in {"file", "emptyFile", "env", "emptyEnv", "unset"},
        i \in {"none", "noPath", "bad", "file", "other"}}

MCConfigs == AuthConfigs \cup FileConfigs \cup OtherConfigs
=============================================================================
