------------------------------ MODULE Process ------------------------------
(***************************************************************************)
(* The broker process (cmd/certbroker/main.go, internal/config/config.go):   *)
(* run reads and validates the configuration, builds the parts in order and  *)
(* gives up at the first that fails, starts the EST, health and SCEP          *)
(* listeners in goroutines of their own, and waits for a listener's failure   *)
(* or a signal. After a signal it shuts the listeners down one after the      *)
(* other under a single deadline, and returning ends the process with what is *)
(* still in flight.                                                         *)
(*                                                                         *)
(* A configuration is abstracted to what Validate and the constructors tell   *)
(* apart. The deadline is a timer that counts down.                          *)
(***************************************************************************)
EXTENDS Integers, Sequences, FiniteSets

CONSTANTS
    Configs,          \* configurations and flags the process may be started with
    Reqs,             \* requests that may arrive
    ShutdownTimeout   \* server.shutdown_timeout

ASSUME TimeoutAssumption == ShutdownTimeout \in Nat \ {0}

\* `complete`: the file parses, the keys Validate requires unconditionally are set,
\* and the RSA bounds and the rates make sense. `secret`: where the AppRole SecretID comes
\* from. `bootstrap`, `device`: the CA files. `ra`: the SCEP RA certificate and
\* key. `tls`: the listener's own key pair and OpenBao's CA file load.
Config ==
    [complete : BOOLEAN, tls : BOOLEAN,
     secret : {"file", "emptyFile", "env", "emptyEnv", "unset"},
     bootstrap : {"none", "bad", "ok"}, device : {"none", "bad", "ok"},
     defaultRole : BOOLEAN, rules : BOOLEAN,
     requireCPP : BOOLEAN, allowUnauthenticated : BOOLEAN,
     challenge : {"", "none", "static", "other"},
     staticSecret : {"unnamed", "empty", "set"},
     inventory : {"none", "noPath", "bad", "file", "other"},
     scep : BOOLEAN, ra : {"none", "bad", "ec", "rsa"},
     devAllowAll : BOOLEAN, devRole : BOOLEAN]

ASSUME ConfigsAssumption == Configs \subseteq Config

Listeners == {"est", "health", "scep"}
NoListener == "none"

VARIABLES
    cfg,        \* the configuration, fixed
    stage,      \* how far `run` is
    authorizer, \* what selectAuthorizer built: none, allowAll, or a pipeline
    listener,   \* each http.Server
    errCh,      \* errors the listeners reported and nobody received
    todo,       \* listeners still to be shut down
    left,       \* time left of the shutdown deadline
    at,         \* the listener that accepted each request
    req,        \* each request: none, active, done or cut
    exit        \* how the process ended

serving == <<listener, at, req>>
vars == <<cfg, stage, authorizer, errCh, todo, left, serving, exit>>

NoAuthorizer == [kind |-> "none", validator |-> "nil"]

Init ==
    /\ cfg \in Configs
    /\ stage = "load"
    /\ authorizer = NoAuthorizer
    /\ listener = [l \in Listeners |-> "off"]
    /\ errCh = 0 /\ todo = <<>> /\ left = ShutdownTimeout
    /\ at = [r \in Reqs |-> NoListener]
    /\ req = [r \in Reqs |-> "none"]
    /\ exit = "no"

-----------------------------------------------------------------------------
(* Start-up                                                                *)

NoBackend == cfg.challenge \in {"", "none"}

\* Mutated form: the spelling "" of no backend is overlooked.
ScepConfiguredUnlessEmpty ==
    cfg.scep => cfg.ra # "none" /\ (cfg.challenge = "none" => cfg.allowUnauthenticated)

\* Config.Validate: SCEP's only authenticator of a first enrolment is the
\* challenge, so it must have one.
ScepConfigured ==
    cfg.scep => cfg.ra # "none" /\ (NoBackend => cfg.allowUnauthenticated)

Validates ==
    /\ cfg.complete
    /\ cfg.secret # "unset"
    /\ cfg.bootstrap # "none" \/ cfg.device # "none"
    /\ cfg.defaultRole \/ cfg.rules
    /\ cfg.requireCPP => ~NoBackend
    /\ ScepConfigured

\* ResolveSecretID, OpenBaoCACert, TrustPools and ServerTLSCertificate.
FilesLoad ==
    /\ cfg.secret \in {"file", "env"}
    /\ cfg.bootstrap # "bad" /\ cfg.device # "bad"
    /\ cfg.tls

InventoryBuilds == cfg.inventory \in {"none", "file"}

ChallengeBuilds == NoBackend \/ (cfg.challenge = "static" /\ cfg.staticSecret = "set")

\* selectAuthorizer: the development flag replaces the whole pipeline.
AuthorizerBuilds ==
    IF cfg.devAllowAll THEN cfg.devRole \/ cfg.defaultRole
    ELSE InventoryBuilds /\ ChallengeBuilds

\* buildChallenge returns no validator, rather than one that accepts anything.
SelectedAuthorizer ==
    IF cfg.devAllowAll THEN [kind |-> "allowAll", validator |-> "nil"]
    ELSE [kind |-> "pipeline", validator |-> IF NoBackend THEN "nil" ELSE "static"]

\* SCEPRAIdentity: a certificate and its RSA key.
RAIdentityLoads == cfg.ra = "rsa"

\* buildSCEPServer; what NewHandler checks besides, `run` has always given it.
ScepBuilds == cfg.scep => RAIdentityLoads

\* One step of start-up: on to the next stage, or out with an error.
Build(from, works, next) ==
    /\ stage = from
    /\ IF works THEN stage' = next /\ UNCHANGED exit
       ELSE stage' = "exited" /\ exit' = "error"
    /\ UNCHANGED <<cfg, errCh, todo, left>>

Load == Build("load", Validates, "files") /\ UNCHANGED <<authorizer, serving>>

LoadFiles == Build("files", FilesLoad, "authorizer") /\ UNCHANGED <<authorizer, serving>>

SelectAuthorizer ==
    /\ Build("authorizer", AuthorizerBuilds, "scep")
    /\ authorizer' = IF AuthorizerBuilds THEN SelectedAuthorizer ELSE authorizer
    /\ UNCHANGED serving

\* buildSCEPServer, and then the go statements.
StartListeners ==
    /\ Build("scep", ScepBuilds, "launched")
    /\ listener' = IF ScepBuilds
                   THEN [l \in Listeners |-> IF l = "scep" /\ ~cfg.scep THEN "off"
                                             ELSE "starting"]
                   ELSE listener
    /\ UNCHANGED <<authorizer, at, req>>

\* signal.NotifyContext: from here on a signal no longer kills the process.
NotifyContext ==
    /\ stage = "launched"
    /\ stage' = "select"
    /\ UNCHANGED <<cfg, authorizer, errCh, todo, left, serving, exit>>

-----------------------------------------------------------------------------
(* Listeners and requests                                                  *)

Running == stage # "exited"
Active(l) == {r \in Reqs : req[r] = "active" /\ at[r] = l}

Bind(l) ==
    /\ Running /\ listener[l] = "starting"
    /\ listener' = [listener EXCEPT ![l] = "up"]
    /\ UNCHANGED <<cfg, stage, authorizer, errCh, todo, left, at, req, exit>>

\* Mutated form: the goroutine reports its failure twice.
ListenerReportsTwice(l) ==
    /\ Running /\ listener[l] \in {"starting", "up"}
    /\ listener' = [listener EXCEPT ![l] = "failed"]
    /\ errCh' = errCh + 2
    /\ UNCHANGED <<cfg, stage, authorizer, todo, left, at, req, exit>>

\* ListenAndServe returns an error other than ErrServerClosed.
ListenerFails(l) ==
    /\ Running /\ listener[l] \in {"starting", "up"}
    /\ listener' = [listener EXCEPT ![l] = "failed"]
    /\ errCh' = errCh + 1
    /\ UNCHANGED <<cfg, stage, authorizer, todo, left, at, req, exit>>

Accept(r, l) ==
    /\ Running /\ listener[l] = "up" /\ req[r] = "none"
    /\ at' = [at EXCEPT ![r] = l]
    /\ req' = [req EXCEPT ![r] = "active"]
    /\ UNCHANGED <<cfg, stage, authorizer, listener, errCh, todo, left, exit>>

Finish(r) ==
    /\ Running /\ req[r] = "active"
    /\ req' = [req EXCEPT ![r] = "done"]
    /\ UNCHANGED <<cfg, stage, authorizer, listener, errCh, todo, left, at, exit>>

-----------------------------------------------------------------------------
(* The end                                                                 *)

\* The process ends, and with it every goroutine.
Exit(how) ==
    /\ stage' = "exited" /\ exit' = how
    /\ req' = [r \in Reqs |-> IF req[r] = "active" THEN "cut" ELSE req[r]]
    /\ UNCHANGED <<cfg, authorizer, listener, at, errCh, todo, left>>

\* A signal before NotifyContext has Go's default effect.
KilledEarly ==
    /\ Running /\ stage \notin {"select", "shutdown"}
    /\ Exit("killed")

\* select: a listener's error ends the process at once ...
ReceiveError == stage = "select" /\ errCh > 0 /\ Exit("error")

\* Mutated form: the optional listener is forgotten.
ShutdownWithoutScep == <<"est", "health">>

ShutdownOrder == IF cfg.scep THEN <<"est", "health", "scep">> ELSE <<"est", "health">>

\* ... a signal starts the shutdown, and the deadline.
ReceiveSignal ==
    /\ stage = "select"
    /\ stage' = "shutdown"
    /\ todo' = ShutdownOrder
    /\ left' = ShutdownTimeout
    /\ UNCHANGED <<cfg, authorizer, errCh, serving, exit>>

\* Server.Shutdown first closes the listener; one whose goroutine has not yet
\* run will return ErrServerClosed when it does.
CloseListener ==
    /\ stage = "shutdown" /\ todo # <<>> /\ listener[Head(todo)] # "closed"
    /\ listener' = [listener EXCEPT ![Head(todo)] = "closed"]
    /\ UNCHANGED <<cfg, stage, authorizer, errCh, todo, left, at, req, exit>>

\* Mutated form: Shutdown does not wait for the requests in flight.
DrainedAtOnce ==
    /\ stage = "shutdown" /\ todo # <<>> /\ listener[Head(todo)] = "closed"
    /\ todo' = Tail(todo)
    /\ UNCHANGED <<cfg, stage, authorizer, errCh, left, serving, exit>>

\* Shutdown returns when its requests are done ...
Drained ==
    /\ stage = "shutdown" /\ todo # <<>> /\ listener[Head(todo)] = "closed"
    /\ Active(Head(todo)) = {}
    /\ todo' = Tail(todo)
    /\ UNCHANGED <<cfg, stage, authorizer, errCh, left, serving, exit>>

\* Mutated form: a deadline for EST only.
DeadlineForEstOnly ==
    /\ stage = "shutdown" /\ todo # <<>> /\ listener[Head(todo)] = "closed"
    /\ left = 0 /\ Head(todo) = "est"
    /\ todo' = Tail(todo)
    /\ UNCHANGED <<cfg, stage, authorizer, errCh, left, serving, exit>>

\* ... or when the deadline, common to all, has passed.
DeadlinePassed ==
    /\ stage = "shutdown" /\ todo # <<>> /\ listener[Head(todo)] = "closed"
    /\ left = 0
    /\ todo' = Tail(todo)
    /\ UNCHANGED <<cfg, stage, authorizer, errCh, left, serving, exit>>

Stopped == stage = "shutdown" /\ todo = <<>> /\ Exit("stopped")

Tick ==
    /\ stage = "shutdown" /\ left > 0
    /\ left' = left - 1
    /\ UNCHANGED <<cfg, stage, authorizer, errCh, todo, serving, exit>>

\* The goroutine of run, apart from what it waits for.
MainStep ==
    \/ Load \/ LoadFiles \/ SelectAuthorizer \/ StartListeners \/ NotifyContext
    \/ ReceiveError \/ CloseListener \/ Drained \/ DeadlinePassed \/ Stopped

Next ==
    \/ MainStep \/ ReceiveSignal \/ KilledEarly \/ Tick
    \/ \E l \in Listeners : Bind(l) \/ ListenerFails(l)
    \/ \E r \in Reqs : Finish(r) \/ \E l \in Listeners : Accept(r, l)

Spec == Init /\ [][Next]_vars

\* The main goroutine runs when it can, and time passes. Requests may hang.
FairSpec == Spec /\ WF_vars(MainStep) /\ WF_vars(Tick)

-----------------------------------------------------------------------------
(* Correctness                                                             *)

Stages == {"load", "files", "authorizer", "scep", "launched", "select", "shutdown", "exited"}

(* The types of the process's state.                                        *)
TypeOK ==
    /\ cfg \in Configs
    /\ stage \in Stages
    /\ authorizer \in [kind : {"none", "allowAll", "pipeline"},
                       validator : {"nil", "static"}]
    /\ listener \in [Listeners -> {"off", "starting", "up", "failed", "closed"}]
    /\ errCh \in 0..3   \* make(chan error, 3): no listener blocks on its report
    /\ todo \in Seq(Listeners)
    /\ left \in 0..ShutdownTimeout
    /\ at \in [Reqs -> Listeners \cup {NoListener}]
    /\ req \in [Reqs -> {"none", "active", "done", "cut"}]
    /\ exit \in {"no", "error", "killed", "stopped"}

Gated == cfg.allowUnauthenticated \/ authorizer.validator # "nil"

(* A listener that accepts requests has behind it what Validate and the        *)
(* constructors, which look at the configuration separately and at different   *)
(* times, must have agreed on: an authorizer, a trust anchor, a validator if   *)
(* challenges are required, and for SCEP, whose clients have no certificate    *)
(* to begin with, a validator or the operator's word - unless the development  *)
(* flag is set.                                                              *)
NeverServesUngated ==
    \A r \in Reqs : req[r] # "none" =>
        /\ authorizer.kind # "none"
        /\ cfg.bootstrap = "ok" \/ cfg.device = "ok"
        /\ ~cfg.devAllowAll => /\ authorizer.kind = "pipeline"
                               /\ cfg.requireCPP => authorizer.validator # "nil"
                               /\ at[r] = "scep" => Gated

(* After a signal was caught, a request in flight on any listener, however     *)
(* late it was accepted and however many listeners failed meanwhile, is cut     *)
(* only when the whole deadline has passed.                                   *)
CutOnlyAtDeadline ==
    exit = "stopped" /\ left > 0 => \A r \in Reqs : req[r] # "cut"

(* A process that stopped on a signal left no listener accepting, whatever     *)
(* failed or bound late while it shut down.                                   *)
StoppedMeansClosed ==
    exit = "stopped" => \A l \in Listeners : listener[l] \in {"closed", "off"}

(* A failed listener or a shutdown that has begun ends the process, even if    *)
(* requests hang on every listener.                                           *)
StopsInTheEnd ==
    (stage = "shutdown" \/ (errCh > 0 /\ stage = "select")) ~> stage = "exited"
=============================================================================
