--------------------------- MODULE ProcessProofs ---------------------------
(***************************************************************************)
(* Proofs about Process, for every set of configurations, any number of     *)
(* requests and any shutdown deadline.                                      *)
(***************************************************************************)
EXTENDS Process, TLAPS

-----------------------------------------------------------------------------
(* Start-up: what has been built by the time something serves               *)

\* Every constructor succeeded, and gave the authorizer the configuration selects.
Built == Validates /\ FilesLoad /\ AuthorizerBuilds /\ authorizer = SelectedAuthorizer

\* The stages in which listeners run.
Serving == {"launched", "select", "shutdown"}

\* Each stage is reached only through those before it, and a listener exists,
\* the SCEP one included, only when all are behind.
BuildInv ==
    /\ stage \in {"files", "authorizer", "scep"} => Validates
    /\ stage \in {"authorizer", "scep"} => FilesLoad
    /\ stage = "scep" => AuthorizerBuilds /\ authorizer = SelectedAuthorizer
    /\ stage \in Serving => Built
    /\ \A l \in Listeners : listener[l] # "off" =>
          /\ Built
          /\ stage \in Serving \cup {"exited"}
          /\ l = "scep" => cfg.scep

\* A request was accepted by a listener that exists.
AcceptInv ==
    \A r \in Reqs : req[r] # "none" => at[r] \in Listeners /\ listener[at[r]] # "off"

\* The fields of the state that Build-up and acceptance rest on.
StateOK ==
    /\ cfg \in Config
    /\ listener \in [Listeners -> {"off", "starting", "up", "failed", "closed"}]
    /\ todo \in Seq(Listeners)
    /\ left \in Nat
    /\ at \in [Reqs -> Listeners \cup {NoListener}]
    /\ req \in [Reqs -> {"none", "active", "done", "cut"}]

\* Listener l has not been shut down yet.
Waiting(l) == \E i \in 1..Len(todo) : todo[i] = l

\* What is still to be shut down is only what was started.
TodoInv == Waiting("scep") => cfg.scep

\* The inductive invariant of construction.
PInv == StateOK /\ BuildInv /\ AcceptInv /\ TodoInv

\* Taking the head off leaves every other listener waiting, and no new one.
LEMMA HeadOff ==
    ASSUME todo \in Seq(Listeners), todo # <<>>
    PROVE  /\ Head(todo) \in Listeners /\ Waiting(Head(todo))
           /\ todo' = Tail(todo) => todo' \in Seq(Listeners)
           /\ todo' = Tail(todo) =>
                 \A l \in Listeners : /\ Waiting(l)' => Waiting(l)
                                     /\ Waiting(l) => Waiting(l)' \/ l = Head(todo)
<1>1. Head(todo) = todo[1] /\ 1 \in 1..Len(todo) /\ Head(todo) \in Listeners
  OBVIOUS
<1>2. /\ Tail(todo) \in Seq(Listeners)
      /\ Len(Tail(todo)) = Len(todo) - 1
      /\ \A i \in 1..Len(Tail(todo)) : Tail(todo)[i] = todo[i + 1]
  OBVIOUS
<1>3. Waiting(Head(todo))
  BY <1>1 DEF Waiting
<1>4. ASSUME todo' = Tail(todo), NEW l \in Listeners, Waiting(l)'
      PROVE  Waiting(l)
  <2>1. PICK i \in 1..Len(Tail(todo)) : Tail(todo)[i] = l
    BY <1>4 DEF Waiting
  <2>2. i + 1 \in 1..Len(todo) /\ todo[i + 1] = l
    BY <1>2, <2>1
  <2> QED  BY <2>2 DEF Waiting
<1>5. ASSUME todo' = Tail(todo), NEW l \in Listeners, Waiting(l), l # Head(todo)
      PROVE  Waiting(l)'
  <2>1. PICK i \in 1..Len(todo) : todo[i] = l
    BY <1>5 DEF Waiting
  <2>2. i # 1
    BY <1>1, <1>5, <2>1
  <2>3. i - 1 \in 1..Len(Tail(todo)) /\ Tail(todo)[i - 1] = l
    BY <1>2, <2>1, <2>2
  <2> QED  BY <1>5, <2>3 DEF Waiting
<1> QED  BY <1>1, <1>2, <1>3, <1>4, <1>5

\* The configuration is fixed, and with it what the constructors make of it.
LEMMA Fixed ==
    ASSUME cfg' = cfg
    PROVE  /\ Validates' = Validates /\ FilesLoad' = FilesLoad
           /\ AuthorizerBuilds' = AuthorizerBuilds
           /\ SelectedAuthorizer' = SelectedAuthorizer
  BY DEF Validates, ScepConfigured, NoBackend, FilesLoad, AuthorizerBuilds,
         InventoryBuilds, ChallengeBuilds, SelectedAuthorizer

\* A shutdown takes in EST, health and, if it is configured, SCEP.
LEMMA Order ==
    /\ ShutdownOrder \in Seq(Listeners)
    /\ todo' = ShutdownOrder =>
          /\ Waiting("est")' /\ Waiting("health")'
          /\ Waiting("scep")' => cfg.scep
          /\ cfg.scep => Waiting("scep")'
<1> DEFINE Three == <<"est", "health", "scep">>
           Two == <<"est", "health">>
<1>1. "est" \in Listeners /\ "health" \in Listeners /\ "scep" \in Listeners
  BY DEF Listeners
<1>2. /\ Three \in Seq(Listeners) /\ Len(Three) = 3
      /\ Three[1] = "est" /\ Three[2] = "health" /\ Three[3] = "scep"
  BY <1>1
<1>3. /\ Two \in Seq(Listeners) /\ Len(Two) = 2
      /\ Two[1] = "est" /\ Two[2] = "health"
  BY <1>1
<1>4. CASE cfg.scep
  <2>1. ShutdownOrder = Three
    BY <1>4 DEF ShutdownOrder
  <2> HIDE DEF Three
  <2>2. todo' = Three => Waiting("est")' /\ Waiting("health")' /\ Waiting("scep")'
    BY <1>2 DEF Waiting
  <2> QED  BY <1>2, <1>4, <2>1, <2>2
<1>5. CASE ~cfg.scep
  <2>1. ShutdownOrder = Two
    BY <1>5 DEF ShutdownOrder
  <2> HIDE DEF Two
  <2>2. todo' = Two => Waiting("est")' /\ Waiting("health")' /\ ~Waiting("scep")'
    BY <1>3 DEF Waiting
  <2> QED  BY <1>3, <1>5, <2>1, <2>2
<1> QED  BY <1>4, <1>5

\* The process starts in it.
LEMMA Start == Init => PInv
<1> SUFFICES ASSUME Init PROVE PInv
  OBVIOUS
<1>1. cfg \in Config
  BY ConfigsAssumption DEF Init
<1>2. ShutdownTimeout \in Nat
  BY TimeoutAssumption
<1>3. StateOK
  BY <1>1, <1>2 DEF Init, StateOK
<1>4. BuildInv
  BY DEF Init, BuildInv, Serving
<1>5. AcceptInv
  BY DEF Init, AcceptInv
<1>6. TodoInv
  BY DEF Init, TodoInv, Waiting
<1> QED  BY <1>3, <1>4, <1>5, <1>6 DEF PInv

\* The types are kept.
LEMMA StateStep == StateOK /\ [Next]_vars => StateOK'
<1> SUFFICES ASSUME StateOK, [Next]_vars PROVE StateOK'
  OBVIOUS
<1> USE DEF StateOK
<1>0. CASE UNCHANGED vars
  BY <1>0 DEF vars, serving
<1>1. CASE Load
  BY <1>1 DEF Load, Build, serving
<1>2. CASE LoadFiles
  BY <1>2 DEF LoadFiles, Build, serving
<1>3. CASE SelectAuthorizer
  BY <1>3 DEF SelectAuthorizer, Build, serving
<1>4. CASE StartListeners
  BY <1>4 DEF StartListeners, Build
<1>5. CASE NotifyContext
  BY <1>5 DEF NotifyContext, serving
<1>6. CASE ReceiveError
  BY <1>6 DEF ReceiveError, Exit
<1>7. CASE CloseListener
  BY <1>7, HeadOff DEF CloseListener
<1>8. CASE Drained
  BY <1>8, HeadOff DEF Drained, serving
<1>9. CASE DeadlinePassed
  BY <1>9, HeadOff DEF DeadlinePassed, serving
<1>10. CASE Stopped
  BY <1>10 DEF Stopped, Exit
<1>11. CASE ReceiveSignal
  BY <1>11, Order, TimeoutAssumption DEF ReceiveSignal, serving
<1>12. CASE KilledEarly
  BY <1>12 DEF KilledEarly, Exit
<1>13. CASE Tick
  BY <1>13 DEF Tick, serving
<1>14. ASSUME NEW l \in Listeners, Bind(l) \/ ListenerFails(l)
       PROVE  StateOK'
  BY <1>14 DEF Bind, ListenerFails
<1>15. ASSUME NEW r \in Reqs, Finish(r)
       PROVE  StateOK'
  BY <1>15 DEF Finish
<1>16. ASSUME NEW r \in Reqs, NEW l \in Listeners, Accept(r, l)
       PROVE  StateOK'
  BY <1>16 DEF Accept
<1> QED
  BY <1>0, <1>1, <1>2, <1>3, <1>4, <1>5, <1>6, <1>7, <1>8, <1>9, <1>10, <1>11,
     <1>12, <1>13, <1>14, <1>15, <1>16 DEF Next, MainStep

\* Start-up goes through its stages in order, and listeners only follow them.
LEMMA BuildStep == PInv /\ [Next]_vars => BuildInv'
<1> SUFFICES ASSUME PInv, [Next]_vars PROVE BuildInv'
  OBVIOUS
<1> USE DEF PInv, StateOK, BuildInv, Built, Serving
<1>f. cfg' = cfg => /\ Validates' = Validates /\ FilesLoad' = FilesLoad
                    /\ AuthorizerBuilds' = AuthorizerBuilds
                    /\ SelectedAuthorizer' = SelectedAuthorizer
  BY Fixed
<1>0. CASE UNCHANGED vars
  BY <1>0, <1>f DEF vars, serving
<1>1. CASE Load
  BY <1>1, <1>f DEF Load, Build, serving
<1>2. CASE LoadFiles
  BY <1>2, <1>f DEF LoadFiles, Build, serving
<1>3. CASE SelectAuthorizer
  BY <1>3, <1>f DEF SelectAuthorizer, Build, serving
<1>4. CASE StartListeners
  BY <1>4, <1>f DEF StartListeners, Build
<1>5. CASE NotifyContext
  BY <1>5, <1>f DEF NotifyContext, serving
<1>6. CASE ReceiveError
  BY <1>6, <1>f DEF ReceiveError, Exit
<1>7. CASE CloseListener
  <2>1. Head(todo) \in Listeners /\ (Head(todo) = "scep" => cfg.scep)
    BY <1>7, HeadOff DEF CloseListener, TodoInv
  <2>2. /\ stage = "shutdown" /\ stage' = stage /\ cfg' = cfg
        /\ authorizer' = authorizer
        /\ listener' = [listener EXCEPT ![Head(todo)] = "closed"]
    BY <1>7 DEF CloseListener
  <2> QED  BY <2>1, <2>2, <1>f
<1>8. CASE Drained
  BY <1>8, <1>f DEF Drained, serving
<1>9. CASE DeadlinePassed
  BY <1>9, <1>f DEF DeadlinePassed, serving
<1>10. CASE Stopped
  BY <1>10, <1>f DEF Stopped, Exit
<1>11. CASE ReceiveSignal
  BY <1>11, <1>f DEF ReceiveSignal, serving
<1>12. CASE KilledEarly
  BY <1>12, <1>f DEF KilledEarly, Exit
<1>13. CASE Tick
  BY <1>13, <1>f DEF Tick, serving
<1>14. ASSUME NEW l \in Listeners, Bind(l) \/ ListenerFails(l)
       PROVE  BuildInv'
  BY <1>14, <1>f DEF Bind, ListenerFails
<1>15. ASSUME NEW r \in Reqs, Finish(r)
       PROVE  BuildInv'
  BY <1>15, <1>f DEF Finish
<1>16. ASSUME NEW r \in Reqs, NEW l \in Listeners, Accept(r, l)
       PROVE  BuildInv'
  BY <1>16, <1>f DEF Accept
<1> QED
  BY <1>0, <1>1, <1>2, <1>3, <1>4, <1>5, <1>6, <1>7, <1>8, <1>9, <1>10, <1>11,
     <1>12, <1>13, <1>14, <1>15, <1>16 DEF Next, MainStep

\* No listener disappears once it has accepted a request.
LEMMA AcceptStep == PInv /\ [Next]_vars => AcceptInv'
<1> SUFFICES ASSUME PInv, [Next]_vars PROVE AcceptInv'
  OBVIOUS
<1> USE DEF PInv, StateOK, AcceptInv
<1>1. CASE UNCHANGED vars \/ Load \/ LoadFiles \/ SelectAuthorizer \/ NotifyContext
  BY <1>1 DEF vars, serving, Load, LoadFiles, SelectAuthorizer, NotifyContext
<1>2. CASE Drained \/ DeadlinePassed \/ ReceiveSignal \/ Tick
  BY <1>2 DEF serving, Drained, DeadlinePassed, ReceiveSignal, Tick
<1>3. CASE StartListeners
  <2>1. \A l \in Listeners : listener[l] = "off"
    BY <1>3 DEF StartListeners, Build, BuildInv, Serving
  <2> QED  BY <1>3, <2>1 DEF StartListeners
<1>4. CASE ReceiveError \/ Stopped \/ KilledEarly
  BY <1>4 DEF ReceiveError, Stopped, KilledEarly, Exit
<1>5. CASE CloseListener
  BY <1>5, HeadOff DEF CloseListener
<1>6. ASSUME NEW l \in Listeners, Bind(l) \/ ListenerFails(l)
      PROVE  AcceptInv'
  BY <1>6 DEF Bind, ListenerFails
<1>7. ASSUME NEW r \in Reqs, Finish(r)
      PROVE  AcceptInv'
  BY <1>7 DEF Finish
<1>8. ASSUME NEW r \in Reqs, NEW l \in Listeners, Accept(r, l)
      PROVE  AcceptInv'
  BY <1>8 DEF Accept
<1> QED
  BY <1>1, <1>2, <1>3, <1>4, <1>5, <1>6, <1>7, <1>8 DEF Next, MainStep

\* Every step keeps what waits for its shutdown to what was started.
LEMMA TodoStep == PInv /\ [Next]_vars => TodoInv'
<1> SUFFICES ASSUME PInv, [Next]_vars PROVE TodoInv'
  OBVIOUS
<1> USE DEF PInv, StateOK, TodoInv
<1>1. CASE Drained \/ DeadlinePassed
  <2>1. "scep" \in Listeners /\ todo # <<>> /\ todo' = Tail(todo) /\ cfg' = cfg
    BY <1>1 DEF Drained, DeadlinePassed, Listeners
  <2>2. Waiting("scep")' => Waiting("scep")
    BY <2>1, HeadOff DEF Waiting
  <2> QED  BY <2>1, <2>2
<1>2. CASE ReceiveSignal
  BY <1>2, Order DEF ReceiveSignal
<1>3. CASE todo' = todo /\ cfg' = cfg
  BY <1>3 DEF Waiting
<1>4. Next => Drained \/ DeadlinePassed \/ ReceiveSignal \/ (todo' = todo /\ cfg' = cfg)
  BY DEF Next, MainStep, Load, LoadFiles, SelectAuthorizer, StartListeners, Build,
         NotifyContext, ReceiveError, CloseListener, Stopped, Exit, KilledEarly, Tick,
         Bind, ListenerFails, Finish, Accept
<1> QED  BY <1>1, <1>2, <1>3, <1>4 DEF vars

\* So PInv always holds.
LEMMA BuildUp == Spec => []PInv
<1>1. PInv /\ [Next]_vars => PInv'
  BY StateStep, BuildStep, AcceptStep, TodoStep DEF PInv
<1> QED  BY Start, <1>1, PTL DEF Spec

(* Whatever configuration the process was started with, a request is accepted  *)
(* only if Validate and the constructors agreed on an authorizer, an anchor    *)
(* and, for SCEP and where challenges are required, a validator.              *)
THEOREM OnlyGatedServes == Spec => []NeverServesUngated
<1>1. PInv => NeverServesUngated
  <2> SUFFICES ASSUME PInv, NEW r \in Reqs, req[r] # "none"
               PROVE  /\ authorizer.kind # "none"
                      /\ cfg.bootstrap = "ok" \/ cfg.device = "ok"
                      /\ ~cfg.devAllowAll => /\ authorizer.kind = "pipeline"
                                             /\ cfg.requireCPP => authorizer.validator # "nil"
                                             /\ at[r] = "scep" => Gated
    BY DEF NeverServesUngated
  <2>1. Built /\ (at[r] = "scep" => cfg.scep)
    BY DEF PInv, AcceptInv, BuildInv
  <2>2. cfg \in Config
    BY DEF PInv, StateOK
  <2>3. cfg.bootstrap = "ok" \/ cfg.device = "ok"
    BY <2>1, <2>2 DEF Built, Validates, FilesLoad, Config
  <2>4. authorizer.kind # "none" /\ (~cfg.devAllowAll => authorizer.kind = "pipeline")
    BY <2>1 DEF Built, SelectedAuthorizer
  <2>5. ~cfg.devAllowAll /\ ~NoBackend => authorizer.validator # "nil"
    BY <2>1 DEF Built, SelectedAuthorizer
  <2>6. /\ cfg.requireCPP => ~NoBackend
        /\ at[r] = "scep" => (NoBackend => cfg.allowUnauthenticated)
    BY <2>1 DEF Built, Validates, ScepConfigured
  <2> QED  BY <2>3, <2>4, <2>5, <2>6 DEF Gated
<1> QED  BY <1>1, BuildUp, PTL

-----------------------------------------------------------------------------
(* Shutdown                                                                *)

\* A listener that was shut down accepts nothing more and has nothing in flight,
\* or the deadline has passed.
DownOrOff(l) == listener[l] = "off" \/ (listener[l] = "closed" /\ (left = 0 \/ Active(l) = {}))

\* During the shutdown each listener waits for its turn or is down.
ShutInv == stage = "shutdown" => \A l \in Listeners : Waiting(l) \/ DownOrOff(l)

\* Requests are cut, and the process has stopped, only when it is over.
RunInv == Running => exit # "stopped" /\ \A r \in Reqs : req[r] # "cut"

\* The inductive invariant of the end.
EInv == RunInv /\ ShutInv /\ CutOnlyAtDeadline /\ StoppedMeansClosed

\* Every listener stays waiting or down while the process shuts down.
LEMMA ShutStep == PInv /\ ShutInv /\ [Next]_vars => ShutInv'
<1> SUFFICES ASSUME PInv, ShutInv, [Next]_vars, stage' = "shutdown", NEW l \in Listeners
             PROVE  Waiting(l)' \/ DownOrOff(l)'
  BY DEF ShutInv
<1> USE DEF PInv, StateOK
<1>0. CASE UNCHANGED vars
  BY <1>0 DEF vars, serving, ShutInv, DownOrOff, Active, Waiting
<1>1. CASE ReceiveSignal
  <2>1. l \in {"est", "health", "scep"}
    BY DEF Listeners
  <2>2. CASE l = "scep" /\ ~cfg.scep
    <3>1. listener[l] = "off" /\ listener' = listener
      BY <1>1, <2>2 DEF BuildInv, ReceiveSignal, serving
    <3> QED  BY <3>1 DEF DownOrOff
  <2>3. CASE l # "scep" \/ cfg.scep
    <3>1. todo' = ShutdownOrder
      BY <1>1 DEF ReceiveSignal
    <3> QED  BY <2>1, <2>3, <3>1, Order
  <2> QED  BY <2>2, <2>3
<1>2. CASE CloseListener
  <2>1. /\ stage = "shutdown" /\ todo' = todo /\ left' = left /\ at' = at /\ req' = req
        /\ listener' = [listener EXCEPT ![Head(todo)] = "closed"] /\ todo # <<>>
    BY <1>2 DEF CloseListener
  <2>2. Waiting(Head(todo))
    BY <2>1, HeadOff
  <2>3. CASE l = Head(todo)
    BY <2>1, <2>2, <2>3 DEF Waiting
  <2>4. CASE l # Head(todo)
    BY <2>1, <2>4 DEF ShutInv, DownOrOff, Active, Waiting
  <2> QED  BY <2>3, <2>4
<1>3. CASE Drained \/ DeadlinePassed
  <2>1. /\ stage = "shutdown" /\ todo' = Tail(todo) /\ left' = left /\ at' = at /\ req' = req
        /\ listener' = listener /\ todo # <<>> /\ listener[Head(todo)] = "closed"
        /\ left = 0 \/ Active(Head(todo)) = {}
    BY <1>3 DEF Drained, DeadlinePassed, serving
  <2>2. DownOrOff(Head(todo))
    BY <2>1 DEF DownOrOff
  <2>3. Waiting(l) => Waiting(l)' \/ l = Head(todo)
    BY <2>1, HeadOff
  <2>4. DownOrOff(l)' = DownOrOff(l)
    BY <2>1 DEF DownOrOff, Active
  <2> QED  BY <2>1, <2>2, <2>3, <2>4 DEF ShutInv
<1>4. CASE Tick
  BY <1>4 DEF Tick, serving, ShutInv, DownOrOff, Active, Waiting
<1>5. ASSUME NEW k \in Listeners, Bind(k) \/ ListenerFails(k)
      PROVE  Waiting(l)' \/ DownOrOff(l)'
  <2>1. /\ stage = "shutdown" /\ todo' = todo /\ left' = left /\ at' = at /\ req' = req
        /\ listener[k] \notin {"off", "closed"}
        /\ l # k => listener'[l] = listener[l]
    BY <1>5 DEF Bind, ListenerFails
  <2>2. l = k => Waiting(l)
    BY <2>1 DEF ShutInv, DownOrOff
  <2> QED  BY <2>1, <2>2 DEF ShutInv, DownOrOff, Active, Waiting
<1>6. ASSUME NEW r \in Reqs, NEW k \in Listeners, Accept(r, k)
      PROVE  Waiting(l)' \/ DownOrOff(l)'
  <2>1. /\ stage = "shutdown" /\ todo' = todo /\ left' = left /\ listener' = listener
        /\ listener[k] = "up"
        /\ at' = [at EXCEPT ![r] = k] /\ req' = [req EXCEPT ![r] = "active"]
    BY <1>6 DEF Accept
  <2>2. l = k => Waiting(l)
    BY <2>1 DEF ShutInv, DownOrOff
  <2>3. l # k => Active(l)' \subseteq Active(l)
    BY <2>1 DEF Active
  <2> QED  BY <2>1, <2>2, <2>3 DEF ShutInv, DownOrOff, Waiting
<1>7. ASSUME NEW r \in Reqs, Finish(r)
      PROVE  Waiting(l)' \/ DownOrOff(l)'
  <2>1. /\ stage = "shutdown" /\ todo' = todo /\ left' = left /\ listener' = listener
        /\ at' = at /\ req' = [req EXCEPT ![r] = "done"]
    BY <1>7 DEF Finish
  <2>2. Active(l)' \subseteq Active(l)
    BY <2>1 DEF Active
  <2> QED  BY <2>1, <2>2 DEF ShutInv, DownOrOff, Waiting
<1>8. ~(\/ Load \/ LoadFiles \/ SelectAuthorizer \/ StartListeners \/ NotifyContext
        \/ ReceiveError \/ Stopped \/ KilledEarly)
  BY DEF Load, LoadFiles, SelectAuthorizer, StartListeners, Build, NotifyContext,
         ReceiveError, Stopped, KilledEarly, Exit
<1> QED
  BY <1>0, <1>1, <1>2, <1>3, <1>4, <1>5, <1>6, <1>7, <1>8 DEF Next, MainStep

\* Only Stopped ends the process as stopped, and by then every listener is down.
LEMMA EndStep == PInv /\ EInv /\ [Next]_vars => EInv'
<1> SUFFICES ASSUME PInv, EInv, [Next]_vars PROVE EInv'
  OBVIOUS
<1>0. ShutInv'
  BY ShutStep DEF EInv
<1>1. CASE UNCHANGED vars
  BY <1>0, <1>1 DEF vars, serving, EInv, RunInv, Running, CutOnlyAtDeadline, StoppedMeansClosed
<1>2. CASE Stopped
  <2>1. /\ stage = "shutdown" /\ todo = <<>> /\ stage' = "exited"
        /\ listener' = listener /\ left' = left
        /\ req' = [r \in Reqs |-> IF req[r] = "active" THEN "cut" ELSE req[r]]
    BY <1>2 DEF Stopped, Exit
  <2>2. \A l \in Listeners : DownOrOff(l)
    BY <2>1 DEF EInv, ShutInv, Waiting
  <2>3. StoppedMeansClosed'
    BY <2>1, <2>2 DEF StoppedMeansClosed, DownOrOff
  <2>4. ASSUME NEW r \in Reqs, req'[r] = "cut" PROVE left = 0
    <3>1. req[r] = "active"
      BY <2>1, <2>4 DEF EInv, RunInv, Running
    <3>2. at[r] \in Listeners /\ listener[at[r]] # "off" /\ r \in Active(at[r])
      BY <3>1 DEF PInv, AcceptInv, Active
    <3> QED  BY <2>2, <3>2 DEF DownOrOff
  <2>5. CutOnlyAtDeadline'
    BY <2>1, <2>4 DEF CutOnlyAtDeadline
  <2> QED  BY <1>0, <2>1, <2>3, <2>5 DEF EInv, RunInv, Running
<1>3. CASE ReceiveError \/ KilledEarly
  BY <1>0, <1>3 DEF ReceiveError, KilledEarly, Exit, EInv, RunInv, Running,
                    CutOnlyAtDeadline, StoppedMeansClosed
<1>4. CASE Running /\ exit' \in {exit, "error"} /\ \A r \in Reqs : req'[r] # "cut"
  BY <1>0, <1>4 DEF EInv, RunInv, Running, CutOnlyAtDeadline, StoppedMeansClosed
<1>5. ASSUME Next
      PROVE  \/ Stopped \/ ReceiveError \/ KilledEarly
             \/ Running /\ exit' \in {exit, "error"} /\ \A r \in Reqs : req'[r] # "cut"
  <2> USE DEF EInv, RunInv, Running, PInv, StateOK
  <2>1. CASE Load \/ LoadFiles \/ SelectAuthorizer \/ StartListeners \/ NotifyContext
    BY <2>1 DEF Load, LoadFiles, SelectAuthorizer, StartListeners, Build, NotifyContext, serving
  <2>2. CASE CloseListener \/ Drained \/ DeadlinePassed \/ ReceiveSignal \/ Tick
    BY <2>2 DEF CloseListener, Drained, DeadlinePassed, ReceiveSignal, Tick, serving
  <2>3. ASSUME NEW l \in Listeners, Bind(l) \/ ListenerFails(l)
        PROVE  Running /\ exit' \in {exit, "error"} /\ \A r \in Reqs : req'[r] # "cut"
    BY <2>3 DEF Bind, ListenerFails
  <2>4. ASSUME NEW q \in Reqs, Finish(q) \/ \E l \in Listeners : Accept(q, l)
        PROVE  Running /\ exit' \in {exit, "error"} /\ \A r \in Reqs : req'[r] # "cut"
    BY <2>4 DEF Finish, Accept
  <2> QED  BY <1>5, <2>1, <2>2, <2>3, <2>4 DEF Next, MainStep
<1> QED  BY <1>1, <1>2, <1>3, <1>4, <1>5

\* It always holds.
LEMMA Ends == Spec => []EInv
<1>1. Init => EInv
  BY DEF Init, EInv, RunInv, ShutInv, CutOnlyAtDeadline, StoppedMeansClosed
<1> QED  BY <1>1, EndStep, BuildUp, PTL DEF Spec

(* After a signal was caught no request, on whichever listener and however      *)
(* late it was accepted, is cut before the whole deadline has passed.          *)
THEOREM DrainedToTheDeadline == Spec => []CutOnlyAtDeadline
<1>1. EInv => CutOnlyAtDeadline
  BY DEF EInv
<1> QED  BY <1>1, Ends, PTL

(* A process that stopped on a signal has shut down every listener it started, *)
(* those that failed or bound late included.                                 *)
THEOREM AllShutDown == Spec => []StoppedMeansClosed
<1>1. EInv => StoppedMeansClosed
  BY DEF EInv
<1> QED  BY <1>1, Ends, PTL

-----------------------------------------------------------------------------
(* Types                                                                   *)

\* Whether l's goroutine is over.
Out(l) == IF listener[l] \in {"failed", "closed"} THEN 1 ELSE 0

\* A listener reports once, and whoever reported is out for good: the channel's
\* three places suffice.
ReportInv == errCh \in Nat /\ errCh <= Out("est") + Out("health") + Out("scep")

\* The types of what the other invariants do not speak of.
RestOK ==
    /\ cfg \in Configs /\ stage \in Stages
    /\ authorizer \in [kind : {"none", "allowAll", "pipeline"}, validator : {"nil", "static"}]
    /\ left \in 0..ShutdownTimeout
    /\ exit \in {"no", "error", "killed", "stopped"}

\* Every step keeps the count of reports.
LEMMA ReportStep == PInv /\ ReportInv /\ [Next]_vars => ReportInv'
<1> SUFFICES ASSUME PInv, ReportInv, [Next]_vars PROVE ReportInv'
  OBVIOUS
<1> USE DEF ReportInv, Out
<1>l. /\ "est" \in Listeners /\ "health" \in Listeners /\ "scep" \in Listeners
      /\ \A l \in Listeners : l = "est" \/ l = "health" \/ l = "scep"
      /\ listener \in [Listeners -> {"off", "starting", "up", "failed", "closed"}]
  BY DEF Listeners, PInv, StateOK
<1>1. CASE StartListeners
  <2>1. \A l \in Listeners : listener[l] = "off"
    BY <1>1 DEF PInv, StartListeners, Build, BuildInv, Serving
  <2>2. errCh' = errCh /\ errCh = 0
    BY <1>1, <1>l, <2>1 DEF StartListeners, Build
  <2> QED  BY <1>l, <2>2
<1>2. CASE CloseListener
  <2>1. Head(todo) \in Listeners
    BY <1>2, HeadOff DEF PInv, StateOK, CloseListener
  <2> QED  BY <1>2, <1>l, <2>1 DEF CloseListener
<1>3. ASSUME NEW l \in Listeners, ListenerFails(l)
      PROVE  ReportInv'
  BY <1>3, <1>l DEF ListenerFails
<1>4. ASSUME NEW l \in Listeners, Bind(l)
      PROVE  ReportInv'
  BY <1>4, <1>l DEF Bind
<1>5. CASE errCh' = errCh /\ listener' = listener
  BY <1>5
<1>6. Next => \/ StartListeners \/ CloseListener
              \/ \E l \in Listeners : ListenerFails(l) \/ Bind(l)
              \/ (errCh' = errCh /\ listener' = listener)
  BY DEF Next, MainStep, Load, LoadFiles, SelectAuthorizer, Build, NotifyContext,
         ReceiveError, Drained, DeadlinePassed, Stopped, Exit, ReceiveSignal,
         KilledEarly, Tick, Finish, Accept, serving
<1> QED  BY <1>1, <1>2, <1>3, <1>4, <1>5, <1>6 DEF vars, serving

\* Every step keeps these types.
LEMMA RestStep == RestOK /\ [Next]_vars => RestOK'
<1> SUFFICES ASSUME RestOK, [Next]_vars PROVE RestOK'
  OBVIOUS
<1> USE DEF RestOK, Stages
<1>1. CASE UNCHANGED vars
  BY <1>1 DEF vars
<1>2. CASE Load \/ LoadFiles \/ StartListeners \/ NotifyContext
  BY <1>2 DEF Load, LoadFiles, StartListeners, Build, NotifyContext
<1>3. CASE SelectAuthorizer
  BY <1>3 DEF SelectAuthorizer, SelectedAuthorizer, Build
<1>4. CASE ReceiveError \/ Stopped \/ KilledEarly
  BY <1>4 DEF ReceiveError, Stopped, KilledEarly, Exit
<1>5. CASE CloseListener \/ Drained \/ DeadlinePassed \/ Tick
  BY <1>5, TimeoutAssumption DEF CloseListener, Drained, DeadlinePassed, Tick
<1>6. CASE ReceiveSignal
  BY <1>6, TimeoutAssumption DEF ReceiveSignal
<1>7. ASSUME NEW l \in Listeners, Bind(l) \/ ListenerFails(l)
      PROVE  RestOK'
  BY <1>7 DEF Bind, ListenerFails
<1>8. ASSUME NEW r \in Reqs, Finish(r) \/ \E l \in Listeners : Accept(r, l)
      PROVE  RestOK'
  BY <1>8 DEF Finish, Accept
<1> QED  BY <1>1, <1>2, <1>3, <1>4, <1>5, <1>6, <1>7, <1>8 DEF Next, MainStep

(* The process's state keeps its types; above all the error channel, made with *)
(* three places, never has more than three errors, so no listener's goroutine   *)
(* blocks on its report.                                                     *)
THEOREM TypeCorrect == Spec => []TypeOK
<1>1. Init => ReportInv /\ RestOK
  <2> SUFFICES ASSUME Init PROVE ReportInv /\ RestOK
    OBVIOUS
  <2>1. ReportInv
    BY DEF Init, ReportInv, Out
  <2>2. RestOK
    BY TimeoutAssumption DEF Init, RestOK, Stages, NoAuthorizer
  <2> QED  BY <2>1, <2>2
<1>2. PInv /\ ReportInv /\ RestOK => TypeOK
  <2> SUFFICES ASSUME PInv, ReportInv, RestOK PROVE TypeOK
    OBVIOUS
  <2>1. errCh \in 0..3
    BY DEF ReportInv, Out
  <2> QED  BY <2>1 DEF PInv, StateOK, RestOK, TypeOK
<1> QED  BY <1>1, <1>2, ReportStep, RestStep, BuildUp, PTL DEF Spec
=============================================================================
