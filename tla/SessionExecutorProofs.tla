----------------------- MODULE SessionExecutorProofs -----------------------
(***************************************************************************)
(* One listener at a time and none after stop, for any number of           *)
(* consumers, messages, stops and rollbacks.  What matters is who lets go  *)
(* of a runner: only stop does, and it waits for the runner to end before  *)
(* the executor runs again and may create the next one.                    *)
(***************************************************************************)
EXTENDS SessionExecutor, FiniteSetTheorems, TLAPS

\* The places of a runner, of the connection's thread and the Scheduler's, and
\* of the application's, as long as no listener restarts the session.
RunnerPlaces ==
    {"none", "loop", "consumer", "poll", "dequeue", "dispatch", "lock",
     "listening", "wakeup", "notify", "remove", "after", "wait", "done"}
HelperPlaces == {"idle", "wakeup", "notify"}
ApplicationPlaces ==
    {"idle", "stopConsumers", "stopExecutor", "shutdown", "join", "stopped",
     "startConsumers", "startExecutor", "check", "wakeup", "notify",
     "remove"}
Places == RunnerPlaces \cup ApplicationPlaces

PlaceInv ==
    /\ pc \in [Threads -> Places]
    /\ ret \in [Threads -> Places]
    /\ target \in [Threads -> {Nobody} \cup Runners]
    /\ \A r \in Runners :
          /\ pc[r] \in RunnerPlaces
          /\ pc[r] \in {"wakeup", "notify"} => ret[r] = "after"
    /\ \A t \in {Connection, Scheduler} :
          pc[t] \in HelperPlaces /\ ret[t] = "idle"
    /\ pc[Application] \in ApplicationPlaces
    /\ pc[Application] \in {"wakeup", "notify"} =>
          ret[Application] \in {"startConsumers", "startExecutor", "idle"}
    /\ pc[Application] = "remove" => ret[Application] \in {"idle", "stopped"}

\* A stop pays for the runner that the next start may create.
CountInv ==
    /\ created \in Nat /\ stops \in Nat /\ stops <= MaxStops
    /\ taskRunner \in {Nobody, created}
    /\ created <= stops + 1
    /\ taskRunner = Nobody => created <= stops
    /\ pc[Application] \in {"stopConsumers", "stopExecutor"} =>
          created <= stops /\ (taskRunner = Nobody => created < stops)

\* All runners but the last one have ended.
RunnersInv ==
    \A r \in Runners : /\ r > created <=> pc[r] = "none"
                       /\ r < created => pc[r] = "done"

Quiet == \A r \in Runners : pc[r] \in {"none", "done"}

\* The application is between the end of stop and start's running = true.
Stopped ==
    \/ pc[Application] \in {"stopped", "startConsumers", "startExecutor"}
    \/ /\ pc[Application] \in {"wakeup", "notify"}
       /\ ret[Application] \in {"startConsumers", "startExecutor"}
    \/ pc[Application] = "remove" /\ ret[Application] = "stopped"

\* A runner that the executor has let go of has ended or is being joined.
StopInv ==
    /\ taskRunner = Nobody =>
          \/ Quiet
          \/ /\ pc[Application] \in {"shutdown", "join"}
             /\ target[Application] = created
    /\ ~running => taskRunner = Nobody
    /\ pc[Application] \in {"shutdown", "join"} =>
          ~running /\ target[Application] = created /\ created # Nobody
    /\ Stopped => ~running /\ Quiet

JInv == PlaceInv /\ CountInv /\ RunnersInv /\ StopInv

\* A listener that restarts the session ends all this.
IInv == restarted \/ JInv

-----------------------------------------------------------------------------

\* Threads are told apart.
LEMMA ThreadFacts ==
    /\ Runners \subseteq Threads
    /\ Application \in Threads /\ Connection \in Threads
    /\ Scheduler \in Threads
    /\ Application \notin Runners /\ Connection \notin Runners
    /\ Scheduler \notin Runners /\ Nobody \notin Runners
    /\ Application # Connection /\ Application # Scheduler
    /\ Connection # Scheduler
    /\ Runners \subseteq Nat
    /\ \A t \in Threads : \/ t \in Runners \/ t = Application
                          \/ t = Connection \/ t = Scheduler
BY ExecutorAssumption
   DEF Threads, Runners, Application, Connection, Scheduler, Nobody

\* The initial states satisfy the invariant.
LEMMA InitIInv == Init => IInv
<1> SUFFICES ASSUME Init PROVE JInv
    BY DEF IInv
<1>1. PlaceInv
    BY ThreadFacts DEF Init, PlaceInv, Places, RunnerPlaces, HelperPlaces,
                       ApplicationPlaces
<1>2. CountInv /\ RunnersInv
    BY ThreadFacts, ExecutorAssumption
       DEF Init, CountInv, RunnersInv, Nobody, Runners
<1>3. StopInv
    BY ThreadFacts DEF Init, StopInv, Quiet, Stopped
<1> QED
    BY <1>1, <1>2, <1>3 DEF JInv

\* A step that changes nothing of this preserves the invariant.
LEMMA Unchanged ==
    ASSUME JInv, UNCHANGED <<pc, ret, target, taskRunner, created, running,
                             stops>>
    PROVE  JInv'
BY DEF JInv, PlaceInv, CountInv, RunnersInv, StopInv, Quiet, Stopped

\* A runner that is alive may go anywhere in its loop.
LEMMA RunnerGoes ==
    ASSUME JInv, NEW r \in Runners, pc[r] \notin {"none", "done"},
           NEW where \in RunnerPlaces \ {"none"}, Goto(r, where),
           \/ UNCHANGED ret /\ where \notin {"wakeup", "notify"}
           \/ UNCHANGED ret /\ pc[r] = "wakeup"
           \/ ret' = [ret EXCEPT ![r] = "after"],
           \E n \in {Nobody} \cup Runners :
              target' = target \/ target' = [target EXCEPT ![r] = n],
           UNCHANGED <<taskRunner, created, running, stops>>
    PROVE  JInv'
<1>1. /\ pc' = [pc EXCEPT ![r] = where] /\ pc'[r] = where
      /\ \A t \in Threads \ {r} : /\ pc'[t] = pc[t] /\ ret'[t] = ret[t]
                                  /\ target'[t] = target[t]
    BY ThreadFacts DEF JInv, PlaceInv, Goto
<1>2. PlaceInv'
  <2>1. /\ pc' \in [Threads -> Places]
        /\ ret' \in [Threads -> Places]
        /\ target' \in [Threads -> {Nobody} \cup Runners]
    BY ThreadFacts DEF JInv, PlaceInv, Goto, Places, RunnerPlaces
  <2>2. pc'[r] \in {"wakeup", "notify"} => ret'[r] = "after"
    BY <1>1, ThreadFacts DEF JInv, PlaceInv
  <2> QED
    BY <1>1, <2>1, <2>2, ThreadFacts DEF JInv, PlaceInv
<1>3. CountInv' /\ RunnersInv'
    BY <1>1, ThreadFacts DEF JInv, CountInv, RunnersInv
<1>4. StopInv'
    BY <1>1, ThreadFacts DEF JInv, StopInv, Quiet, Stopped
<1> QED
    BY <1>2, <1>3, <1>4 DEF JInv

\* The connection's thread and the Scheduler's only deliver wakeups.
LEMMA HelperGoes ==
    ASSUME JInv, NEW t \in {Connection, Scheduler},
           NEW where \in HelperPlaces, Goto(t, where),
           ret' = ret \/ ret' = [ret EXCEPT ![t] = "idle"],
           \E n \in {Nobody} \cup Runners :
              target' = target \/ target' = [target EXCEPT ![t] = n],
           UNCHANGED <<taskRunner, created, running, stops>>
    PROVE  JInv'
<1>1. /\ pc'[t] = where /\ ret'[t] = "idle"
      /\ \A u \in Threads \ {t} : /\ pc'[u] = pc[u] /\ ret'[u] = ret[u]
                                  /\ target'[u] = target[u]
    BY ThreadFacts DEF JInv, PlaceInv, Goto
<1>2. PlaceInv'
    BY <1>1, ThreadFacts DEF JInv, PlaceInv, Places, HelperPlaces, Goto,
                             ApplicationPlaces
<1>3. CountInv' /\ RunnersInv'
    BY <1>1, ThreadFacts DEF JInv, CountInv, RunnersInv
<1>4. StopInv'
    BY <1>1, ThreadFacts DEF JInv, StopInv, Quiet, Stopped
<1> QED
    BY <1>2, <1>3, <1>4 DEF JInv

\* A thread returns from wakeup.
LEMMA Returns ==
    ASSUME JInv, NEW t \in Threads, pc[t] \in {"wakeup", "notify"},
           Goto(t, ret[t]),
           UNCHANGED <<ret, target, taskRunner, created, running, stops>>
    PROVE  JInv'
<1>1. CASE t \in Runners
    BY <1>1, RunnerGoes DEF JInv, PlaceInv, RunnerPlaces
<1>2. CASE t \in {Connection, Scheduler}
    BY <1>2, HelperGoes DEF JInv, PlaceInv, HelperPlaces
<1>3. CASE t = Application
  <2>1. /\ pc'[t] = ret[t] /\ \A u \in Threads \ {t} : pc'[u] = pc[u]
        /\ ret[t] \in {"startConsumers", "startExecutor", "idle"}
    BY <1>3, ThreadFacts DEF JInv, PlaceInv, Goto
  <2>2. PlaceInv'
    BY <1>3, <2>1, ThreadFacts
       DEF JInv, PlaceInv, Goto, Places, ApplicationPlaces
  <2>3. CountInv' /\ RunnersInv'
    BY <1>3, <2>1, ThreadFacts DEF JInv, CountInv, RunnersInv
  <2>4. StopInv'
    BY <1>3, <2>1, ThreadFacts DEF JInv, StopInv, Quiet, Stopped
  <2> QED
    BY <2>2, <2>3, <2>4 DEF JInv
<1> QED
    BY <1>1, <1>2, <1>3, ThreadFacts

\* One runner more, when the executor has none and runs.
LEMMA RunnerCreated ==
    ASSUME JInv, NEW t \in Threads, Wakeup(t), taskRunner = Nobody, running
    PROVE  JInv'
<1>1. Quiet /\ t \notin Runners
    BY ThreadFacts DEF JInv, StopInv, Quiet, Wakeup
<1>2. /\ ~Stopped /\ pc[Application] \notin {"shutdown", "join"}
      /\ pc[Application] \in {"stopConsumers", "stopExecutor"}
            => created < stops
    BY <1>1 DEF JInv, StopInv, CountInv
<1>3. /\ created + 1 \in Runners
      /\ created' = created + 1 /\ taskRunner' = created + 1
      /\ UNCHANGED <<ret, running, stops>>
      /\ target' = [target EXCEPT ![t] = created + 1]
      /\ pc' = [pc EXCEPT ![created + 1] = "loop", ![t] = "notify"]
    BY ExecutorAssumption
       DEF JInv, CountInv, Wakeup, Runners, channelVars, countVars
<1>4. /\ pc'[created + 1] = "loop" /\ pc'[t] = "notify"
      /\ \A u \in Threads \ {t, created + 1} : pc'[u] = pc[u]
    BY <1>1, <1>3, ThreadFacts DEF JInv, PlaceInv
<1>5. PlaceInv'
  <2>1. /\ pc' \in [Threads -> Places]
        /\ target' \in [Threads -> {Nobody} \cup Runners]
    BY <1>3, ThreadFacts DEF JInv, PlaceInv, Places, RunnerPlaces
  <2>2. pc[t] = "wakeup"
    BY DEF Wakeup
  <2> QED
    BY <1>1, <1>3, <1>4, <2>1, <2>2, ThreadFacts
       DEF JInv, PlaceInv, RunnerPlaces, HelperPlaces, ApplicationPlaces
<1>6. CountInv'
  <2>1. /\ pc'[Application] \in {"stopConsumers", "stopExecutor"}
              => created < stops
        /\ created \in Nat /\ stops \in Nat /\ stops <= MaxStops
        /\ created <= stops
    BY <1>2, <1>3, <1>4, ThreadFacts, Zenon DEF JInv, CountInv
  <2> QED
    BY <1>3, <2>1, SMT DEF CountInv, Nobody
<1>7. RunnersInv'
  <2> SUFFICES ASSUME NEW r \in Runners
               PROVE  /\ r > created + 1 <=> pc'[r] = "none"
                      /\ r < created + 1 => pc'[r] = "done"
    BY <1>3, Zenon DEF RunnersInv
  <2>1. CASE r = created + 1
    BY <1>4, <2>1, ThreadFacts DEF JInv, CountInv
  <2>2. CASE r # created + 1
    <3>1. pc'[r] = pc[r] /\ pc[r] \in {"none", "done"}
      BY <1>1, <1>4, <2>2, ThreadFacts DEF Quiet
    <3>2. (r > created <=> pc[r] = "none") /\ r \in Nat /\ created \in Nat
      BY ThreadFacts DEF JInv, CountInv, RunnersInv
    <3> QED
      BY <2>2, <3>1, <3>2
  <2> QED
    BY <2>1, <2>2
<1>8. ~Stopped' /\ pc'[Application] \notin {"shutdown", "join"}
    BY <1>1, <1>2, <1>3, <1>4, ThreadFacts, Zenon DEF Stopped, Wakeup
<1>9. StopInv'
    BY <1>3, <1>8, ThreadFacts DEF StopInv
<1> QED
    BY <1>5, <1>6, <1>7, <1>9 DEF JInv

\* Wakeup, by any thread.
LEMMA WakeupJInv ==
    ASSUME JInv, NEW t \in Threads, Wakeup(t)
    PROVE  JInv'
<1>1. pc[t] = "wakeup" /\ UNCHANGED <<ret, running, stops>>
    BY DEF Wakeup, channelVars, countVars
<1>2. CASE taskRunner # Nobody
  <2>1. /\ taskRunner \in Runners
        /\ Goto(t, "notify") /\ target' = [target EXCEPT ![t] = taskRunner]
        /\ UNCHANGED <<taskRunner, created>>
    BY <1>2, ExecutorAssumption
       DEF JInv, CountInv, Wakeup, WakeupRunner, runnerVars, Runners, Nobody
  <2>2. CASE t \in Runners
    BY <1>1, <2>1, <2>2, RunnerGoes, Zenon DEF RunnerPlaces
  <2>3. CASE t \in {Connection, Scheduler}
    BY <1>1, <2>1, <2>3, HelperGoes, Zenon DEF HelperPlaces
  <2>4. CASE t = Application
    <3>1. /\ pc'[t] = "notify" /\ \A u \in Threads \ {t} : pc'[u] = pc[u]
      BY <2>1, <2>4, ThreadFacts DEF JInv, PlaceInv, Goto
    <3>2. PlaceInv'
      BY <1>1, <2>1, <2>4, <3>1, ThreadFacts
         DEF JInv, PlaceInv, Goto, Places, ApplicationPlaces
    <3>3. CountInv' /\ RunnersInv'
      BY <1>1, <2>1, <2>4, <3>1, ThreadFacts DEF JInv, CountInv, RunnersInv
    <3>4. StopInv'
      BY <1>1, <1>2, <2>1, <2>4, <3>1, ThreadFacts
         DEF JInv, StopInv, Quiet, Stopped
    <3> QED
      BY <3>2, <3>3, <3>4 DEF JInv
  <2> QED
    BY <2>2, <2>3, <2>4, ThreadFacts
<1>3. CASE taskRunner = Nobody /\ ~running
  <2>1. Goto(t, ret[t]) /\ UNCHANGED <<target, taskRunner, created>>
    BY <1>3 DEF Wakeup, runnerVars
  <2> QED
    BY <1>1, <2>1, Returns
<1>4. CASE taskRunner = Nobody /\ running
    BY <1>4, RunnerCreated
<1> QED
    BY <1>2, <1>3, <1>4

-----------------------------------------------------------------------------
(* stop and start, by the application.                                     *)

OneMoreStop == stops < MaxStops /\ stops' = stops + 1

\* The application goes on, apart from stop of the executor and from start.
Advances(where, back) ==
    /\ where \in ApplicationPlaces /\ back \in Places
    /\ Goto(Application, where)
    /\ ret' = ret \/ ret' = [ret EXCEPT ![Application] = back]
    /\ where \in {"wakeup", "notify"} =>
          ret'[Application] \in {"startConsumers", "startExecutor", "idle"}
    /\ where = "remove" => ret'[Application] \in {"idle", "stopped"}
    /\ where \in {"shutdown", "join"} <=>
          pc[Application] \in {"shutdown", "join"}
    /\ where \in {"stopConsumers", "stopExecutor"} =>
          \/ pc[Application] \in {"stopConsumers", "stopExecutor"}
          \/ OneMoreStop
    /\ UNCHANGED stops \/ OneMoreStop
    /\ UNCHANGED <<target, taskRunner, created, running>>

\* Going on like this preserves the invariant.
LEMMA ApplicationGoes ==
    ASSUME JInv, NEW where, NEW back, Advances(where, back),
           Stopped' => Stopped
    PROVE  JInv'
<1>1. /\ pc'[Application] = where
      /\ \A u \in Threads \ {Application} : pc'[u] = pc[u] /\ ret'[u] = ret[u]
    BY ThreadFacts DEF JInv, PlaceInv, Goto, Advances
<1>2. PlaceInv'
    BY <1>1, ThreadFacts DEF JInv, PlaceInv, Goto, Places, Advances
<1>3. CountInv'
    BY <1>1, ExecutorAssumption DEF JInv, CountInv, Advances, OneMoreStop
<1>4. RunnersInv' /\ (Quiet => Quiet')
    BY <1>1, ThreadFacts DEF JInv, RunnersInv, Quiet, Advances
<1>5. StopInv'
    BY <1>1, <1>4 DEF JInv, StopInv, Advances
<1> QED
    BY <1>2, <1>3, <1>4, <1>5 DEF JInv

\* Those steps of stop and start, and close.
LEMMA ApplicationJInv ==
    ASSUME JInv,
           \/ Stop \/ Start
           \/ StopConsumer(Application) \/ Shutdown(Application)
           \/ StartConsumer(Application) \/ WakeupIfUnconsumed(Application)
           \/ RemoveConsumer(Application) \/ \E c \in Consumers : Close(c)
    PROVE  JInv'
<1> DEFINE back == ret[Application]
<1>0. back \in Places
    BY ThreadFacts DEF JInv, PlaceInv
<1>1. CASE Stop
  <2>1. Advances("stopConsumers", back) /\ pc[Application] = "idle"
    BY <1>0, <1>1
       DEF Stop, Advances, OneMoreStop, ApplicationPlaces, runnerVars,
           channelVars
  <2>2. ~Stopped'
    BY <2>1, ThreadFacts DEF Advances, Stopped, Goto, JInv, PlaceInv
  <2> QED
    BY <2>1, <2>2, ApplicationGoes
<1>2. CASE Start
  <2>1. Advances("startConsumers", back) /\ Stopped
    BY <1>0, <1>2 DEF Start, Advances, Stopped, ApplicationPlaces, runnerVars,
                      channelVars, countVars
  <2> QED
    BY <2>1, ApplicationGoes
<1>3. CASE StopConsumer(Application)
  <2>1. PICK where \in {"stopConsumers", "stopExecutor"} :
           Advances(where, back)
    BY <1>0, <1>3 DEF StopConsumer, NextOf, Advances, ApplicationPlaces,
                      runnerVars, channelVars, countVars
  <2>2. ~Stopped'
    BY <2>1, ThreadFacts DEF Advances, Stopped, Goto, JInv, PlaceInv
  <2> QED
    BY <2>1, <2>2, ApplicationGoes
<1>4. CASE Shutdown(Application)
  <2>1. Advances("join", back)
    BY <1>0, <1>4 DEF Shutdown, Advances, ApplicationPlaces, channelVars,
                      countVars
  <2>2. ~Stopped'
    BY <2>1, ThreadFacts DEF Advances, Stopped, Goto, JInv, PlaceInv
  <2> QED
    BY <2>1, <2>2, ApplicationGoes
<1>5. CASE StartConsumer(Application)
  <2>1. PICK next \in {"startConsumers", "startExecutor"} :
           /\ \/ Goto(Application, next) /\ UNCHANGED ret
              \/ /\ Goto(Application, "wakeup")
                 /\ ret' = [ret EXCEPT ![Application] = next]
           /\ pc[Application] = "startConsumers"
           /\ UNCHANGED <<target, taskRunner, created, running, stops>>
    BY <1>5, Zenon DEF StartConsumer, NextOf, CallWakeup, runnerVars,
                       channelVars,
                countVars
  <2>2. Stopped /\ (Advances(next, next) \/ Advances("wakeup", next))
    BY <2>1, ThreadFacts
       DEF Advances, Stopped, ApplicationPlaces, Places, JInv, PlaceInv
  <2> QED
    BY <2>2, ApplicationGoes, Zenon
<1>6. CASE WakeupIfUnconsumed(Application)
  <2>1. /\ \/ Goto(Application, "idle") /\ UNCHANGED ret
           \/ /\ Goto(Application, "wakeup")
              /\ ret' = [ret EXCEPT ![Application] = "idle"]
        /\ pc[Application] = "check"
        /\ UNCHANGED <<target, taskRunner, created, running, stops>>
    BY <1>6 DEF WakeupIfUnconsumed, WakeupIf, AfterStart, CallWakeup,
                runnerVars, channelVars, countVars
  <2>2. Advances("idle", "idle") \/ Advances("wakeup", "idle")
    BY <2>1, ThreadFacts
       DEF Advances, ApplicationPlaces, Places, JInv, PlaceInv
  <2>3. ~Stopped'
    BY <2>1, ThreadFacts DEF Stopped, Goto, JInv, PlaceInv
  <2> QED
    BY <2>2, <2>3, ApplicationGoes
<1>7. CASE RemoveConsumer(Application)
  <2>1. /\ pc[Application] = "remove" /\ Goto(Application, back)
        /\ back \in {"idle", "stopped"}
        /\ UNCHANGED <<ret, target, taskRunner, created, running, stops>>
    BY <1>7, Zenon DEF RemoveConsumer, runnerVars, channelVars, countVars,
                       JInv,
                PlaceInv
  <2>2. Stopped' => Stopped
    BY <2>1, ThreadFacts DEF Stopped, Goto, JInv, PlaceInv
  <2>3. Advances(back, back)
    BY <1>0, <2>1 DEF Advances, ApplicationPlaces
  <2> QED
    BY <2>2, <2>3, ApplicationGoes, Zenon
<1>8. ASSUME NEW c \in Consumers, Close(c) PROVE JInv'
  <2>1. PICK at \in {"idle", "stopped"} :
           /\ pc[Application] = at /\ Goto(Application, "remove")
           /\ ret' = [ret EXCEPT ![Application] = at]
           /\ UNCHANGED <<target, taskRunner, created, running, stops>>
    BY <1>8, Zenon DEF Close, runnerVars, channelVars, countVars
  <2>2. Stopped' => Stopped
    BY <2>1, ThreadFacts DEF Stopped, Goto, JInv, PlaceInv
  <2>3. Advances("remove", at)
    BY <2>1, ThreadFacts
       DEF Advances, ApplicationPlaces, Places, JInv, PlaceInv
  <2> QED
    BY <2>2, <2>3, ApplicationGoes
<1> QED
    BY <1>1, <1>2, <1>3, <1>4, <1>5, <1>6, <1>7, <1>8

\* The executor stops: it lets go of its runner, if it has one.
LEMMA StopExecutorJInv ==
    ASSUME JInv, StopExecutor(Application)
    PROVE  JInv'
<1>1. /\ pc[Application] = "stopExecutor" /\ ~running'
      /\ taskRunner' = Nobody /\ UNCHANGED <<ret, created, stops>>
    BY DEF StopExecutor, StopExecutorTaking, JInv, StopInv, countVars
<1>2. PICK where \in {"shutdown", "stopped"} :
         /\ Goto(Application, where)
         /\ target' = [target EXCEPT ![Application] = taskRunner]
         /\ where = "shutdown" <=> taskRunner # Nobody
    BY Zenon DEF StopExecutor, StopExecutorTaking, AfterStop, JInv, StopInv
<1>3. /\ pc'[Application] = where /\ target'[Application] = taskRunner
      /\ \A u \in Threads \ {Application} : pc'[u] = pc[u]
    BY <1>2, ThreadFacts DEF JInv, PlaceInv, Goto
<1>4. taskRunner = Nobody \/ (taskRunner = created /\ created \in Runners)
    BY ExecutorAssumption DEF JInv, CountInv, Runners, Nobody
<1>5. PlaceInv'
    BY <1>1, <1>2, <1>3, <1>4, ThreadFacts
       DEF JInv, PlaceInv, Goto, Places, ApplicationPlaces
<1>6. CountInv'
    BY <1>1, <1>2, <1>3 DEF JInv, CountInv
<1>7. RunnersInv' /\ (Quiet => Quiet')
    BY <1>1, <1>3, ThreadFacts DEF JInv, RunnersInv, Quiet
<1>8. StopInv'
    BY <1>1, <1>2, <1>3, <1>4, <1>7, ThreadFacts DEF JInv, StopInv, Stopped
<1> QED
    BY <1>5, <1>6, <1>7, <1>8 DEF JInv

\* The application has waited for the last runner.
LEMMA JoinJInv ==
    ASSUME JInv, Join(Application)
    PROVE  JInv'
<1>1. /\ pc[Application] = "join" /\ Goto(Application, "stopped")
      /\ UNCHANGED <<ret, target, taskRunner, created, running, stops>>
    BY DEF Join, JoinIf, AfterStop, runnerVars, channelVars, countVars
<1>2. /\ pc'[Application] = "stopped"
      /\ \A u \in Threads \ {Application} : pc'[u] = pc[u]
    BY <1>1, ThreadFacts DEF JInv, PlaceInv, Goto
<1>3. pc[created] = "done"
  <2>1. target[Application] = created /\ target[Application] # Application
    BY <1>1, ThreadFacts DEF JInv, StopInv, PlaceInv, Nobody, Application
  <2> QED
    BY <2>1 DEF Join, JoinIf
<1>4. Quiet
    BY <1>3, ThreadFacts DEF JInv, CountInv, RunnersInv, Quiet
<1>5. PlaceInv'
    BY <1>1, <1>2, ThreadFacts
       DEF JInv, PlaceInv, Goto, Places, ApplicationPlaces
<1>6. CountInv'
    BY <1>1, <1>2 DEF JInv, CountInv
<1>7. RunnersInv' /\ Quiet'
    BY <1>1, <1>2, <1>4, ThreadFacts DEF JInv, RunnersInv, Quiet
<1>8. StopInv'
    BY <1>1, <1>2, <1>7 DEF JInv, StopInv
<1> QED
    BY <1>5, <1>6, <1>7, <1>8, ZenonT(30) DEF JInv

\* The executor starts: nothing of the last runner is left.
LEMMA StartExecutorJInv ==
    ASSUME JInv, StartExecutor(Application)
    PROVE  JInv'
<1>1. /\ pc[Application] = "startExecutor" /\ running'
      /\ Stopped /\ Goto(Application, "check")
      /\ UNCHANGED <<ret, target, taskRunner, created, stops>>
    BY DEF StartExecutor, Stopped, JInv, StopInv, runnerVars, countVars
<1>2. /\ pc'[Application] = "check"
      /\ \A u \in Threads \ {Application} : pc'[u] = pc[u]
    BY <1>1, ThreadFacts DEF JInv, PlaceInv, Goto
<1>3. PlaceInv'
    BY <1>1, <1>2, ThreadFacts
       DEF JInv, PlaceInv, Goto, Places, ApplicationPlaces
<1>4. CountInv'
    BY <1>1, <1>2 DEF JInv, CountInv
<1>5. RunnersInv' /\ (Quiet => Quiet')
    BY <1>1, <1>2, ThreadFacts DEF JInv, RunnersInv, Quiet
<1>6. ~Stopped'
    BY <1>2 DEF Stopped
<1>7. StopInv'
    BY <1>1, <1>2, <1>5, <1>6 DEF JInv, StopInv
<1> QED
    BY <1>3, <1>4, <1>5, <1>7, Zenon DEF JInv

-----------------------------------------------------------------------------
(* The runners, and all steps.                                             *)

\* What a runner does, in iterate and in a listener that does not restart.
LEMMA RunnerJInv ==
    ASSUME JInv, NEW r \in Runners,
           \/ RunnerStep(r) \/ ListenerReturns(r) \/ ListenerThrows(r)
           \/ ListenerCloses(r) \/ RemoveConsumer(r)
    PROVE  JInv'
<1>1. /\ pc[r] \notin {"none", "done"}
      /\ UNCHANGED <<target, taskRunner, created, running, stops>>
    BY ZenonT(30) DEF RunnerStep, Loop, Wait, LockListener, Poll, Dequeue,
                      Dispatch,
           CallListener, AfterDispatch, ListenerReturns, ListenerThrows,
           ListenerCloses, RemoveConsumer, runnerVars, channelVars, countVars
<1>2. CASE ListenerThrows(r)
    BY <1>1, <1>2, RunnerGoes, Zenon DEF ListenerThrows, CallWakeup,
                                         RunnerPlaces
<1>3. CASE RunnerStep(r)
  <2>1. PICK where \in RunnerPlaces \ {"none", "wakeup", "notify"} :
           Goto(r, where) /\ UNCHANGED ret
    BY <1>3, Zenon DEF RunnerStep, Loop, Wait, LockListener, Poll, Dequeue,
                       Dispatch,
                CallListener, AfterDispatch, RunnerPlaces
  <2> QED
    BY <1>1, <2>1, RunnerGoes
<1>4. CASE ListenerReturns(r) \/ ListenerCloses(r) \/ RemoveConsumer(r)
  <2>1. PICK where \in {"after", "remove", "listening"} :
           Goto(r, where) /\ UNCHANGED ret
    BY <1>4, ThreadFacts DEF ListenerReturns, ListenerCloses, RemoveConsumer
  <2> QED
    BY <1>1, <2>1, RunnerGoes DEF RunnerPlaces
<1> QED
    BY <1>2, <1>3, <1>4, Zenon

\* Every step, until a listener restarts the session.
LEMMA NextIInv == IInv /\ [Next]_vars => IInv'
<1> SUFFICES ASSUME JInv, ~restarted, [Next]_vars PROVE IInv'
  <2>1. restarted /\ [Next]_vars => restarted'
    BY ZenonT(30) DEF Next, RunnerStep, ListenerStep, CallStep, Loop, Wait,
                      LockListener,
           Poll, Dequeue, Dispatch, CallListener, AfterDispatch,
           ListenerReturns, ListenerThrows, ListenerRestarts, ListenerCloses,
           Wakeup, Notify, StopConsumer, StopExecutor, StopExecutorTaking,
           Shutdown, Join, JoinIf, StartConsumer, StartExecutor,
           WakeupIfUnconsumed, WakeupIf, RemoveConsumer, StartConsumerTask,
           Close, Execute, Stop, Start, countVars, vars
  <2> QED
    BY <2>1, Zenon DEF IInv
<1>1. CASE UNCHANGED vars
    BY <1>1, Unchanged DEF IInv, vars, channelVars, runnerVars, countVars
<1>2. ASSUME NEW r \in Runners, RunnerStep(r) \/ ListenerStep(r)
      PROVE  IInv'
  <2>1. CASE ListenerRestarts(r)
    BY <2>1 DEF ListenerRestarts, IInv
  <2> QED
    BY <1>2, <2>1, RunnerJInv DEF ListenerStep, IInv
<1>3. ASSUME NEW t \in Threads, CallStep(t) PROVE JInv'
  <2>1. CASE Wakeup(t)
    BY <2>1, WakeupJInv, Zenon
  <2>2. CASE Notify(t)
    BY <2>2, Returns DEF Notify, channelVars, countVars
  <2>3. CASE t = Application /\ ~Wakeup(t) /\ ~Notify(t)
    BY <1>3, <2>3, ApplicationJInv, StopExecutorJInv, JoinJInv,
       StartExecutorJInv DEF CallStep
  <2>4. CASE t # Application /\ ~Wakeup(t) /\ ~Notify(t)
    <3>1. \/ RemoveConsumer(t)
          \/ pc[t] \in {"stopConsumers", "stopExecutor", "shutdown", "join",
                        "startConsumers", "startExecutor", "check"}
      BY <1>3, <2>4, Zenon DEF CallStep, StopConsumer, StopExecutor,
         StopExecutorTaking, Shutdown, Join, JoinIf, StartConsumer,
         StartExecutor, WakeupIfUnconsumed, WakeupIf
    <3>2. RemoveConsumer(t) /\ t \in Runners
      BY <2>4, <3>1, ThreadFacts, Zenon
         DEF JInv, PlaceInv, RunnerPlaces, HelperPlaces, RemoveConsumer
    <3> QED
      BY <3>2, RunnerJInv, Zenon
  <2> QED
    BY <2>1, <2>2, <2>3, <2>4
<1>4. ASSUME NEW c \in Consumers, StartConsumerTask(c) PROVE JInv'
  <2>1. UNCHANGED <<target, taskRunner, created, running, stops>>
    BY <1>4, ZenonT(30) DEF StartConsumerTask, runnerVars, channelVars, countVars
  <2>2. CASE closed[c]
    BY <1>4, <2>1, <2>2, Unchanged DEF StartConsumerTask
  <2>3. CASE ~closed[c]
    <3>1. CallWakeup(Scheduler, "idle")
      BY <1>4, <2>3 DEF StartConsumerTask
    <3> QED
      BY <2>1, <3>1, HelperGoes DEF CallWakeup, HelperPlaces
  <2> QED
    BY <2>2, <2>3, Zenon
<1>5. ASSUME Execute PROVE JInv'
  <2>1. /\ CallWakeup(Connection, "idle")
        /\ UNCHANGED <<target, taskRunner, created, running, stops>>
    BY <1>5 DEF Execute, runnerVars, countVars
  <2> QED
    BY <2>1, HelperGoes DEF CallWakeup, HelperPlaces
<1>6. ASSUME Stop \/ Start \/ \E c \in Consumers : Close(c) PROVE JInv'
    BY <1>6, ApplicationJInv
<1> QED
    BY <1>1, <1>2, <1>3, <1>4, <1>5, <1>6 DEF Next, IInv

\* Until a listener restarts the session all runners of it but the last one
\* have ended, and the last one too when stop has returned.
THEOREM Invariant == Spec => []IInv
BY InitIInv, NextIInv, PTL DEF Spec

\* ActiveMQSessionExecutor calls one listener of a session at a time: when a
\* new runner is created the old one has ended, whoever calls wakeup between
\* stop and start.
THEOREM ListenersTakeTurns == Spec => []OneAtATime
<1>1. IInv => OneAtATime
  <2> SUFFICES ASSUME JInv PROVE Cardinality(InListener) <= 1
    BY DEF IInv, OneAtATime
  <2>1. InListener \subseteq {created}
    <3> SUFFICES ASSUME NEW r \in Runners, pc[r] \notin {"none", "done"}
                 PROVE  r = created
      BY DEF InListener
    <3> QED
      BY ThreadFacts DEF JInv, RunnersInv, CountInv
  <2>2. InListener = {} \/ InListener = {created}
    BY <2>1
  <2>3. Cardinality({}) = 0 /\ Cardinality({created}) = 1
    BY FS_EmptySet, FS_Singleton
  <2> QED
    BY <2>2, <2>3
<1> QED
    BY <1>1, Invariant, PTL

\* When stop has returned no listener is called until start.
THEOREM NothingAfterStop == Spec => []StopIsQuiet
<1>1. IInv => StopIsQuiet
    BY DEF IInv, JInv, StopInv, Stopped, Quiet, StopIsQuiet, InListener
<1> QED
    BY <1>1, Invariant, PTL
=============================================================================
