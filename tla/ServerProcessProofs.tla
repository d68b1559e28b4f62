------------------------- MODULE ServerProcessProofs -------------------------
(***************************************************************************)
(* Proofs about ServerProcess, for any number of contexts and of onClose   *)
(* handlers.                                                               *)
(***************************************************************************)
EXTENDS ServerProcess, TLAPS

\* What the steps of a task do to what the invariant reads.
LEMMA Names ==
  /\ "none" \notin Contexts /\ "gone" \notin Contexts
  /\ "main" \notin Handlers /\ "poll" \notin Tasks /\ "main" \in Tasks
BY ContextsAssumption DEF Tasks

LEMMA TypeInit == Init => TypeOK
BY DEF Init, ClientBlank, ServerBlank, TypeOK, Tasks, ClientSteps, MainSteps

\* The step of every task is a step of the client, or of main.
LEMMA StepTypes ==
  /\ \A s \in {"idle", "clearing", "closeQuery", "closeTx", "initialize", "fetch",
               "fetching", "connect", "tip"} : s \in ClientSteps
  /\ \A s \in {"configure", "introspect", "pots", "listen", "done", "failed"} :
       s \in MainSteps /\ s \notin ClientSteps
  /\ \A t \in Tasks : Returned(t) \in ClientSteps \cup MainSteps
BY DEF ClientSteps, MainSteps, Returned

LEMMA TypeShutTx ==
  ASSUME TypeOK, alive, NEW t \in Tasks, NEW sockets \in [Contexts -> {"open", "closing", "closed"}],
         ShutTx(t, sockets)
  PROVE  /\ socket' \in [Contexts -> {"open", "closing", "closed"}]
         /\ client' \in {"null", "initializing", "initialized"}
         /\ task' \in [Tasks -> ClientSteps \cup MainSteps]
         /\ own' \in [Tasks -> Contexts \cup {"none"}]
<1>1. CASE Open(tx)
  BY <1>1, StepTypes DEF ShutTx, Open, Owns, Goes, TypeOK
<1>2. CASE ~Open(tx)
  BY <1>2, StepTypes DEF ShutTx, Owns, Goes, Initialize, TypeOK
<1> QED BY <1>1, <1>2

\* TypeOK in parts, to prove one at a time.
SocketShape ==
  /\ client \in {"null", "initializing", "initialized"}
  /\ socket \in [Contexts -> {"open", "closing", "closed"}]
  /\ {query, tx} \subseteq Contexts \cup {"none", "gone"}
  /\ task \in [Tasks -> ClientSteps \cup MainSteps]
  /\ own \in [Tasks -> Contexts \cup {"none"}]

FetchShape ==
  /\ timer \in {"none", "live", "cleared"} /\ leaked \in BOOLEAN
  /\ isFetching \in BOOLEAN /\ inflight \subseteq Tasks \cup {"poll"} /\ value \in BOOLEAN

ServerShape ==
  /\ schema \in BOOLEAN /\ server \in {"null", "initializing", "initialized", "running"}
  /\ progress \in {"none", "live", "cleared"}
  /\ ticking \in BOOLEAN /\ dying \in BOOLEAN

LEMMA TypeParts ==
  TypeOK <=> /\ alive \in BOOLEAN /\ settled \in BOOLEAN
             /\ SocketShape /\ FetchShape /\ ServerShape
             /\ ~alive => ClientBlank /\ ServerBlank
BY DEF TypeOK, SocketShape, FetchShape, ServerShape

LEMMA RunningType ==
  ASSUME TypeOK, Running, SocketShape', FetchShape', ServerShape'
  PROVE  TypeOK'
<1>1. alive' /\ alive' \in BOOLEAN /\ settled' \in BOOLEAN
  BY Zenon DEF TypeOK, Running
<1> QED BY <1>1 DEF TypeOK, SocketShape, FetchShape, ServerShape

LEMMA FetcherStays == ASSUME FetchShape, UNCHANGED fetcher PROVE FetchShape'
BY Zenon DEF FetchShape, fetcher

LEMMA ServerStays == ASSUME ServerShape, UNCHANGED serverVars PROVE ServerShape'
BY Zenon DEF ServerShape, serverVars

LEMMA ClientStays ==
  ASSUME SocketShape, UNCHANGED <<client, socket, query, tx, task, own>> PROVE SocketShape'
BY DEF SocketShape

LEMMA TimerShape ==
  ASSUME FetchShape, SetTimer
  PROVE  timer' \in {"none", "live", "cleared"} /\ leaked' \in BOOLEAN
BY DEF SetTimer, FetchShape

LEMMA TypeClientStep ==
  ASSUME TypeOK, Owning, NEW t \in Tasks, Step(t)
  PROVE  TypeOK'
<1>1. Running /\ SocketShape /\ FetchShape /\ ServerShape'
  BY TypeParts, ServerStays DEF Step
<1>a. alive
  BY <1>1 DEF Running
<1>2. CASE EnterInitialize(t)
  <2>1. FetchShape'
    BY <1>1, <1>2, FetcherStays DEF EnterInitialize
  <2>2. SocketShape'
    BY <1>1, <1>2, StepTypes DEF EnterInitialize, Initialize, Goes, SocketShape
  <2> QED BY <1>1, <2>1, <2>2, RunningType
<1>3. CASE BeginFetch(t) \/ EndFetch(t)
  <2>1. FetchShape'
    <3>1. CASE BeginFetch(t) /\ ~isFetching
      BY <1>1, <3>1 DEF BeginFetch, FetchShape
    <3>2. CASE BeginFetch(t) /\ isFetching
      BY <1>1, <3>2, TimerShape DEF BeginFetch, FetchShape
    <3>3. CASE EndFetch(t)
      BY <1>1, <3>3, TimerShape DEF EndFetch, Fetched, FetchShape
    <3> QED BY <1>3, <3>1, <3>2, <3>3
  <2>2. SocketShape'
    BY <1>1, <1>3, StepTypes DEF BeginFetch, EndFetch, Goes, SocketShape
  <2> QED BY <1>1, <2>1, <2>2, RunningType
<1>4. ASSUME UNCHANGED fetcher, SocketShape' PROVE TypeOK'
  BY <1>1, <1>4, FetcherStays, RunningType
<1>5. CASE Connect(t)
  <2>1. SocketShape'
    BY <1>1, <1>5, StepTypes DEF Connect, Goes, Owns, SocketShape
  <2> QED BY <1>4, <1>5, <2>1 DEF Connect
<1>6. CASE TipAnswered(t)
  <2>1. own[t] \in Contexts
    BY <1>1, <1>6 DEF TipAnswered, Owning, SocketShape
  <2>2. SocketShape'
    BY <1>1, <1>6, <2>1, StepTypes DEF TipAnswered, Goes, Owns, SocketShape
  <2> QED BY <1>4, <1>6, <2>2 DEF TipAnswered
<1>7. CASE TipCutOff(t) \/ ClearedTogether(t)
  <2>1. SocketShape'
    BY <1>1, <1>7, StepTypes DEF TipCutOff, ClearedTogether, Goes, Owns, SocketShape
  <2> QED BY <1>4, <1>7, <2>1 DEF TipCutOff, ClearedTogether
<1>8. CASE Cleared(t)
  <2>1. ASSUME Open(query) PROVE SocketShape'
    <3>1. query \in Contexts /\ UNCHANGED <<client, query, tx>>
      BY <1>8, <2>1 DEF Cleared, Open
    <3>2. /\ socket' = [socket EXCEPT ![query] = "closing"]
          /\ task' = [task EXCEPT ![t] = "closeQuery"]
          /\ own' = [own EXCEPT ![t] = query]
      BY <1>8, <2>1 DEF Cleared, Goes, Owns
    <3> QED BY <1>1, <3>1, <3>2, StepTypes DEF SocketShape
  <2>2. ASSUME ~Open(query) PROVE SocketShape'
    <3>1. ShutTx(t, socket) /\ socket \in [Contexts -> {"open", "closing", "closed"}]
      BY <1>1, <1>8, <2>2 DEF Cleared, SocketShape
    <3>2. UNCHANGED <<query, tx>>
      BY <1>8 DEF Cleared
    <3> QED BY <1>1, <1>a, <3>1, <3>2, TypeShutTx DEF SocketShape
  <2>3. UNCHANGED fetcher
    BY <1>8 DEF Cleared
  <2> QED BY <1>4, <2>1, <2>2, <2>3
<1>9. CASE QueryShut(t)
  <2> DEFINE sockets == [socket EXCEPT ![own[t]] = "closed"]
  <2>1. ShutTx(t, sockets) /\ sockets \in [Contexts -> {"open", "closing", "closed"}]
    BY <1>1, <1>9 DEF QueryShut, SocketShape
  <2>2. {query', tx'} \subseteq Contexts \cup {"none", "gone"}
    BY <1>1, <1>9 DEF QueryShut, Leaves, SocketShape
  <2> HIDE DEF sockets
  <2>3. SocketShape'
    BY <1>a, <2>1, <2>2, TypeShutTx DEF SocketShape
  <2> QED BY <1>4, <1>9, <2>3 DEF QueryShut
<1>10. CASE TxShut(t)
  <2>1. SocketShape'
    BY <1>1, <1>10, StepTypes DEF TxShut, Leaves, Initialize, Owns, Goes, SocketShape
  <2> QED BY <1>4, <1>10, <2>1 DEF TxShut
<1> QED
  BY <1>2, <1>3, <1>5, <1>6, <1>7, <1>8, <1>9, <1>10 DEF Step, ClientStep

LEMMA TypeExit == ASSUME TypeOK, Exit PROVE TypeOK'
<1>1. alive' \in BOOLEAN /\ settled' \in BOOLEAN
  BY Zenon DEF Exit, TypeOK
<1>2. SocketShape' /\ FetchShape' /\ ServerShape'
  BY StepTypes DEF Exit, SocketShape, FetchShape, ServerShape
<1>3. ClientBlank' /\ ServerBlank'
  BY DEF Exit, ClientBlank, ServerBlank
<1> QED BY <1>1, <1>2, <1>3 DEF TypeOK, SocketShape, FetchShape, ServerShape

LEMMA TypeFault ==
  ASSUME TypeOK, Running, ClientFault, UNCHANGED serverVars
  PROVE  TypeOK'
<1>1. SocketShape /\ FetchShape /\ ServerShape'
  BY TypeParts, ServerStays
<1>2. ASSUME NEW c \in Contexts, SocketCloses(c) PROVE TypeOK'
  <2>1. task' \in [Tasks -> ClientSteps \cup MainSteps]
    BY <1>1, <1>2, StepTypes DEF SocketCloses, Goes, SocketShape
  <2>2. SocketShape'
    BY <1>1, <1>2, <2>1 DEF SocketCloses, Leaves, SocketShape
  <2>3. timer' \in {"none", "live", "cleared"} /\ UNCHANGED <<leaked, isFetching, inflight, value>>
    BY <1>1, <1>2 DEF SocketCloses, FetchShape
  <2>4. FetchShape'
    BY <1>1, <2>3, Zenon DEF FetchShape
  <2> QED BY <1>1, <2>2, <2>4, RunningType
<1>3. ASSUME NEW t \in Tasks, TipUnavailable(t) PROVE TypeOK'
  <2>1. SocketShape'
    BY <1>1, <1>3, StepTypes DEF TipUnavailable, Goes, Owns, SocketShape
  <2> QED BY <1>1, <1>3, <2>1, FetcherStays, RunningType DEF TipUnavailable
<1> QED BY <1>2, <1>3 DEF ClientFault

LEMMA TypeMain ==
  ASSUME TypeOK, Running, Main \/ MainFails
  PROVE  TypeOK'
<1>1. SocketShape /\ FetchShape /\ ServerShape /\ MainOnly
  BY TypeParts DEF Main, Configure, Introspect, FetchPots, Listen, MainFails
<1>2. FetchShape'
  BY <1>1, FetcherStays DEF MainOnly
<1>3. SocketShape'
  BY <1>1, StepTypes, Names
  DEF Main, Configure, Introspect, FetchPots, Listen, MainFails, MainOnly, Goes, SocketShape
<1>4. ticking' \in BOOLEAN /\ dying' \in BOOLEAN
  BY <1>1, Zenon DEF MainOnly, ServerShape
<1>5. /\ server' \in {"null", "initializing", "initialized", "running"}
      /\ progress' \in {"none", "live", "cleared"}
  BY <1>1 DEF Main, Configure, Introspect, FetchPots, Listen, MainFails, ServerShape
<1>6. schema' \in BOOLEAN
  BY <1>1, Zenon DEF Main, Configure, Introspect, FetchPots, Listen, MainFails, ServerShape
<1> QED BY <1>2, <1>3, <1>4, <1>5, <1>6, RunningType DEF ServerShape

LEMMA TypeProgress ==
  ASSUME TypeOK, Running, Tick \/ TickEnds \/ Signal
  PROVE  TypeOK'
<1>1. SocketShape /\ FetchShape /\ ServerShape /\ UNCHANGED clientVars
  BY TypeParts DEF Tick, TickEnds, Signal
<1>2. SocketShape' /\ FetchShape'
  BY <1>1, FetcherStays, ClientStays DEF clientVars
<1>3. progress' \in {"none", "live", "cleared"} /\ UNCHANGED <<schema, server>>
  BY <1>1 DEF Tick, TickEnds, Signal, ServerShape
<1>4. ticking' \in BOOLEAN /\ dying' \in BOOLEAN
  BY <1>1, Zenon DEF Tick, TickEnds, Signal, ServerShape
<1>5. schema' \in BOOLEAN
  BY <1>1, <1>3, Zenon DEF ServerShape
<1>6. ServerShape'
  BY <1>1, <1>3, <1>4, <1>5 DEF ServerShape
<1> QED BY <1>2, <1>6, RunningType

LEMMA TypePoll ==
  ASSUME TypeOK, Polling
  PROVE  TypeOK'
<1>1. /\ Running /\ SocketShape /\ FetchShape /\ ServerShape'
      /\ UNCHANGED <<client, socket, query, tx, task, own>>
  BY TypeParts, ServerStays DEF Polling, Poll, BeginPoll, EndPoll
<1>2. timer' \in {"none", "live", "cleared"} /\ inflight' \subseteq Tasks \cup {"poll"}
  BY <1>1 DEF Polling, Poll, BeginPoll, EndPoll, Fetched, FetchShape
<1>3. leaked' \in BOOLEAN /\ isFetching' \in BOOLEAN /\ value' \in BOOLEAN
  <2>1. CASE BeginPoll
    BY <1>1, <2>1, Zenon DEF BeginPoll, FetchShape
  <2>2. CASE EndPoll
    BY <1>1, <2>2 DEF EndPoll, Fetched, FetchShape
  <2> QED BY <2>1, <2>2 DEF Polling, Poll
<1>4. FetchShape'
  BY <1>2, <1>3 DEF FetchShape
<1> QED BY <1>1, <1>4, ClientStays, RunningType

LEMMA TypeNext ==
  ASSUME TypeOK, Owning, [Next]_vars
  PROVE  TypeOK'
<1>1. ASSUME UNCHANGED <<clientVars, serverVars>>, alive' \in BOOLEAN, settled' \in BOOLEAN,
             alive' = alive \/ ~alive
      PROVE  TypeOK'
  <2>1. SocketShape' /\ FetchShape' /\ ServerShape'
    BY <1>1, TypeParts, FetcherStays, ClientStays, ServerStays DEF clientVars
  <2>2. ~alive => ClientBlank' /\ ServerBlank'
    BY <1>1 DEF TypeOK, clientVars, fetcher, serverVars, ClientBlank, ServerBlank, Tasks
  <2>3. ~alive' => ~alive
    BY <1>1, Zenon
  <2> QED BY <1>1, <2>1, <2>2, <2>3 DEF TypeOK, SocketShape, FetchShape, ServerShape
<1>2. CASE UNCHANGED vars
  <2>1. alive' \in BOOLEAN /\ settled' \in BOOLEAN /\ alive' = alive
    BY <1>2, Zenon DEF TypeOK, vars
  <2> QED BY <1>1, <1>2, <2>1 DEF vars
<1>3. CASE Restart \/ Settle
  <2>1. alive' \in BOOLEAN /\ settled' \in BOOLEAN /\ (alive' = alive \/ ~alive)
    BY <1>3, Zenon DEF TypeOK, Restart, Settle
  <2> QED BY <1>1, <1>3, <2>1 DEF Restart, Settle
<1>4. CASE Die \/ Crash
  BY <1>4, TypeExit DEF Die, Crash
<1> QED
  BY <1>2, <1>3, <1>4, TypeClientStep, TypePoll, TypeMain, TypeProgress, TypeFault
  DEF Next, Fault, MainStep, Ticking

-----------------------------------------------------------------------------
(* The steps of a task, and what they leave alone *)

\* A step moves one task; what the others do and wait for stays.
LEMMA OneTask ==
  ASSUME SocketShape, NEW t \in Tasks, ClientStep(t) \/ TipUnavailable(t)
  PROVE  \A u \in Tasks : u # t => task'[u] = task[u] /\ own'[u] = own[u]
BY DEF ClientStep, EnterInitialize, BeginFetch, EndFetch, Connect, TipAnswered, TipCutOff,
       TipUnavailable, Cleared, ClearedTogether, QueryShut, TxShut, ShutTx, Initialize,
       Goes, Owns, SocketShape, fetcher

\* A step of shutdown stays in it, or goes on to initialize.
LEMMA ShutGoes ==
  ASSUME SocketShape, NEW t \in Tasks, Cleared(t) \/ QueryShut(t) \/ TxShut(t)
  PROVE  /\ Shutting(t)
         /\ \/ task'[t] \in {"closeQuery", "closeTx"} /\ client' = client
            \/ task'[t] = "fetch" /\ client' = "initializing"
BY DEF Cleared, QueryShut, TxShut, ShutTx, Initialize, Goes, SocketShape, Shutting

\* The step that a task takes from each place.
LEMMA TaskGoes ==
  ASSUME SocketShape, NEW t \in Tasks, ClientStep(t) \/ TipUnavailable(t)
  PROVE  \/ /\ EnterInitialize(t) /\ task[t] = "initialize" /\ task'[t] = "fetch"
            /\ client' = "initializing"
         \/ BeginFetch(t) /\ task[t] = "fetch" /\ task'[t] \in {"fetching", "connect"}
         \/ EndFetch(t) /\ task[t] = "fetching" /\ task'[t] = "connect"
         \/ Connect(t) /\ task[t] = "connect" /\ task'[t] = "tip"
         \/ TipAnswered(t) /\ task[t] = "tip" /\ task'[t] = Returned(t)
         \/ (TipCutOff(t) \/ TipUnavailable(t)) /\ task[t] = "tip" /\ task'[t] = "connect"
         \/ ClearedTogether(t) /\ task[t] = "clearing" /\ task'[t] = "idle"
         \/ /\ Cleared(t) \/ QueryShut(t) \/ TxShut(t)
            /\ Shutting(t)
            /\ \/ task'[t] \in {"closeQuery", "closeTx"} /\ client' = client
               \/ task'[t] = "fetch" /\ client' = "initializing"
<1>1. CASE Cleared(t) \/ QueryShut(t) \/ TxShut(t)
  BY <1>1, ShutGoes
<1>2. CASE TipAnswered(t)
  BY <1>2 DEF TipAnswered, Goes, SocketShape
<1>3. CASE EnterInitialize(t) \/ BeginFetch(t) \/ EndFetch(t) \/ Connect(t)
  BY <1>3 DEF EnterInitialize, BeginFetch, EndFetch, Connect, Initialize, Goes, SocketShape
<1>4. CASE TipCutOff(t) \/ TipUnavailable(t) \/ ClearedTogether(t)
  BY <1>4 DEF TipCutOff, TipUnavailable, ClearedTogether, Goes, SocketShape
<1> QED BY <1>1, <1>2, <1>3, <1>4 DEF ClientStep

\* What a socket that closes does to the handlers: one wakes up, or none.
LEMMA CloseGoes ==
  ASSUME SocketShape, NEW c \in Contexts, SocketCloses(c)
  PROVE  \/ /\ client = "initialized" /\ timer' = "cleared"
            /\ \E h \in Tasks : task[h] = "idle" /\ task' = [task EXCEPT ![h] = "clearing"]
         \/ client # "initialized" /\ UNCHANGED <<timer, task>>
BY DEF SocketCloses, Goes, Tasks

LEMMA WakesUp ==
  ASSUME SocketShape, NEW c \in Contexts, SocketCloses(c), NEW u \in Tasks
  PROVE  task'[u] = task[u] \/ (task[u] = "idle" /\ task'[u] = "clearing")
BY CloseGoes DEF SocketShape

-----------------------------------------------------------------------------
(* OneFetch *)

LEMMA FetchStays ==
  ASSUME OneFetch, FetchGuard, UNCHANGED <<isFetching, inflight>>,
         \A u \in Tasks : task'[u] = "fetching" <=> task[u] = "fetching"
  PROVE  OneFetch' /\ FetchGuard'
BY DEF OneFetch, FetchGuard

LEMMA FetchStep ==
  ASSUME SocketShape, FetchShape, OneFetch, FetchGuard, NEW t \in Tasks,
         ClientStep(t) \/ TipUnavailable(t)
  PROVE  OneFetch' /\ FetchGuard'
<1> USE Names
<1>1. CASE BeginFetch(t) /\ ~isFetching
  <2>1. inflight' = {t} /\ isFetching'
    BY <1>1 DEF BeginFetch, FetchGuard
  <2>2. \A u \in Tasks : task'[u] = "fetching" <=> u = t
    BY <1>1 DEF BeginFetch, FetchGuard, Goes, SocketShape
  <2> QED BY <2>1, <2>2 DEF OneFetch, FetchGuard
<1>2. CASE EndFetch(t)
  <2>1. inflight = {t}
    BY <1>2 DEF EndFetch, FetchGuard, OneFetch
  <2>2. inflight' = {} /\ isFetching' = FALSE
    BY <1>2, <2>1 DEF EndFetch, Fetched
  <2>3. \A u \in Tasks : task'[u] # "fetching"
    BY <1>2, <2>1 DEF EndFetch, FetchGuard, Goes, SocketShape
  <2> QED BY <2>2, <2>3 DEF OneFetch, FetchGuard
<1>3. CASE ~EndFetch(t) /\ ~(BeginFetch(t) /\ ~isFetching)
  <2>1. UNCHANGED <<isFetching, inflight>>
    BY <1>3 DEF ClientStep, EnterInitialize, BeginFetch, Connect, TipAnswered, TipCutOff,
       TipUnavailable, Cleared, ClearedTogether, QueryShut, TxShut, fetcher
  <2>2. task'[t] # "fetching" /\ task[t] # "fetching"
    <3>1. CASE BeginFetch(t) /\ isFetching
      BY <3>1 DEF BeginFetch, Goes, SocketShape
    <3>2. CASE ~BeginFetch(t)
      BY <1>3, <3>2, TaskGoes DEF Returned, Shutting
    <3> QED BY <1>3, <3>1, <3>2
  <2> QED BY <2>1, <2>2, OneTask, FetchStays
<1> QED BY <1>1, <1>2, <1>3

LEMMA FetchPoll ==
  ASSUME OneFetch, FetchGuard, Poll
  PROVE  OneFetch' /\ FetchGuard'
<1> USE Names
<1>1. CASE BeginPoll
  <2>1. inflight' = {"poll"} /\ isFetching' = TRUE /\ task' = task /\ inflight = {}
    BY <1>1 DEF BeginPoll, FetchGuard
  <2> QED BY <2>1 DEF OneFetch, FetchGuard
<1>2. CASE EndPoll
  <2>1. inflight = {"poll"} /\ inflight' = {} /\ isFetching' = FALSE /\ task' = task
    BY <1>2 DEF EndPoll, Fetched, OneFetch
  <2> QED BY <2>1 DEF OneFetch, FetchGuard
<1> QED BY <1>1, <1>2 DEF Poll

-----------------------------------------------------------------------------
(* Owning *)

Waits(t) == task[t] \in {"tip", "closeQuery", "closeTx"}
Closes(t, c) == task[t] \in {"closeQuery", "closeTx"} /\ own[t] = c

\* After the step the task has a context exactly if it waits for one.
LEMMA OwnStep ==
  ASSUME SocketShape, Owning, NEW t \in Tasks, ClientStep(t) \/ TipUnavailable(t)
  PROVE  own'[t] # "none" <=> Waits(t)'
<1> USE Names
<1>1. CASE Connect(t)
  BY <1>1 DEF Connect, Goes, Owns, SocketShape, Waits
<1>2. CASE TipAnswered(t) \/ TipCutOff(t) \/ TipUnavailable(t) \/ TxShut(t)
  BY <1>2 DEF TipAnswered, TipCutOff, TipUnavailable, TxShut, Initialize, Returned,
              Goes, Owns, SocketShape, Waits
<1>3. CASE EnterInitialize(t) \/ BeginFetch(t) \/ EndFetch(t) \/ ClearedTogether(t)
  <2>1. own[t] = "none"
    BY <1>3 DEF EnterInitialize, BeginFetch, EndFetch, ClearedTogether, Owning
  <2>2. own' = own /\ ~Waits(t)'
    BY <1>3 DEF EnterInitialize, BeginFetch, EndFetch, ClearedTogether, Initialize, Goes,
                SocketShape, Waits
  <2> QED BY <2>1, <2>2
<1>4. ASSUME NEW sockets, ShutTx(t, sockets) PROVE own'[t] # "none" <=> Waits(t)'
  BY <1>4 DEF ShutTx, Open, Initialize, Goes, Owns, SocketShape, Waits
<1>5. CASE QueryShut(t)
  BY <1>4, <1>5 DEF QueryShut
<1>6. CASE Cleared(t)
  <2>1. CASE Open(query)
    BY <1>6, <2>1 DEF Cleared, Open, Goes, Owns, SocketShape, Waits
  <2>2. CASE ~Open(query)
    BY <1>4, <1>6, <2>2 DEF Cleared
  <2> QED BY <2>1, <2>2
<1> QED BY <1>1, <1>2, <1>3, <1>5, <1>6 DEF ClientStep

\* A socket that closes after a step is closed by its task, or was before by another.
LEMMA ClosingStep ==
  ASSUME SocketShape, NEW t \in Tasks, ClientStep(t) \/ TipUnavailable(t),
         NEW c \in Contexts, socket'[c] = "closing"
  PROVE  Closes(t, c)' \/ (socket[c] = "closing" /\ ~Closes(t, c))
<1>1. CASE Connect(t)
  BY <1>1 DEF Connect, Closes, SocketShape
<1>2. CASE \/ TipAnswered(t) \/ TipCutOff(t) \/ TipUnavailable(t) \/ EnterInitialize(t)
           \/ BeginFetch(t) \/ EndFetch(t) \/ ClearedTogether(t)
  BY <1>2 DEF TipAnswered, TipCutOff, TipUnavailable, EnterInitialize, BeginFetch, EndFetch,
              ClearedTogether, Closes
<1>3. CASE TxShut(t)
  BY <1>3 DEF TxShut, Closes, SocketShape
<1>4. ASSUME NEW sockets \in [Contexts -> {"open", "closing", "closed"}], ShutTx(t, sockets)
      PROVE  Closes(t, c)' \/ sockets[c] = "closing"
  BY <1>4 DEF ShutTx, Open, Goes, Owns, SocketShape, Closes
<1>5. CASE QueryShut(t)
  <2> DEFINE sockets == [socket EXCEPT ![own[t]] = "closed"]
  <2>1. sockets \in [Contexts -> {"open", "closing", "closed"}]
    BY DEF SocketShape
  <2>2. sockets[c] = "closing" => socket[c] = "closing" /\ ~Closes(t, c)
    BY DEF SocketShape, Closes
  <2>3. ShutTx(t, sockets)
    BY <1>5 DEF QueryShut
  <2> HIDE DEF sockets
  <2> QED BY <1>4, <2>1, <2>2, <2>3
<1>6. CASE Cleared(t)
  <2>1. CASE Open(query)
    BY <1>6, <2>1 DEF Cleared, Open, Goes, Owns, SocketShape, Closes
  <2>2. CASE ~Open(query)
    <3>1. Closes(t, c)' \/ socket[c] = "closing"
      BY <1>4, <1>6, <2>2 DEF Cleared, SocketShape
    <3>2. ~Closes(t, c)
      BY <1>6 DEF Cleared, Closes
    <3> QED BY <3>1, <3>2
  <2> QED BY <2>1, <2>2
<1> QED BY <1>1, <1>2, <1>3, <1>5, <1>6 DEF ClientStep

LEMMA OwningStep ==
  ASSUME SocketShape, Owning, NEW t \in Tasks, ClientStep(t) \/ TipUnavailable(t)
  PROVE  Owning'
<1>1. \A u \in Tasks : own'[u] # "none" <=> Waits(u)'
  <2>1. ASSUME NEW u \in Tasks, u # t PROVE own'[u] # "none" <=> Waits(u)'
    BY <2>1, OneTask DEF Owning, Waits
  <2> QED BY <2>1, OwnStep
<1>2. ASSUME NEW c \in Contexts, socket'[c] = "closing"
      PROVE  \E u \in Tasks : Closes(u, c)'
  <2>1. CASE Closes(t, c)'
    BY <2>1
  <2>2. CASE socket[c] = "closing" /\ ~Closes(t, c)
    <3>1. PICK u \in Tasks : Closes(u, c)
      BY <2>2 DEF Owning, Closes
    <3>2. u # t
      BY <2>2, <3>1
    <3> QED BY <3>1, <3>2, OneTask DEF Closes
  <2> QED BY <1>2, <2>1, <2>2, ClosingStep
<1> QED BY <1>1, <1>2 DEF Owning, Waits, Closes

LEMMA OwningClose ==
  ASSUME SocketShape, Owning, NEW c \in Contexts, SocketCloses(c)
  PROVE  Owning'
<1>1. own' = own /\ socket' = [socket EXCEPT ![c] = "closed"]
  BY DEF SocketCloses
<1>2. \A u \in Tasks : task'[u] = task[u] \/ (task[u] = "idle" /\ task'[u] = "clearing")
  BY WakesUp
<1>3. \A u \in Tasks : Waits(u)' <=> Waits(u)
  BY <1>2 DEF Waits
<1>4. \A u \in Tasks, d \in Contexts : Closes(u, d)' <=> Closes(u, d)
  BY <1>1, <1>2 DEF Closes
<1>5. \A d \in Contexts : socket'[d] = "closing" => socket[d] = "closing"
  BY <1>1 DEF SocketShape
<1> QED BY <1>1, <1>3, <1>4, <1>5 DEF Owning, Waits, Closes

-----------------------------------------------------------------------------
(* Who initializes the client *)

\* A task that waits for the tip keeps on waiting on the newest context, or is cut
\* off: only Connect makes a newer one.
LEMMA AwaitingStep ==
  ASSUME SocketShape, Owning, NEW t \in Tasks, ClientStep(t) \/ TipUnavailable(t), ~Connect(t),
         NEW u \in Tasks, u # t, Awaiting(u)
  PROVE  Awaiting(u)'
<1>1. task'[u] = "tip" /\ own'[u] = own[u] /\ own[u] \in Contexts
  BY OneTask DEF Awaiting, Owning, SocketShape
<1>2. socket[own[u]] = "closed" => socket'[own[u]] = "closed"
  <2>1. CASE Cleared(t)
    BY <1>1, <2>1 DEF Cleared, ShutTx, Open, Initialize, SocketShape
  <2>2. CASE QueryShut(t)
    BY <1>1, <2>2 DEF QueryShut, ShutTx, Open, Initialize, SocketShape
  <2>3. CASE TxShut(t)
    BY <1>1, <2>3 DEF TxShut, SocketShape
  <2>4. CASE ~Cleared(t) /\ ~QueryShut(t) /\ ~TxShut(t)
    BY <2>4 DEF ClientStep, EnterInitialize, BeginFetch, EndFetch, TipAnswered, TipCutOff,
                TipUnavailable, ClearedTogether
  <2> QED BY <2>1, <2>2, <2>3, <2>4
<1>3. own[u] = query => own[u] = query' \/ socket'[own[u]] = "closed"
  <2>1. CASE QueryShut(t)
    <3>1. own[u] = own[t] \/ own[u] = query => own[u] = query' \/ own[u] = own[t]
      BY <2>1 DEF QueryShut, Leaves
    <3>2. own[u] = own[t] => socket'[own[u]] = "closed"
      BY <1>1, <2>1 DEF QueryShut, ShutTx, Open, Initialize, SocketShape
    <3> QED BY <3>1, <3>2
  <2>2. CASE TxShut(t)
    BY <1>1, <2>2 DEF TxShut, Leaves, SocketShape
  <2>3. CASE ~QueryShut(t) /\ ~TxShut(t)
    BY <2>3 DEF ClientStep, EnterInitialize, BeginFetch, EndFetch, TipAnswered, TipCutOff,
                TipUnavailable, Cleared, ClearedTogether
  <2> QED BY <2>1, <2>2, <2>3
<1> QED BY <1>1, <1>2, <1>3 DEF Awaiting

LEMMA AwaitingClose ==
  ASSUME SocketShape, Owning, NEW c \in Contexts, SocketCloses(c), NEW u \in Tasks, Awaiting(u)
  PROVE  Awaiting(u)'
<1>1. task'[u] = "tip" /\ own' = own /\ own[u] \in Contexts
  <2>1. task[u] = "tip" /\ own[u] \in Contexts
    BY DEF Awaiting, Owning, SocketShape
  <2> QED BY <2>1, WakesUp DEF SocketCloses
<1>2. socket' = [socket EXCEPT ![c] = "closed"] /\ (query' = query \/ query = c)
  BY DEF SocketCloses, Leaves
<1> QED BY <1>1, <1>2 DEF Awaiting, SocketShape

\* Initialization goes on: a task other than t keeps at it, in every step of t but
\* Connect.
LEMMA GoesOn ==
  ASSUME SocketShape, Owning, NEW t \in Tasks, ClientStep(t) \/ TipUnavailable(t), ~Connect(t),
         NEW u \in Tasks, u # t, Connecting(u) \/ Awaiting(u)
  PROVE  (Connecting(u) \/ Awaiting(u))'
BY AwaitingStep, OneTask DEF Connecting, Fetching

LEMMA AttemptedStep ==
  ASSUME SocketShape, Owning, Attempted, NEW t \in Tasks, ClientStep(t) \/ TipUnavailable(t)
  PROVE  Attempted'
<1> USE Names
<1>1. CASE Connect(t)
  <2>1. client' = client /\ Awaiting(t)'
    BY <1>1 DEF Connect, Goes, Owns, SocketShape, Awaiting
  <2>2. client = "null" => task'["main"] = task["main"]
    BY <1>1, OneTask DEF Connect, Attempted
  <2> QED BY <2>1, <2>2 DEF Attempted
<1>2. ASSUME ~Connect(t) PROVE Attempted'
  <2>1. ASSUME client' = "null" PROVE task'["main"] = "initialize"
    <3>1. client = "null" /\ task[t] # "initialize"
      <4>1. ~EnterInitialize(t) /\ ~TipAnswered(t)
        BY <2>1 DEF EnterInitialize, Initialize, TipAnswered
      <4>2. CASE Cleared(t) \/ QueryShut(t) \/ TxShut(t)
        BY <2>1, <4>2, ShutGoes DEF Shutting
      <4>3. CASE ~(Cleared(t) \/ QueryShut(t) \/ TxShut(t))
        BY <2>1, <4>1, <4>3 DEF ClientStep, BeginFetch, EndFetch, Connect, TipCutOff,
           TipUnavailable, ClearedTogether
      <4> QED BY <4>2, <4>3
    <3>2. t # "main"
      BY <3>1 DEF Attempted
    <3> QED BY <3>1, <3>2, OneTask DEF Attempted
  <2>2. ASSUME client' = "initializing" PROVE \E u \in Tasks : (Connecting(u) \/ Awaiting(u))'
    <3>1. CASE task'[t] \in {"fetch", "fetching", "connect"}
      BY <3>1 DEF Connecting, Fetching
    <3>2. CASE task'[t] \notin {"fetch", "fetching", "connect"}
      <4>1. client = "initializing" /\ ~Connecting(t)
        BY <1>2, <2>2, <3>2, TaskGoes DEF Connecting, Fetching, Shutting, ClearedTogether, TipAnswered
      <4>2. ~Awaiting(t)
        BY <1>2, <2>2, <3>2, TaskGoes DEF Awaiting, Shutting, TipAnswered
      <4>3. PICK u \in Tasks : Connecting(u) \/ Awaiting(u)
        BY <4>1 DEF Attempted
      <4>4. u # t
        BY <4>1, <4>2, <4>3
      <4> QED BY <1>2, <4>3, <4>4, GoesOn
    <3> QED BY <3>1, <3>2
  <2> QED BY <2>1, <2>2 DEF Attempted
<1> QED BY <1>1, <1>2

LEMMA AttemptedClose ==
  ASSUME SocketShape, Owning, Attempted, NEW c \in Contexts, SocketCloses(c)
  PROVE  Attempted'
<1> USE Names
<1>1. client' = client
  BY DEF SocketCloses
<1>2. client = "null" => task'["main"] = "initialize"
  BY WakesUp DEF Attempted
<1>3. ASSUME client = "initializing"
      PROVE  \E u \in Tasks : (Connecting(u) \/ Awaiting(u))'
  <2>1. PICK u \in Tasks : Connecting(u) \/ Awaiting(u)
    BY <1>3 DEF Attempted
  <2>2. Connecting(u) => Connecting(u)'
    BY WakesUp DEF Connecting, Fetching
  <2> QED BY <2>1, <2>2, AwaitingClose
<1> QED BY <1>1, <1>2, <1>3 DEF Attempted

-----------------------------------------------------------------------------
(* Ready *)

\* The answer to the tip comes on a context that is open, or a shutdown closes it.
LEMMA ReadyTip ==
  ASSUME SocketShape, Owning, Attempted, Ready, NEW t \in Tasks, TipAnswered(t)
  PROVE  Ready'
<1> USE Names
<1>0. /\ task[t] = "tip" /\ own[t] \in Contexts /\ socket[own[t]] # "closed"
      /\ task' = [task EXCEPT ![t] = Returned(t)]
      /\ tx' = own[t] /\ UNCHANGED <<socket, query>>
  BY DEF TipAnswered, Owning, SocketShape, Goes
<1>a. \A u \in Tasks : u # t => task'[u] = task[u] /\ own'[u] = own[u]
  BY OneTask DEF ClientStep
<1> SUFFICES ASSUME \A u \in Tasks : ~Shutting(u)'
             PROVE  /\ Open(tx)'
                    /\ Open(query)' \/ \E u \in Tasks : (Connecting(u) \/ Awaiting(u))'
  BY DEF Ready
<1>1. \A u \in Tasks : ~Shutting(u)
  BY <1>0, <1>a DEF Shutting
<1>2. socket[own[t]] = "open"
  BY <1>0, <1>1 DEF Owning, Shutting, SocketShape
<1>3. Open(tx)'
  BY <1>0, <1>2 DEF Open
<1>4. Open(query)' \/ \E u \in Tasks : (Connecting(u) \/ Awaiting(u))'
  <2>1. CASE Open(query)
    BY <1>0, <2>1 DEF Open
  <2>2. CASE ~Open(query)
    <3>1. \E u \in Tasks : Connecting(u) \/ Awaiting(u)
      BY <1>1, <2>2 DEF Attempted, Ready, Connecting, Fetching, SocketShape
    <3>2. PICK u \in Tasks : Connecting(u) \/ Awaiting(u)
      BY <3>1
    <3>3. u # t
      BY <1>0, <1>2, <2>2, <3>2 DEF Open, Connecting, Fetching, Awaiting
    <3>4. ~Connect(t)
      BY <1>0 DEF Connect
    <3> QED BY <3>2, <3>3, <3>4, GoesOn DEF ClientStep
  <2> QED BY <2>1, <2>2
<1> QED BY <1>3, <1>4

LEMMA ReadyStep ==
  ASSUME SocketShape, Owning, Attempted, Ready, NEW t \in Tasks, ClientStep(t) \/ TipUnavailable(t)
  PROVE  Ready'
<1> USE Names
<1>1. CASE TipAnswered(t)
  BY <1>1, ReadyTip
<1>2. CASE EnterInitialize(t) \/ ClearedTogether(t)
  BY <1>2 DEF EnterInitialize, Initialize, ClearedTogether, Ready
<1>3. CASE Cleared(t) \/ QueryShut(t) \/ TxShut(t)
  BY <1>3, ShutGoes DEF Shutting, Ready
<1>4. CASE BeginFetch(t) \/ EndFetch(t) \/ TipCutOff(t) \/ TipUnavailable(t)
  <2>1. client' = client /\ UNCHANGED <<socket, query, tx>>
    BY <1>4 DEF BeginFetch, EndFetch, TipCutOff, TipUnavailable
  <2>2. Connecting(t)' /\ ~Shutting(t)
    BY <1>4 DEF BeginFetch, EndFetch, TipCutOff, TipUnavailable, Goes, SocketShape, Connecting,
       Fetching, Shutting
  <2>3. (\A u \in Tasks : ~Shutting(u)') => \A u \in Tasks : ~Shutting(u)
    BY <2>2, OneTask DEF Shutting
  <2> QED BY <2>1, <2>2, <2>3 DEF Ready, Open
<1>5. CASE Connect(t)
  <2>1. Open(query)' /\ (Open(tx) => Open(tx)') /\ client' = client
    BY <1>5 DEF Connect, Open, SocketShape
  <2>2. ~Shutting(t)
    BY <1>5 DEF Connect, Shutting
  <2>3. (\A u \in Tasks : ~Shutting(u)') => \A u \in Tasks : ~Shutting(u)
    BY <2>2, OneTask DEF Shutting
  <2> QED BY <2>1, <2>3 DEF Ready
<1> QED BY <1>1, <1>2, <1>3, <1>4, <1>5 DEF ClientStep

LEMMA ReadyClose ==
  ASSUME SocketShape, Ready, NEW c \in Contexts, SocketCloses(c)
  PROVE  Ready'
<1>1. client' = client
  BY DEF SocketCloses
<1>2. ASSUME client = "initialized" PROVE \E u \in Tasks : Shutting(u)'
  <2>1. PICK h \in Tasks : task' = [task EXCEPT ![h] = "clearing"]
    BY <1>2, CloseGoes
  <2> QED BY <2>1 DEF Shutting, SocketShape
<1> QED BY <1>1, <1>2 DEF Ready

-----------------------------------------------------------------------------
(* Timed *)

NoShutdown == client = "initialized" => \A u \in Tasks : ~Shutting(u)
SomeFetch == \E u \in Tasks : Fetching(u)

LEMMA TimedStep ==
  ASSUME SocketShape, Timed, NEW t \in Tasks, ClientStep(t) \/ TipUnavailable(t)
  PROVE  Timed'
<1>1. CASE EnterInitialize(t) \/ BeginFetch(t) \/ EndFetch(t)
  <2>1. Fetching(t)' \/ SetTimer
    BY <1>1 DEF EnterInitialize, Initialize, BeginFetch, EndFetch, Goes, SocketShape, Fetching
  <2>2. SetTimer => Polled'
    BY DEF SetTimer, Polled
  <2> QED BY <2>1, <2>2 DEF Timed
<1>2. CASE ~(EnterInitialize(t) \/ BeginFetch(t) \/ EndFetch(t))
  <2>1. Polled' <=> Polled
    <3>1. UNCHANGED fetcher
      BY <1>2 DEF ClientStep, Connect, TipAnswered, TipCutOff, TipUnavailable, Cleared,
         ClearedTogether, QueryShut, TxShut
    <3>2. timer' = timer /\ leaked' = leaked
      BY <3>1 DEF fetcher
    <3> QED BY <3>2, Zenon DEF Polled
  <2>2. SomeFetch => SomeFetch'
    <3>1. ~Fetching(t)
      BY <1>2, TaskGoes DEF Fetching, Shutting
    <3> QED BY <3>1, OneTask DEF SomeFetch, Fetching
  <2>3. NoShutdown' => NoShutdown \/ SomeFetch'
    <3>1. CASE Cleared(t) \/ QueryShut(t) \/ TxShut(t)
      <4>1. \/ Shutting(t)' /\ Shutting(t) /\ client' = client
            \/ Fetching(t)'
        BY <3>1, ShutGoes DEF Shutting, Fetching
      <4> QED BY <4>1 DEF NoShutdown, SomeFetch
    <3>2. CASE ClearedTogether(t)
      BY <3>2 DEF ClearedTogether, NoShutdown
    <3>3. CASE Connect(t) \/ TipCutOff(t) \/ TipUnavailable(t)
      <4>1. client' = client /\ ~Shutting(t)
        BY <3>3 DEF Connect, TipCutOff, TipUnavailable, Shutting
      <4> QED BY <4>1, OneTask DEF NoShutdown, Shutting
    <3>4. CASE TipAnswered(t)
      <4>1. client' = "initialized" /\ ~Shutting(t)
        BY <3>4 DEF TipAnswered, Shutting
      <4> QED BY <4>1, OneTask DEF NoShutdown, Shutting
    <3> QED BY <1>2, <3>1, <3>2, <3>3, <3>4 DEF ClientStep
  <2>4. (NoShutdown => Polled \/ SomeFetch) <=> Timed
    BY DEF Timed, NoShutdown, SomeFetch
  <2>5. (NoShutdown' => Polled' \/ SomeFetch') <=> Timed'
    BY DEF Timed, NoShutdown, SomeFetch
  <2> QED BY <2>1, <2>2, <2>3, <2>4, <2>5
<1> QED BY <1>1, <1>2

LEMMA TimedClose ==
  ASSUME SocketShape, Timed, NEW c \in Contexts, SocketCloses(c)
  PROVE  Timed'
<1>1. client' = client /\ leaked' = leaked
  BY DEF SocketCloses
<1>2. CASE client = "initialized"
  <2>1. PICK h \in Tasks : task' = [task EXCEPT ![h] = "clearing"]
    BY <1>2, CloseGoes
  <2> QED BY <1>1, <1>2, <2>1 DEF Timed, Shutting, SocketShape
<1>3. CASE client # "initialized"
  <2>1. UNCHANGED <<timer, task>>
    BY <1>3, CloseGoes
  <2>2. Polled' <=> Polled
    BY <1>1, <2>1, Zenon DEF Polled
  <2> QED BY <1>1, <1>3, <2>1, <2>2 DEF Timed, Fetching
<1> QED BY <1>2, <1>3

-----------------------------------------------------------------------------
(* The order of main *)

LEMMA OrderStep ==
  ASSUME SocketShape, Owning, MainOrder, NEW t \in Tasks, ClientStep(t) \/ TipUnavailable(t),
         UNCHANGED serverVars
  PROVE  MainOrder'
<1> USE Names
<1>1. query # "none" => query' # "none"
  BY DEF ClientStep, EnterInitialize, BeginFetch, EndFetch, Connect, TipAnswered, TipCutOff,
     TipUnavailable, Cleared, ClearedTogether, QueryShut, TxShut, Leaves
<1>2. tx # "none" => tx' # "none"
  <2>1. TipAnswered(t) => own[t] \in Contexts
    BY DEF TipAnswered, Owning, SocketShape
  <2> QED
    BY <2>1 DEF ClientStep, EnterInitialize, BeginFetch, EndFetch, Connect, TipAnswered, TipCutOff,
       TipUnavailable, Cleared, ClearedTogether, QueryShut, TxShut, Leaves
<1>3. \A u \in Tasks : task'[u] = "tip" => query' # "none"
  <2>1. ASSUME NEW u \in Tasks, u # t, task'[u] = "tip" PROVE query' # "none"
    BY <1>1, <2>1, OneTask DEF MainOrder
  <2>2. ASSUME task'[t] = "tip" PROVE query' # "none"
    <3>1. Connect(t)
      BY <2>2, TaskGoes DEF Returned, Shutting
    <3> QED BY <3>1 DEF Connect
  <2> QED BY <2>1, <2>2
<1>4. ASSUME t = "main" PROVE task'["main"] \in MainSteps => task'["main"] = "configure" /\ TipAnswered(t)
  BY <1>4, TaskGoes DEF MainSteps, Returned, Shutting
<1>5. ASSUME t = "main" PROVE task["main"] # "done"
  BY <1>5, TaskGoes DEF Shutting
<1>6. task'["main"] \in MainSteps => query' # "none" /\ tx' # "none"
  <2>1. CASE t = "main"
    <3>1. TipAnswered(t) => query' # "none" /\ tx' # "none"
      <4>1. TipAnswered(t) => own[t] \in Contexts
        BY DEF TipAnswered, Owning, SocketShape
      <4> QED BY <4>1, <1>1 DEF TipAnswered, MainOrder
    <3> QED BY <1>4, <2>1, <3>1
  <2>2. CASE t # "main"
    BY <1>1, <1>2, <2>2, OneTask DEF MainOrder
  <2> QED BY <2>1, <2>2
<1>7. task'["main"] \in {"pots", "listen", "done"} => schema'
  <2>1. CASE t = "main"
    BY <1>4, <2>1 DEF MainSteps
  <2>2. CASE t # "main"
    <3>1. task'["main"] = task["main"]
      BY <2>2, OneTask
    <3> QED BY <3>1, Zenon DEF MainOrder, serverVars
  <2> QED BY <2>1, <2>2
<1>8. server' = "running" => task'["main"] = "done"
  BY <1>5, OneTask DEF MainOrder, serverVars
<1> QED BY <1>3, <1>6, <1>7, <1>8 DEF MainOrder

LEMMA OrderClose ==
  ASSUME SocketShape, MainOrder, NEW c \in Contexts, SocketCloses(c), UNCHANGED serverVars
  PROVE  MainOrder'
<1> USE Names
<1>1. (query # "none" => query' # "none") /\ (tx # "none" => tx' # "none")
  BY DEF SocketCloses, Leaves
<1>2. \A u \in Tasks : task'[u] = task[u] \/ (task[u] = "idle" /\ task'[u] = "clearing")
  BY WakesUp
<1>3. schema' <=> schema
  BY Zenon DEF serverVars
<1>4. "clearing" \notin MainSteps
  BY DEF MainSteps
<1> QED BY <1>1, <1>2, <1>3, <1>4 DEF MainOrder, serverVars

-----------------------------------------------------------------------------
(* The invariant *)

\* A process that has just started, and one that has died.
LEMMA BlankInv == ClientBlank /\ ServerBlank => ClientInv
<1> SUFFICES ASSUME ClientBlank, ServerBlank PROVE ClientInv
  OBVIOUS
<1> USE Names
<1>1. \A t \in Tasks : task[t] = IF t = "main" THEN "initialize" ELSE "idle"
  BY DEF ClientBlank
<1>2. OneFetch /\ FetchGuard
  BY <1>1 DEF ClientBlank, OneFetch, FetchGuard
<1>3. Owning
  BY <1>1 DEF ClientBlank, Owning
<1>4. MainOrder
  BY <1>1 DEF ClientBlank, ServerBlank, MainOrder, MainSteps
<1>5. Attempted /\ Ready
  BY <1>1 DEF ClientBlank, Attempted, Ready
<1>6. Timed
  BY <1>1 DEF Timed, Fetching
<1> QED BY <1>2, <1>3, <1>4, <1>5, <1>6 DEF ClientInv

LEMMA ExitInv == Exit => ClientInv'
<1>1. Exit => ClientBlank' /\ ServerBlank'
  BY DEF Exit, ClientBlank, ServerBlank
<1>2. ClientBlank' /\ ServerBlank' => ClientInv'
  BY BlankInv, PTL
<1> QED BY <1>1, <1>2

LEMMA StepInv ==
  ASSUME TypeOK, ClientInv, NEW t \in Tasks, ClientStep(t) \/ TipUnavailable(t), UNCHANGED serverVars
  PROVE  ClientInv'
<1>1. SocketShape /\ FetchShape
  BY TypeParts
<1> QED BY <1>1, FetchStep, OwningStep, OrderStep, AttemptedStep, ReadyStep, TimedStep DEF ClientInv

LEMMA CloseInv ==
  ASSUME TypeOK, ClientInv, NEW c \in Contexts, SocketCloses(c), UNCHANGED serverVars
  PROVE  ClientInv'
<1>1. SocketShape
  BY TypeParts
<1>2. OneFetch' /\ FetchGuard'
  <2>1. \A u \in Tasks : task'[u] = "fetching" <=> task[u] = "fetching"
    BY <1>1, WakesUp
  <2>2. UNCHANGED <<isFetching, inflight>>
    BY DEF SocketCloses
  <2> QED BY <2>1, <2>2, FetchStays DEF ClientInv
<1> QED BY <1>1, <1>2, OwningClose, OrderClose, AttemptedClose, ReadyClose, TimedClose DEF ClientInv

\* A step that moves nothing of the client but main, among the steps after initialize.
LEMMA MainInv ==
  ASSUME TypeOK, ClientInv, Main \/ MainFails
  PROVE  ClientInv'
<1> USE Names
<1>0. SocketShape /\ MainOnly
  BY TypeParts DEF Main, Configure, Introspect, FetchPots, Listen, MainFails
<1>1. /\ task["main"] \in MainSteps /\ task'["main"] \in MainSteps
      /\ \A u \in Tasks : u # "main" => task'[u] = task[u]
  BY <1>0 DEF Main, Configure, Introspect, FetchPots, Listen, MainFails, Goes, SocketShape, MainSteps
<1>2. UNCHANGED <<client, socket, query, tx, own, isFetching, inflight>> /\ (Polled' <=> Polled)
  <2>1. UNCHANGED <<client, socket, query, tx, own, timer, leaked, isFetching, inflight>>
    BY <1>0 DEF MainOnly, fetcher
  <2>2. Polled' <=> Polled
    BY <2>1, Zenon DEF Polled
  <2> QED BY <2>1, <2>2
<1>3. \A u \in Tasks : task'[u] = task[u] \/ {task[u], task'[u]} \subseteq MainSteps
  BY <1>1
<1>4. \A s \in MainSteps : s \notin {"idle", "clearing", "closeQuery", "closeTx", "initialize",
                                    "fetch", "fetching", "connect", "tip"}
  BY DEF MainSteps
<1>5. OneFetch' /\ FetchGuard'
  BY <1>2, <1>3, <1>4, FetchStays DEF ClientInv
<1>6. Owning'
  BY <1>2, <1>3, <1>4 DEF ClientInv, Owning
<1>7. Attempted' /\ Ready' /\ Timed'
  <2>1. \A u \in Tasks :
          /\ (Connecting(u)' <=> Connecting(u)) /\ (Awaiting(u)' <=> Awaiting(u))
          /\ (Shutting(u)' <=> Shutting(u)) /\ (Fetching(u)' <=> Fetching(u))
    BY <1>2, <1>3, <1>4 DEF Connecting, Awaiting, Shutting, Fetching
  <2>2. Attempted'
    BY <1>1, <1>2, <1>4, <2>1 DEF ClientInv, Attempted
  <2>3. Ready'
    BY <1>2, <2>1 DEF ClientInv, Ready, Open
  <2>4. Timed'
    BY <1>2, <2>1 DEF ClientInv, Timed
  <2> QED BY <2>2, <2>3, <2>4
<1>8. MainOrder'
  <2>1. \A u \in Tasks : task'[u] = "tip" => query' # "none"
    BY <1>2, <1>3, <1>4 DEF ClientInv, MainOrder
  <2>2. query' # "none" /\ tx' # "none"
    BY <1>1, <1>2 DEF ClientInv, MainOrder
  <2>3. task'["main"] \in {"pots", "listen", "done"} => schema'
    <3>1. CASE Introspect
      BY <3>1 DEF Introspect
    <3>2. CASE ~Introspect
      <4>1. schema' = schema
        BY <3>2 DEF Main, Configure, FetchPots, Listen, MainFails
      <4>2. task'["main"] \in {"pots", "listen", "done"} => task["main"] \in {"pots", "listen", "done"}
        BY <1>0, <3>2 DEF Main, Configure, FetchPots, Listen, MainFails, Goes, SocketShape
      <4> QED BY <4>1, <4>2, Zenon DEF ClientInv, MainOrder
    <3> QED BY <3>1, <3>2
  <2>4. server' = "running" => task'["main"] = "done"
    BY <1>0 DEF ClientInv, MainOrder, Main, Configure, Introspect, FetchPots, Listen, MainFails, Goes,
       SocketShape
  <2> QED BY <2>1, <2>2, <2>3, <2>4 DEF MainOrder
<1> QED BY <1>5, <1>6, <1>7, <1>8 DEF ClientInv

\* What a step keeps that leaves the client and main where they are.
LEMMA StaysPut ==
  ASSUME ClientInv,
         UNCHANGED <<client, socket, query, tx, timer, leaked, task, own, schema, server>>
  PROVE  Owning' /\ MainOrder' /\ Attempted' /\ Ready' /\ Timed'
<1>1. Polled' <=> Polled
  BY Zenon DEF Polled
<1>2. \A u \in Tasks :
        /\ (Connecting(u)' <=> Connecting(u)) /\ (Awaiting(u)' <=> Awaiting(u))
        /\ (Shutting(u)' <=> Shutting(u)) /\ (Fetching(u)' <=> Fetching(u))
  BY DEF Connecting, Awaiting, Shutting, Fetching
<1>3. (Open(tx)' <=> Open(tx)) /\ (Open(query)' <=> Open(query))
  BY DEF Open
<1>4. Attempted' /\ Ready' /\ Timed'
  BY <1>1, <1>2, <1>3 DEF ClientInv, Attempted, Ready, Timed
<1>5. Owning'
  BY DEF ClientInv, Owning
<1>6. MainOrder'
  BY Zenon DEF ClientInv, MainOrder
<1> QED BY <1>4, <1>5, <1>6

LEMMA SameInv ==
  ASSUME ClientInv, UNCHANGED <<clientVars, schema, server>>
  PROVE  ClientInv'
<1>1. /\ UNCHANGED <<client, socket, query, tx, timer, leaked, task, own, schema, server>>
      /\ UNCHANGED <<isFetching, inflight>>
  BY DEF clientVars, fetcher
<1> QED BY <1>1, StaysPut, FetchStays DEF ClientInv

LEMMA PollInv ==
  ASSUME ClientInv, Poll, UNCHANGED serverVars
  PROVE  ClientInv'
<1>1. UNCHANGED <<client, socket, query, tx, timer, leaked, task, own, schema, server>>
  BY DEF Poll, BeginPoll, EndPoll, serverVars
<1> QED BY <1>1, StaysPut, FetchPoll DEF ClientInv

LEMMA InvNext ==
  ASSUME TypeOK, ClientInv, [Next]_vars
  PROVE  ClientInv'
<1>1. ASSUME NEW t \in Tasks, Step(t) PROVE ClientInv'
  BY <1>1, StepInv DEF Step
<1>2. CASE Polling
  BY <1>2, PollInv DEF Polling
<1>3. CASE MainStep \/ (Running /\ MainFails)
  BY <1>3, MainInv DEF MainStep
<1>4. CASE Running /\ ClientFault /\ UNCHANGED serverVars
  BY <1>4, StepInv, CloseInv DEF ClientFault
<1>5. CASE Die \/ Crash
  BY <1>5, ExitInv DEF Die, Crash
<1>6. CASE Restart \/ Settle \/ Ticking \/ (Running /\ Signal) \/ UNCHANGED vars
  <2>1. UNCHANGED <<clientVars, schema, server>>
    BY <1>6 DEF Restart, Settle, Ticking, Tick, TickEnds, Signal, vars, serverVars
  <2> QED BY <2>1, SameInv
<1> QED BY <1>1, <1>2, <1>3, <1>4, <1>5, <1>6 DEF Next, Fault

LEMMA ServerInvariant == Spec => [](TypeOK /\ ClientInv)
<1>1. Init => TypeOK /\ ClientInv
  BY TypeInit, BlankInv DEF Init
<1>2. TypeOK /\ ClientInv /\ [Next]_vars => (TypeOK /\ ClientInv)'
  <2> SUFFICES ASSUME TypeOK, ClientInv, [Next]_vars PROVE TypeOK' /\ ClientInv'
    OBVIOUS
  <2> QED BY TypeNext, InvNext DEF ClientInv
<1> QED BY <1>1, <1>2, PTL DEF Spec

-----------------------------------------------------------------------------
(* The theorems *)

\* The variables keep their shapes, in every order of closes, polls and restarts.
THEOREM ServerTypes == Spec => []TypeOK
BY ServerInvariant, PTL

\* No two fetches of the health of the node at a time, with any number of tasks that
\* initialize the client and of timers that were never cleared.
THEOREM ServerFetchesOnce == Spec => []OneFetch
<1>1. ClientInv => OneFetch
  BY DEF ClientInv
<1> QED BY <1>1, ServerInvariant, PTL

\* The HTTP server listens only over a node client and a schema that main has got.
THEOREM ServerListensWhenReady == Spec => []ListensWhenReady
<1>1. ClientInv => ListensWhenReady
  BY DEF ClientInv, MainOrder, ListensWhenReady, MainSteps
<1> QED BY <1>1, ServerInvariant, PTL

\* However contexts close and handlers cross each other, the node client is connected
\* and polled whenever nobody is at work on it.
THEOREM ServerNeverCutOff == Spec => []NeverCutOff
<1>1. TypeOK /\ ClientInv => NeverCutOff
  <2> SUFFICES ASSUME TypeOK, ClientInv, Quiet PROVE Connected
    BY DEF NeverCutOff
  <2>1. \A t \in Tasks : ~Shutting(t) /\ ~Connecting(t) /\ ~Awaiting(t) /\ ~Fetching(t)
    BY DEF Quiet, ClientSteps, Shutting, Connecting, Awaiting, Fetching
  <2>2. client # "null"
    BY Names DEF ClientInv, Attempted, Quiet, ClientSteps
  <2>3. client = "initialized"
    BY <2>1, <2>2 DEF TypeOK, ClientInv, Attempted
  <2>4. Open(query) /\ Open(tx)
    BY <2>1, <2>3 DEF ClientInv, Ready
  <2>5. Polled
    BY <2>1 DEF ClientInv, Timed
  <2> QED BY <2>3, <2>4, <2>5 DEF Connected
<1> QED BY <1>1, ServerInvariant, PTL
=============================================================================
