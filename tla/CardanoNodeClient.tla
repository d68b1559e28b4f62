------------------------- MODULE CardanoNodeClient -------------------------
(***************************************************************************)
(* CardanoNodeClient.ts and its DataFetcher: how the server's client of    *)
(* Ogmios initializes, polls the health of the node, and reconnects.       *)
(*                                                                         *)
(* An interaction context is a WebSocket with an onClose handler, which    *)
(* calls shutdown and initialize of the one client.  Several of them run   *)
(* concurrently when several contexts close: a task is main, or a handler, *)
(* and its step is the call it is waiting for.  Node runs a task from one  *)
(* event to the next one it waits for: nothing comes between the end of    *)
(* shutdown and initialize, which follow one another.                      *)
(***************************************************************************)
EXTENDS Naturals, FiniteSets

CONSTANTS
  Contexts,    \* bound: interaction contexts in use at a time
  Handlers     \* bound: onClose handlers at work at a time

ASSUME ContextsAssumption ==
  /\ {"none", "gone"} \cap Contexts = {}
  /\ {"main", "poll"} \cap Handlers = {}

Tasks == {"main"} \cup Handlers

\* shutdown and initialize, in the order of their awaits.
ClientSteps == {"idle", "clearing", "closeQuery", "closeTx",
                "initialize", "fetch", "fetching", "connect", "tip"}

VARIABLES
  client,      \* CardanoNodeClient.state
  socket,      \* of each context
  query,       \* the context of stateQueryClient, "gone" once its socket is closed
  tx,          \* the context of txSubmissionClient, likewise
  timer,       \* DataFetcher.pollingQueryTimer
  leaked,      \* a timer was overwritten before it was cleared
  isFetching,
  inflight,    \* who waits for fetchFn: tasks, or "poll" for the timers
  value,       \* DataFetcher.value is defined
  task,        \* step of each task
  own          \* the context a task has opened, or waits for the close of

fetcher == <<timer, leaked, isFetching, inflight, value>>
clientVars == <<client, socket, query, tx, fetcher, task, own>>

ClientBlank ==
  /\ client = "null"
  /\ socket = [c \in Contexts |-> "closed"] /\ query = "none" /\ tx = "none"
  /\ timer = "none" /\ leaked = FALSE /\ isFetching = FALSE /\ inflight = {} /\ value = FALSE
  /\ task = [t \in Tasks |-> IF t = "main" THEN "initialize" ELSE "idle"]
  /\ own = [t \in Tasks |-> "none"]

Goes(t, step) == task' = [task EXCEPT ![t] = step]
Owns(t, c) == own' = [own EXCEPT ![t] = c]

Open(c) == c \in Contexts /\ socket[c] = "open"

\* The clients whose context c was have a closed socket.
Leaves(c) ==
  /\ query' = IF query = c THEN "gone" ELSE query
  /\ tx' = IF tx = c THEN "gone" ELSE tx

\* main goes on with Server.init.
Returned(t) == IF t = "main" THEN "configure" ELSE "idle"

-----------------------------------------------------------------------------
(* DataFetcher                                                               *)
(*                                                                           *)
(* A definition marked "Mistake" is one the properties are sensitive to: no  *)
(* action uses it.                                                           *)

\* setIntervalAsync: the timer before it, if it still runs, is never cleared.
SetTimer ==
  /\ timer' = "live"
  /\ leaked' = (leaked \/ timer = "live")

\* Mistake: an error leaves the guard of fetch set.
FetchedOrStuck(who) ==
  /\ inflight' = inflight \ {who}
  /\ \/ value' = TRUE /\ isFetching' = FALSE
     \/ UNCHANGED <<value, isFetching>>

\* fetchFn settles; an error leaves the value as it was.
Fetched(who) ==
  /\ isFetching' = FALSE
  /\ inflight' = inflight \ {who}
  /\ value' \in {value, TRUE}

\* Mistake: fetch has no guard.
BeginFetchAnyway(t) ==
  /\ task[t] = "fetch"
  /\ isFetching' = TRUE /\ inflight' = inflight \cup {t}
  /\ Goes(t, "fetching")
  /\ UNCHANGED <<client, socket, query, tx, timer, leaked, value, own>>

BeginFetch(t) ==
  /\ task[t] = "fetch"
  /\ IF isFetching
     THEN SetTimer /\ Goes(t, "connect") /\ UNCHANGED <<isFetching, inflight>>
     ELSE /\ isFetching' = TRUE /\ inflight' = inflight \cup {t}
          /\ Goes(t, "fetching")
          /\ UNCHANGED <<timer, leaked>>
  /\ UNCHANGED <<client, socket, query, tx, value, own>>

EndFetch(t) ==
  /\ task[t] = "fetching"
  /\ Fetched(t) /\ SetTimer
  /\ Goes(t, "connect")
  /\ UNCHANGED <<client, socket, query, tx, own>>

Polled == timer = "live" \/ leaked

BeginPoll ==
  /\ Polled /\ ~isFetching
  /\ isFetching' = TRUE /\ inflight' = inflight \cup {"poll"}
  /\ UNCHANGED <<client, socket, query, tx, timer, leaked, value, task, own>>

EndPoll ==
  /\ "poll" \in inflight
  /\ Fetched("poll")
  /\ UNCHANGED <<client, socket, query, tx, timer, leaked, task, own>>

-----------------------------------------------------------------------------
(* CardanoNodeClient.initialize *)

Initialize(t) == client' = "initializing" /\ Goes(t, "fetch")

EnterInitialize(t) ==
  /\ task[t] = "initialize"
  /\ Initialize(t)
  /\ UNCHANGED <<socket, query, tx, fetcher, own>>

\* A context that nothing refers to any more stands for a new one.
Fresh(c) == socket[c] = "closed" /\ \A t \in Tasks : own[t] # c

\* createInteractionContextWithLogger and createLedgerStateQueryClient.  A failed
\* attempt is retried.
Connect(t) ==
  /\ task[t] = "connect"
  /\ \E c \in Contexts :
       /\ Fresh(c)
       /\ socket' = [socket EXCEPT ![c] = "open"]
       /\ query' = c /\ Owns(t, c)
  /\ Goes(t, "tip")
  /\ UNCHANGED <<client, tx, fetcher>>

\* The ledger tip, and createTransactionSubmissionClient on the same context.  An
\* answer may still arrive on a socket that is closing.
TipAnswered(t) ==
  /\ task[t] = "tip" /\ socket[own[t]] # "closed"
  /\ tx' = own[t] /\ client' = "initialized"
  /\ Owns(t, "none") /\ Goes(t, Returned(t))
  /\ UNCHANGED <<socket, query, fetcher>>

\* The attempt fails with its socket, and pRetry makes another.
TipCutOff(t) ==
  /\ task[t] = "tip" /\ socket[own[t]] = "closed"
  /\ Owns(t, "none") /\ Goes(t, "connect")
  /\ UNCHANGED <<client, socket, query, tx, fetcher>>

\* The attempt fails at Ogmios: its context stays open, with its onClose.
\* Bound: one context is left behind at a time.
TipUnavailable(t) ==
  /\ task[t] = "tip" /\ {c \in Contexts : socket[c] = "open"} = {own[t]}
  /\ Owns(t, "none") /\ Goes(t, "connect")
  /\ UNCHANGED <<client, socket, query, tx, fetcher>>

-----------------------------------------------------------------------------
(* onClose: shutdown, then initialize.  Unless the client is initialized,    *)
(* shutdown returns early, and so does initialize, as somebody is in it.     *)

\* Mistake: onClose is shutdown only.
SocketOnlyCloses(c) ==
  /\ socket[c] # "closed"
  /\ socket' = [socket EXCEPT ![c] = "closed"]
  /\ IF client = "initialized" THEN client' = "null" /\ timer' = "cleared"
     ELSE UNCHANGED <<client, timer>>
  /\ Leaves(c)
  /\ UNCHANGED <<leaked, isFetching, inflight, value, task, own>>

SocketCloses(c) ==
  /\ socket[c] # "closed"
  /\ socket' = [socket EXCEPT ![c] = "closed"]
  /\ IF client = "initialized"
     THEN /\ timer' = "cleared"
          /\ \E h \in Handlers : task[h] = "idle" /\ Goes(h, "clearing")
     ELSE UNCHANGED <<timer, task>>
  /\ Leaves(c)
  /\ UNCHANGED <<client, leaked, isFetching, inflight, value, own>>

\* Mistake: shutdown does not look at the socket of the submission client.
ShutTxAnyway(t, sockets) ==
  /\ socket' = [sockets EXCEPT ![tx] = "closing"]
  /\ Owns(t, tx) /\ Goes(t, "closeTx")
  /\ UNCHANGED client

\* shutdown once the state query client is shut, and initialize.
ShutTx(t, sockets) ==
  IF Open(tx)
  THEN /\ socket' = [sockets EXCEPT ![tx] = "closing"]
       /\ Owns(t, tx) /\ Goes(t, "closeTx")
       /\ UNCHANGED client
  ELSE socket' = sockets /\ Owns(t, "none") /\ Initialize(t)

\* clearIntervalAsync waits for the callback of its timer; one in flight may be of
\* a leaked timer.
Cleared(t) ==
  /\ task[t] = "clearing"
  /\ "poll" \in inflight => leaked
  /\ IF Open(query)
     THEN /\ socket' = [socket EXCEPT ![query] = "closing"]
          /\ Owns(t, query) /\ Goes(t, "closeQuery")
          /\ UNCHANGED client
     ELSE ShutTx(t, socket)
  /\ UNCHANGED <<query, tx, fetcher>>

\* Two tasks that the same callback resumes both set the state to null before the
\* first of them initializes, and the second returns early.
ClearedTogether(t) ==
  /\ task[t] = "clearing"
  /\ "poll" \in inflight => leaked
  /\ client = "initializing" /\ ~Open(query) /\ ~Open(tx)
  /\ Goes(t, "idle")
  /\ UNCHANGED <<client, socket, query, tx, fetcher, own>>

\* The socket closes with code 1000, so its onClose does nothing, or has been cut off.
QueryShut(t) ==
  /\ task[t] = "closeQuery"
  /\ ShutTx(t, [socket EXCEPT ![own[t]] = "closed"]) /\ Leaves(own[t])
  /\ UNCHANGED fetcher

TxShut(t) ==
  /\ task[t] = "closeTx"
  /\ socket' = [socket EXCEPT ![own[t]] = "closed"] /\ Leaves(own[t])
  /\ Owns(t, "none") /\ Initialize(t)
  /\ UNCHANGED fetcher

-----------------------------------------------------------------------------
ClientStep(t) ==
  \/ EnterInitialize(t) \/ BeginFetch(t) \/ EndFetch(t)
  \/ Connect(t) \/ TipAnswered(t) \/ TipCutOff(t)
  \/ Cleared(t) \/ ClearedTogether(t) \/ QueryShut(t) \/ TxShut(t)

ClientFault ==
  \/ \E c \in Contexts : SocketCloses(c)
  \/ \E t \in Tasks : TipUnavailable(t)

\* No task is in initialize or shutdown.
Quiet == \A t \in Tasks : task[t] \notin ClientSteps \ {"idle"}

Connected ==
  /\ client = "initialized" /\ Polled
  /\ Open(query) /\ Open(tx)
=============================================================================
