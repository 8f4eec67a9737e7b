----------------------------- MODULE LocalClient -----------------------------
(***************************************************************************)
(* The local client library (cimcClientSfcbLocal.c): client environments, *)
(* the clients connected in them, and the one connection to the broker    *)
(* the whole process shares (sfcbSockets.send), opened by the first       *)
(* localConnect and counted by localConnectCount.  Every change of the    *)
(* count and of the connection happens under lcc_mutex, so each call is   *)
(* one step; a request reads the connection without the lock.             *)
(* Host, user, port and certificate strings are not modelled: no path of  *)
(* the connection depends on them.                                         *)
(***************************************************************************)
EXTENDS Naturals

CONSTANTS
    Envs,       \* the ClientEnv objects the program may create
    Clients,    \* the Client objects CMPIConnect may return
    NoEnv,      \* model value: a client not yet created
    MaxConnect  \* a bound on localConnectCount

VARIABLES
    env,        \* env[e]: "unborn", "live" or "released"
    client,     \* client[c]: [env, st] with st "unused", "live" or "released"
    localConnectCount,
    sendOpen,   \* sfcbSockets.send holds an open socket (is not -1)
    socketName, \* the static socketName has been read from the config
    reply       \* reply[c]: the status of c's last request, or "none"

vars == <<env, client, localConnectCount, sendOpen, socketName, reply>>

\* What the broker's provider manager may answer getProviderContext.
BrokerAnswers == {"MSG_X_PROVIDER", "MSG_X_NOT_SUPPORTED", "MSG_X_INVALID_CLASS",
                  "MSG_X_INVALID_NAMESPACE", "MSG_X_PROVIDER_NOT_FOUND", "MSG_X_FAILED"}

\* ctxErrResponse: the CMPI status a client gets for a getProviderContext
\* that found no provider; any code it does not know is an internal error.
ctxErrResponse(irc) ==
    CASE irc = "MSG_X_NOT_SUPPORTED"      -> "NOT_SUPPORTED"
      [] irc = "MSG_X_INVALID_CLASS"      -> "INVALID_CLASS"
      [] irc = "MSG_X_INVALID_NAMESPACE"  -> "INVALID_NAMESPACE"
      [] irc = "MSG_X_PROVIDER_NOT_FOUND" -> "NOT_FOUND"
      [] OTHER                            -> "FAILED"

Init ==
    /\ env = [e \in Envs |-> "unborn"]
    /\ client = [c \in Clients |-> [env |-> NoEnv, st |-> "unused"]]
    /\ localConnectCount = 0
    /\ sendOpen = FALSE
    /\ socketName = FALSE
    /\ reply = [c \in Clients |-> "none"]

\* _Create_SfcbLocal_Env: a new environment; nothing is connected yet.
CreateEnv(e) ==
    /\ env[e] = "unborn"
    /\ env' = [env EXCEPT ![e] = "live"]
    /\ UNCHANGED <<client, localConnectCount, sendOpen, socketName, reply>>

\* localConnect under lcc_mutex, with the outcome of each system call it
\* makes: its value is the new [count, open, name, ok].  With the count at
\* 0 it opens a socket, reads localSocketPath once (socketName is static),
\* connects, sends its pid and user and receives the broker's fd; any
\* failure closes the socket and returns below 0, the count unchanged.
\* Otherwise the count goes up by one.
localConnect(step) ==
    LET ok(open, name) == [count |-> localConnectCount + 1, open |-> open,
                           name |-> name, ok |-> TRUE]
        fail(name) == [count |-> localConnectCount, open |-> sendOpen,
                       name |-> name, ok |-> FALSE]
    IN  IF localConnectCount > 0 THEN ok(sendOpen, socketName)
        ELSE CASE step = "socket_fails"      -> fail(socketName)
               [] ~socketName /\ step = "no_config" -> fail(FALSE)
               [] step = "connect_fails"     -> fail(TRUE)
               [] step = "no_fd"             -> fail(TRUE)
               [] OTHER                      -> ok(TRUE, TRUE)

\* The ways the first localConnect can go.
ConnectSteps == {"socket_fails", "no_config", "connect_fails", "no_fd", "connected"}

\* CMPIConnect / CMPIConnect2 in environment e: localConnect, and a new
\* Client only when it succeeds (NULL otherwise).
CMPIConnect2(e, c, step) ==
    LET r == localConnect(step)
    IN  /\ env[e] = "live"
        /\ client[c].st = "unused"
        /\ localConnectCount < MaxConnect
        /\ localConnectCount' = r.count
        /\ sendOpen' = r.open
        /\ socketName' = r.name
        /\ client' = IF r.ok THEN [client EXCEPT ![c] = [env |-> e, st |-> "live"]]
                     ELSE client
        /\ UNCHANGED <<env, reply>>

\* releaseClient: frees the client's strings; the connection count is
\* left as it is (cl->connection is never set, so nothing is released).
releaseClient(c) ==
    /\ client[c].st = "live"
    /\ client' = [client EXCEPT ![c].st = "released"]
    /\ UNCHANGED <<env, localConnectCount, sendOpen, socketName, reply>>

\* release of an environment: under lcc_mutex the count goes down by one
\* if it is positive, and at 0 the shared connection is closed.
release(e) ==
    /\ env[e] = "live"
    /\ env' = [env EXCEPT ![e] = "released"]
    /\ localConnectCount' = IF localConnectCount > 0 THEN localConnectCount - 1
                            ELSE localConnectCount
    /\ sendOpen' = (sendOpen /\ localConnectCount' # 0)
    /\ UNCHANGED <<client, socketName, reply>>

\* A request of client c (enumInstanceNames and the other operations):
\* getProviderContext goes to the broker over sfcbSockets.send.  On an
\* open connection the broker answers; on a closed one the send fails and
\* the client gets an error.  MSG_X_PROVIDER leads to the provider call.
Request(c, irc) ==
    /\ client[c].st = "live"
    /\ env[client[c].env] = "live"
    /\ IF sendOpen THEN irc \in BrokerAnswers ELSE irc = "MSG_X_SEND_FAILED"
    /\ reply' = [reply EXCEPT ![c] = IF irc = "MSG_X_PROVIDER" THEN "OK"
                                     ELSE ctxErrResponse(irc)]
    /\ UNCHANGED <<env, client, localConnectCount, sendOpen, socketName>>

Next ==
    \/ \E e \in Envs : CreateEnv(e) \/ release(e)
    \/ \E e \in Envs, c \in Clients, s \in ConnectSteps : CMPIConnect2(e, c, s)
    \/ \E c \in Clients : releaseClient(c)
    \/ \E c \in Clients, irc \in BrokerAnswers \union {"MSG_X_SEND_FAILED"} : Request(c, irc)

Spec == Init /\ [][Next]_vars

-----------------------------------------------------------------------------
\* The broker connection lives exactly as long as the environments that
\* counted it: every client of a live environment that has not been
\* released still has the connection its localConnect counted (release of
\* one environment never closes the socket another one's client uses), and
\* once no environment is live the connection is closed (every counted
\* localConnect has been given back by a release).
ConnectionFollowsEnvs ==
    /\ \A c \in Clients :
          (client[c].st = "live" /\ env[client[c].env] = "live") => sendOpen
    /\ sendOpen => \E e \in Envs : env[e] = "live"

=============================================================================
