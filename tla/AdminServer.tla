----------------------------- MODULE AdminServer -----------------------------
(***************************************************************************)
(* admin/admin_server.cpp: one thread serves the local clients of the      *)
(* admin channel one after the other, over a socket on POSIX and over a    *)
(* named pipe on Windows.  Here are the thread, up to the command it is to *)
(* run, its clients, and start() and stop(); Runtime says who calls those  *)
(* and what a command does.                                                *)
(***************************************************************************)
EXTENDS Naturals, Sequences, FiniteSets

CONSTANT Clients    \* calls of irpcli; each connects once

VARIABLES platform,   \* "posix" or "windows"
          running,    \* running_
          stopReq,    \* the stop token of thread_
          listening,  \* listenFd_ is open
          apc,        \* where serve() is; "exited": exited_ is set; "off": no thread
          backlog,    \* POSIX: connections nobody has accepted
          pipe,       \* Windows: "none", "free", "dummy", or the client at its other end
          serving,    \* the client that is served, Nobody if there is none
          client      \* where each client is

adminVars == <<platform, running, stopReq, listening, apc, backlog, pipe, serving, client>>

Nobody == "nobody"

AdminInit ==
    /\ platform \in {"posix", "windows"}
    /\ running = FALSE /\ stopReq = FALSE /\ listening = FALSE
    /\ apc = "off" /\ backlog = <<>> /\ pipe = "none" /\ serving = Nobody
    /\ client = [c \in Clients |-> "new"]

-----------------------------------------------------------------------------
(* Clients.  irpcli writes one line and reads the answer; it may also be   *)
(* gone before the line is complete, which ends read() with what there is. *)

ConnectsToSocket(c) ==
    /\ platform = "posix" /\ listening
    /\ backlog' = Append(backlog, c)
    /\ UNCHANGED pipe

\* It waits a while for an instance of the pipe that is not busy.
ConnectsToPipe(c) ==
    /\ pipe = "free"
    /\ pipe' = c
    /\ UNCHANGED backlog

\* A call of irpcli that cannot connect reports it and changes nothing.
Connect(c) ==
    /\ client[c] = "new"
    /\ client' = [client EXCEPT ![c] = "connected"]
    /\ ConnectsToSocket(c) \/ ConnectsToPipe(c)
    /\ UNCHANGED <<platform, running, stopReq, listening, apc, serving>>

Write(c, how) ==
    /\ client[c] = "connected"
    /\ client' = [client EXCEPT ![c] = how]
    /\ UNCHANGED <<platform, running, stopReq, listening, apc, backlog, pipe, serving>>

ClientSends(c) == Write(c, "sent")
ClientLeaves(c) == Write(c, "left")

-----------------------------------------------------------------------------
(* serve().                                                                *)

ServeTests ==
    /\ apc = "test"
    /\ apc' = IF stopReq THEN "exited" ELSE IF platform = "posix" THEN "poll" ELSE "create"
    /\ UNCHANGED <<platform, running, stopReq, listening, backlog, pipe, serving, client>>

ServeAccepts ==
    /\ apc = "poll" /\ backlog # <<>>
    /\ apc' = "read" /\ serving' = Head(backlog) /\ backlog' = Tail(backlog)
    /\ UNCHANGED <<platform, running, stopReq, listening, pipe, client>>

\* poll() gives up after 200 ms, so that the stop token is looked at.
ServeTimesOut ==
    /\ apc = "poll" /\ backlog = <<>>
    /\ apc' = "test"
    /\ UNCHANGED <<platform, running, stopReq, listening, backlog, pipe, serving, client>>

ServeCreatesPipe ==
    /\ apc = "create"
    /\ apc' = "connect" /\ pipe' = "free"
    /\ UNCHANGED <<platform, running, stopReq, listening, backlog, serving, client>>

\* CreateNamedPipe fails: the thread ends, although nobody has asked it to.
ServeHasNoPipe ==
    /\ apc = "create"
    /\ apc' = "exited"
    /\ UNCHANGED <<platform, running, stopReq, listening, backlog, pipe, serving, client>>

\* ConnectNamedPipe returns: someone has connected.
ServeConnects ==
    /\ apc = "connect" /\ pipe # "free"
    /\ IF stopReq
       THEN /\ apc' = "exited" /\ pipe' = "none" /\ UNCHANGED serving
            /\ client' = IF pipe \in Clients THEN [client EXCEPT ![pipe] = "refused"] ELSE client
       ELSE /\ apc' = "read" /\ serving' = pipe /\ UNCHANGED <<pipe, client>>
    /\ UNCHANGED <<platform, running, stopReq, listening, backlog>>

\* It fails because the other end is closed again, which stop() does at once.
ServeLosesPipe ==
    /\ apc = "connect"
    /\ pipe = "dummy" \/ (pipe \in Clients /\ client[pipe] = "left")
    /\ apc' = "test" /\ pipe' = "none"
    /\ UNCHANGED <<platform, running, stopReq, listening, backlog, serving, client>>

\* A line, or the end of the connection without one: either is run as a command.
ServeReads ==
    /\ apc = "read" /\ client[serving] \in {"sent", "left"}
    /\ apc' = "run"
    /\ UNCHANGED <<platform, running, stopReq, listening, backlog, pipe, serving, client>>

ServeReplies ==
    /\ apc = "reply"
    /\ client' = [client EXCEPT ![serving] = IF @ = "sent" THEN "answered" ELSE @]
    /\ apc' = "test" /\ serving' = Nobody /\ pipe' = "none"
    /\ UNCHANGED <<platform, running, stopReq, listening, backlog>>

ServeStep ==
    \/ ServeTests \/ ServeAccepts \/ ServeTimesOut \/ ServeCreatesPipe \/ ServeHasNoPipe
    \/ ServeConnects \/ ServeLosesPipe \/ ServeReads \/ ServeReplies

-----------------------------------------------------------------------------
(* start() and stop(), as steps of the thread that calls them.             *)

AdminStarts ==
    /\ running' = TRUE /\ listening' = (platform = "posix") /\ apc' = "test"
    /\ UNCHANGED <<platform, stopReq, backlog, pipe, serving, client>>

\* The socket cannot be made, bound or listened to.
AdminCannotStart == platform = "posix" /\ UNCHANGED adminVars

AdminRequestsStop ==
    /\ running
    /\ running' = FALSE /\ stopReq' = TRUE
    /\ UNCHANGED <<platform, listening, apc, backlog, pipe, serving, client>>

\* Windows: connects and closes again, to wake ConnectNamedPipe; where no instance
\* of the pipe is free, it comes back after 10 ms.
AdminKnocks ==
    /\ pipe = "free" /\ pipe' = "dummy"
    /\ UNCHANGED <<platform, running, stopReq, listening, apc, backlog, serving, client>>

\* thread_.join(); the clients left in the backlog lose their connection.
AdminJoins ==
    /\ apc = "exited"
    /\ apc' = "off" /\ listening' = FALSE /\ backlog' = <<>>
    /\ client' = [c \in Clients |->
                     IF \E i \in DOMAIN backlog : backlog[i] = c THEN "refused" ELSE client[c]]
    /\ UNCHANGED <<platform, running, stopReq, pipe, serving>>
=============================================================================
