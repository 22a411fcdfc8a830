----------------------------- MODULE PipeService -----------------------------
(***************************************************************************)
(* The engine behind a named pipe: GpuEngineClient.dll (Client.cpp) in each *)
(* client process, one instance of the pipe (PipeServer.cpp), and the       *)
(* single-threaded service (Service.cpp) that owns the engine.  The engine  *)
(* itself is JobLifecycle, which Engine implements.                         *)
(*                                                                         *)
(* The pipe is a byte stream; a message is its header and its body, the two *)
(* pieces in which both sides write and read it.  A client holds g_mutex    *)
(* for a whole call, so a client process is one sequential caller.  The     *)
(* service serves one connection until it breaks.                           *)
(***************************************************************************)
EXTENDS Naturals, Sequences

CONSTANTS
    Clients,        \* the processes that load GpuEngineClient.dll
    NoClient,       \* not one of them
    MaxJobs,        \* bound: jobs accepted between two Init commands
    Shapes,         \* the sizes a client submits: with and without cycle_count
    Plain,          \* the shape with cycle_count = 0
    CanCrash        \* the processes that may crash: clients, or "service"

ASSUME ClientsAssumption == NoClient \notin Clients /\ "service" \notin Clients
ASSUME ShapesAssumption  == "none" \notin Shapes

VARIABLES
    phase, stage, answer,   \* the engine (see JobLifecycle)
    shape,          \* the sizes in the engine's JobRecords
    meta,           \* Service::m_jobs: the sizes noted for each handle
    srv,            \* where the service is
    request,        \* the command it is serving
    reply,          \* what it has still to write
    instance,       \* the pipe instance: "none", "free" or "taken"
    peer,           \* the client at its other end
    toServer, toClient,     \* pieces written and not yet read
    link,           \* each client's m_pipe
    call,           \* where each client is in its call
    op              \* what that call asks for

engine  == <<phase, stage, answer, shape>>
service == <<srv, request, reply, meta>>
pipe    == <<instance, peer, toServer, toClient>>
client  == <<link, call, op>>
vars    == <<engine, service, pipe, client>>

Lib == INSTANCE JobLifecycle

JobIds == Lib!JobIds
NoOp   == [cmd |-> "none", job |-> 0, shape |-> "none"]
Ops    == {NoOp} \cup [cmd : {"Init", "Shutdown"}, job : {0}, shape : {"none"}]
                 \cup [cmd : {"Submit"}, job : {0}, shape : Shapes]
                 \cup [cmd : {"Poll", "Fetch"}, job : JobIds, shape : {"none"}]

\* The pieces of a message.  A "torn" body is shorter than its header
\* announces.
Header(cmd)   == [part |-> "header", cmd |-> cmd]
Request(o)    == [part |-> "body", op |-> o]
Answer(ok, i) == [part |-> "body", ok |-> ok, job |-> i]
Torn          == [part |-> "torn"]

Init ==
    /\ Lib!Init
    /\ shape = [i \in JobIds |-> "none"] /\ meta = [i \in JobIds |-> "none"]
    /\ srv = "create" /\ request = NoOp /\ reply = <<>>
    /\ instance = "none" /\ peer = NoClient /\ toServer = <<>> /\ toClient = <<>>
    /\ link = [c \in Clients |-> "closed"] /\ call = [c \in Clients |-> "idle"]
    /\ op = [c \in Clients |-> NoOp]

-----------------------------------------------------------------------------
(* The client: EnsureConnected, SendCommand, ReadMessage *)

CallGoes(c, from, to) ==
    /\ call[c] = from
    /\ call' = [call EXCEPT ![c] = to]

\* The call returns, with what it read or with an InternalError.
Return(c) ==
    /\ call' = [call EXCEPT ![c] = "idle"]
    /\ op' = [op EXCEPT ![c] = NoOp]

\* Close, after a failed WriteFile or ReadFile or a reply that is not the
\* expected one; the service finds the other end gone.
Close(c) ==
    /\ link' = [link EXCEPT ![c] = "closed"]
    /\ IF peer = c THEN peer' = NoClient /\ toClient' = <<>>
                   ELSE UNCHANGED <<peer, toClient>>

\* Every call begins alike; what it asks for only matters to its first piece.
StartCall(c) ==
    /\ CallGoes(c, "idle", "connect")
    /\ UNCHANGED <<engine, service, pipe, link, op>>

\* EnsureConnected: the handle of an earlier call, or CreateFileW.
Connect(c) ==
    /\ \/ /\ link[c] # "closed"
          /\ CallGoes(c, "connect", "header")
          /\ UNCHANGED <<link, instance, peer>>
       \/ /\ link[c] = "closed" /\ instance = "free"
          /\ CallGoes(c, "connect", "header")
          /\ link' = [link EXCEPT ![c] = "open"]
          /\ instance' = "taken" /\ peer' = c
       \/ /\ link[c] = "closed" /\ instance = "taken"
          /\ CallGoes(c, "connect", "wait")
          /\ UNCHANGED <<link, instance, peer>>
    /\ UNCHANGED <<engine, service, toServer, toClient, op>>

\* No pipe of that name, or WaitNamedPipeW gave up after 3 seconds.
FailToConnect(c) ==
    /\ \/ call[c] = "connect" /\ link[c] = "closed" /\ instance = "none"
       \/ call[c] = "wait"
    /\ Return(c)
    /\ UNCHANGED <<engine, service, pipe, link>>

\* WaitNamedPipeW returns, and CreateFileW is tried again.
PipeIsFree(c) ==
    /\ instance = "free"
    /\ CallGoes(c, "wait", "connect")
    /\ UNCHANGED <<engine, service, pipe, link, op>>

\* SendCommand: the header, then the payload of every command that has one.
SendPiece(c, piece, from, to) ==
    /\ link[c] = "open"
    /\ CallGoes(c, from, to)
    /\ toServer' = Append(toServer, piece)
    /\ UNCHANGED <<engine, service, instance, peer, toClient, link>>

\* Mutant: Init is sent without its payload.
SendInitBare(c) ==
    \E o \in Ops \ {NoOp} :
        /\ op' = [op EXCEPT ![c] = o]
        /\ SendPiece(c, Header(o.cmd), "header",
                     IF o.cmd \in {"Init", "Shutdown"} THEN "answer" ELSE "payload")

\* Nothing keeps a caller from passing a handle that is not, or no longer, its own.
SendHeader(c) ==
    \E o \in Ops \ {NoOp} :
        /\ op' = [op EXCEPT ![c] = o]
        /\ SendPiece(c, Header(o.cmd), "header", IF o.cmd = "Shutdown" THEN "answer" ELSE "payload")

SendPayload(c) ==
    /\ SendPiece(c, Request(op[c]), "payload", "answer")
    /\ UNCHANGED op

\* WriteFile or ReadFile on a connection the service has dropped.
LoseLink(c) ==
    /\ link[c] = "broken"
    /\ call[c] \in {"header", "payload", "answer", "body"}
    /\ Close(c)
    /\ Return(c)
    /\ UNCHANGED <<engine, service, instance, toServer>>

\* ReadMessage: a header that does not answer this command closes the pipe.
ReadHeader(c) ==
    /\ link[c] = "open" /\ call[c] = "answer"
    /\ toClient # <<>>
    /\ IF Head(toClient).part = "header" /\ Head(toClient).cmd = op[c].cmd
       THEN /\ CallGoes(c, "answer", "body")
            /\ toClient' = Tail(toClient)
            /\ UNCHANGED <<op, link, peer>>
       ELSE Close(c) /\ Return(c)
    /\ UNCHANGED <<engine, service, instance, toServer>>

\* The body: ReadExact reads on until it has payload_sz bytes.  A body that is
\* whole ends the call, whatever it says, but GpuEngine_Shutdown has still to
\* close the pipe.
ReadBody(c) ==
    /\ link[c] = "open" /\ call[c] = "body"
    /\ toClient # <<>>
    /\ toClient' = Tail(toClient)
    /\ \/ Head(toClient).part = "torn" /\ UNCHANGED <<call, op>>
       \/ Head(toClient).part # "torn" /\ op[c].cmd # "Shutdown" /\ Return(c)
       \/ /\ Head(toClient).part # "torn" /\ op[c].cmd = "Shutdown"
          /\ CallGoes(c, "body", "closing") /\ UNCHANGED op
    /\ UNCHANGED <<engine, service, instance, peer, toServer, link>>

\* The Close of GpuEngine_Shutdown; the service may have hung up by then.
CloseAfterShutdown(c) ==
    /\ call[c] = "closing"
    /\ Close(c)
    /\ Return(c)
    /\ UNCHANGED <<engine, service, instance, toServer>>

\* The terminal goes away, or reloads the DLL: Windows closes its handle.
CrashClient(c) ==
    /\ c \in CanCrash
    /\ Close(c)
    /\ Return(c)
    /\ UNCHANGED <<engine, service, instance, toServer>>

ClientStep(c) ==
    \/ Connect(c) \/ FailToConnect(c) \/ PipeIsFree(c)
    \/ SendHeader(c) \/ SendPayload(c)
    \/ LoseLink(c) \/ ReadHeader(c) \/ ReadBody(c) \/ CloseAfterShutdown(c)

-----------------------------------------------------------------------------
(* The service: Run and ProcessClient *)

ServiceGoes(from, to) ==
    /\ srv = from
    /\ srv' = to

\* CreateNamedPipeW.  It may fail, again and again with a second's pause, while
\* a client holds its end of an instance that is gone (see Spec): the pipe has
\* one instance at most.
Create ==
    /\ ServiceGoes("create", "listen")
    /\ instance' = "free"
    /\ UNCHANGED <<engine, request, reply, meta, peer, toServer, toClient, client>>

\* ConnectNamedPipe fails when the client has come and gone.
WaitForClient ==
    /\ instance = "taken"
    /\ ServiceGoes("listen", IF peer = NoClient THEN "close" ELSE "read")
    /\ UNCHANGED <<engine, request, reply, meta, pipe, client>>

\* What follows a request: SendStatus with Command::Ping for one that does not
\* begin with a header, the payload, or the command itself.
ReadCommand ==
    /\ toServer # <<>>
    /\ IF Head(toServer).part # "header"
       THEN /\ ServiceGoes("read", "write")
            /\ request' = [NoOp EXCEPT !.cmd = "Shutdown"]
            /\ reply' = <<Header("Ping"), Answer(FALSE, 0)>>
       ELSE /\ ServiceGoes("read", IF Head(toServer).cmd = "Shutdown" THEN "serve" ELSE "payload")
            /\ request' = [NoOp EXCEPT !.cmd = Head(toServer).cmd]
            /\ UNCHANGED reply
    /\ toServer' = Tail(toServer)
    /\ UNCHANGED <<engine, meta, instance, peer, toClient, client>>

ReadPayload ==
    /\ toServer # <<>>
    /\ ServiceGoes("payload", "serve")
    /\ request' = Head(toServer).op
    /\ toServer' = Tail(toServer)
    /\ UNCHANGED <<engine, reply, meta, instance, peer, toClient, client>>

\* Mutant: a client that is gone is only noticed between two commands.
LoseClientLate ==
    /\ peer = NoClient /\ toServer = <<>>
    /\ ServiceGoes("read", "disconnect")
    /\ UNCHANGED <<engine, request, reply, meta, pipe, client>>

\* ReadExact fails once the client is gone and its last bytes are read.
LoseClient ==
    /\ peer = NoClient /\ toServer = <<>>
    /\ srv \in {"read", "payload"}
    /\ srv' = "disconnect"
    /\ UNCHANGED <<engine, request, reply, meta, pipe, client>>

\* A command has been carried out; "job" is 0 when it touched no job.
Serve(cmd, ok, i, body) ==
    /\ ServiceGoes("serve", "write")
    /\ request.cmd = cmd
    /\ request' = [request EXCEPT !.job = IF ok THEN i ELSE 0]
    /\ reply' = <<Header(cmd), body>>
    /\ UNCHANGED <<meta, pipe, client>>

\* EngineState::Init and Command::Shutdown first stop a running engine.
StopEngine ==
    /\ srv = "serve" /\ request.cmd \in {"Init", "Shutdown"}
    /\ Lib!BeginClose
    /\ UNCHANGED <<shape, service, pipe, client>>

ServeInit ==
    /\ phase = "closed"
    /\ \/ Lib!Open /\ shape' = [i \in JobIds |-> "none"]
       \/ Lib!Forget /\ UNCHANGED shape     \* the configuration is refused
    /\ Serve("Init", phase' = "open", 0, Answer(phase' = "open", 0))

ServeShutdown ==
    /\ phase = "closed"
    /\ Lib!Forget
    /\ Serve("Shutdown", TRUE, 0, Answer(TRUE, 0))
    /\ UNCHANGED shape

\* Refused: not initialised, a bad configuration, or the bound MaxJobs.
ServeSubmit ==
    \/ \E i \in JobIds :
         /\ Lib!Accept(i)
         /\ shape' = [shape EXCEPT ![i] = request.shape]
         /\ Serve("Submit", TRUE, i, Answer(TRUE, i))
    \/ /\ Lib!Forget
       /\ Serve("Submit", FALSE, 0, Answer(FALSE, 0))
       /\ UNCHANGED shape

Held(i) == stage[i] \notin {"unknown", "retrieved"}

\* Mutant: the status of a failed Poll is sent beside its PollResponse.
ServePollTwice ==
    /\ Lib!Forget
    /\ srv = "serve" /\ request.cmd = "Poll"
    /\ srv' = "write"
    /\ request' = [request EXCEPT !.job = 0]
    /\ reply' = <<Header("Poll"), Answer(Held(request.job), 0)>>
                \o IF Held(request.job) THEN <<>> ELSE <<Header("Poll"), Answer(FALSE, 0)>>
    /\ UNCHANGED <<shape, meta, pipe, client>>

ServePoll ==
    /\ Lib!Forget
    /\ Serve("Poll", FALSE, 0, Answer(Held(request.job), 0))
    /\ UNCHANGED shape

\* Command::Fetch sizes its vectors by the metadata; those of a job without
\* cycle_count are too short for the cycles the engine chose itself, and the
\* writes from them fail unnoticed.
ServeFetch ==
    LET i == request.job
        fits == srv = "serve" /\ request.cmd = "Fetch" /\ meta[i] # "none" /\ stage[i] = "ready"
    IN \/ /\ fits
          /\ Lib!Retrieve(i)
          /\ shape' = [shape EXCEPT ![i] = "none"]
          /\ \E body \in {Answer(TRUE, i)} \cup (IF meta[i] = Plain THEN {Torn} ELSE {}) :
                Serve("Fetch", TRUE, i, body)
       \/ /\ ~fits
          /\ Lib!Forget
          /\ Serve("Fetch", FALSE, 0, Answer(FALSE, 0))
          /\ UNCHANGED shape

\* WriteExact: the piece before it has been flushed, that is, read; what a
\* client that is gone should have got is dropped, and nobody looks.
Write ==
    /\ srv = "write" /\ reply # <<>>
    /\ toClient = <<>>
    /\ toClient' = IF peer = NoClient THEN <<>> ELSE <<Head(reply)>>
    /\ reply' = Tail(reply)
    /\ UNCHANGED <<engine, srv, request, meta, instance, peer, toServer, client>>

\* Mutant: a job is noted only when its client heard of it.
NotedIfHeard ==
    CASE request.job # 0 /\ request.cmd = "Submit" /\ peer # NoClient
           -> [meta EXCEPT ![request.job] = request.shape]
      [] request.job # 0 /\ request.cmd = "Fetch" -> [meta EXCEPT ![request.job] = "none"]
      [] OTHER -> meta

\* What the command leaves in m_jobs, written after its reply.
Noted ==
    CASE request.job # 0 /\ request.cmd = "Submit" -> [meta EXCEPT ![request.job] = request.shape]
      [] request.job # 0 /\ request.cmd = "Fetch"  -> [meta EXCEPT ![request.job] = "none"]
      [] OTHER                                     -> meta

\* Mutant: WriteExact returns without flushing.
EndUnflushed ==
    /\ reply = <<>>
    /\ ServiceGoes("write", IF request.cmd = "Shutdown" THEN "disconnect" ELSE "read")
    /\ meta' = Noted
    /\ request' = NoOp
    /\ UNCHANGED <<engine, reply, pipe, client>>

EndCommand ==
    /\ reply = <<>> /\ toClient = <<>>
    /\ ServiceGoes("write", IF request.cmd = "Shutdown" THEN "disconnect" ELSE "read")
    /\ meta' = Noted
    /\ request' = NoOp
    /\ UNCHANGED <<engine, reply, pipe, client>>

\* DisconnectNamedPipe discards what was not read and breaks the client's end.
Disconnect ==
    /\ ServiceGoes("disconnect", "close")
    /\ link' = [c \in Clients |-> IF c = peer THEN "broken" ELSE link[c]]
    /\ peer' = NoClient /\ toServer' = <<>> /\ toClient' = <<>>
    /\ UNCHANGED <<engine, request, reply, meta, instance, call, op>>

CloseInstance ==
    /\ ServiceGoes("close", "create")
    /\ instance' = "none" /\ toServer' = <<>>
    /\ UNCHANGED <<engine, request, reply, meta, peer, toClient, client>>

\* The service process dies and is started again.  A last piece its client may
\* still read is a piece the client read before.
CrashService ==
    /\ "service" \in CanCrash
    /\ phase' = "closed" /\ answer' = Lib!NoAnswer
    /\ stage' = [i \in JobIds |-> "unknown"]
    /\ shape' = [i \in JobIds |-> "none"] /\ meta' = [i \in JobIds |-> "none"]
    /\ srv' = "create" /\ request' = NoOp /\ reply' = <<>>
    /\ instance' = "none" /\ peer' = NoClient
    /\ toServer' = <<>> /\ toClient' = <<>>
    /\ link' = [c \in Clients |-> IF c = peer THEN "broken" ELSE link[c]]
    /\ UNCHANGED <<call, op>>

ServiceStep ==
    \/ Create \/ WaitForClient \/ ReadCommand \/ ReadPayload \/ LoseClient
    \/ StopEngine \/ ServeInit \/ ServeShutdown \/ ServeSubmit \/ ServePoll \/ ServeFetch
    \/ Write \/ EndCommand \/ Disconnect \/ CloseInstance

\* The engine's own threads.
EngineStep ==
    /\ Lib!Closed \/ \E i \in JobIds : Lib!Finish(i)
    /\ UNCHANGED <<shape, service, pipe, client>>

Next ==
    \/ \E c \in Clients : StartCall(c) \/ ClientStep(c) \/ CrashClient(c)
    \/ ServiceStep \/ EngineStep \/ CrashService

\* The clients that hold their end of an instance that is gone.
DeadEnds == {c \in Clients : link[c] = "broken"}

\* Every thread that can run runs; nobody has to make a call, or to crash, and
\* no new instance of the pipe is counted on while there are dead ends.
Spec ==
    /\ Init /\ [][Next]_vars
    /\ WF_vars(ServiceStep /\ (srv = "create" => DeadEnds = {})) /\ WF_vars(EngineStep)
    /\ \A c \in Clients : WF_vars(ClientStep(c))

-----------------------------------------------------------------------------
(* Properties *)

\* A call leaves nothing of its own in the pipe: when a connected client is
\* between two calls no piece is under way in either direction and none will
\* be written, so the next reply it reads is the answer to its next command
\* (ReadMessage would otherwise close the pipe or, for two calls of one kind,
\* take one answer for the other).
StreamInSync ==
    \A c \in Clients :
        call[c] = "idle" /\ link[c] = "open" =>
            toServer = <<>> /\ toClient = <<>> /\ reply = <<>>

\* FetchResult copies as many samples as the engine's record has into vectors
\* sized by m_jobs, and m_jobs outlives the engine's records: whenever the
\* service takes a command the two agree on every job the engine still holds,
\* whatever was started, stopped, cut off or restarted before.
MetadataFits ==
    srv = "read" => \A i \in JobIds : Held(i) => meta[i] = shape[i]

\* DisconnectNamedPipe discards what its client has not read.  The service hangs
\* up on nobody who still waits for something: a client that is still there has
\* read the whole answer to its Shutdown and is only about to close the pipe.
AnswersAreRead ==
    srv = "disconnect" /\ peer # NoClient => call[peer] = "closing"

\* A client that got the pipe gets out of its call again, also when the service
\* or the client before it died.
ConnectedCallsReturn ==
    \A c \in Clients : call[c] \in {"header", "payload", "answer", "body", "closing"} ~> call[c] = "idle"

\* There is one instance of the pipe; when its client has gone, in whatever
\* step of its call, or the service was restarted, another client can connect
\* before long, unless a client that makes no call holds a dead end: it closes
\* it only in its next call.
ServiceIsReachableAgain ==
    (instance # "free" /\ peer = NoClient)
        ~> (instance = "free" \/ \E c \in DeadEnds : call[c] = "idle")
=============================================================================
