----------------------------- MODULE PipeProofs ------------------------------
(***************************************************************************)
(* Proofs about PipeService, for any clients, jobs and shapes, and any set   *)
(* of processes that may crash: requests and replies never get out of step,  *)
(* the sizes noted by the service are those of the engine, and the service   *)
(* hangs up on nobody who still waits for an answer.                        *)
(***************************************************************************)
EXTENDS PipeService, SequenceTheorems, TLAPS

-----------------------------------------------------------------------------
(* Messages and requests *)

Commands == {"Init", "Shutdown", "Submit", "Poll", "Fetch"}
Requests == [cmd : Commands \cup {"none"}, job : JobIds \cup {0}, shape : Shapes \cup {"none"}]
Asked    == Ops \ {NoOp}

\* What a call writes, and the bodies that may answer a command.
Message(o) == IF o.cmd = "Shutdown" THEN <<Header(o.cmd)>> ELSE <<Header(o.cmd), Request(o)>>
Body(cmd)  == {Answer(ok, i) : ok \in BOOLEAN, i \in JobIds \cup {0}}
              \cup (IF cmd = "Fetch" THEN {Torn} ELSE {})

-----------------------------------------------------------------------------
(* The invariant *)

Typed ==
    /\ DOMAIN stage = JobIds /\ DOMAIN shape = JobIds /\ DOMAIN meta = JobIds
    /\ DOMAIN link = Clients /\ DOMAIN call = Clients
    /\ op \in [Clients -> Ops]
    /\ request \in Requests
    /\ \A c \in Clients : call[c] \in {"payload", "answer", "body", "closing"} => op[c] \in Asked

\* The one client whose handle works is the one at the other end of the instance.
Connected ==
    /\ peer \in Clients \cup {NoClient}
    /\ \A c \in Clients : link[c] = "open" <=> peer = c
    /\ \A c \in Clients : call[c] = "wait" => link[c] = "closed"
    /\ \A c \in Clients : call[c] \in {"header", "payload", "answer", "body", "closing"} => link[c] # "closed"
    /\ peer # NoClient => /\ instance = "taken"
                          /\ srv \in {"listen", "read", "payload", "serve", "write", "disconnect"}
    /\ srv = "create" => instance = "none"
    /\ srv = "listen" => instance # "none"
    /\ peer = NoClient => toClient = <<>>
    /\ instance = "free" => srv = "listen" /\ toServer = <<>>

\* What the service has still to read is the rest of one request.
Incoming ==
    /\ srv \in {"create", "serve"} => toServer = <<>>
    /\ srv \in {"listen", "read", "write"} =>
          toServer = <<>> \/ \E o \in Asked : toServer \in {<<Header(o.cmd)>>, Message(o)}
    /\ srv = "payload" => toServer = <<>> \/ \E o \in Asked : toServer = <<Request(o)>>
    /\ srv = "serve" => request \in Asked
    /\ srv # "write" => reply = <<>>

\* The service is about to take the next command, and has nothing to say.
Quiet ==
    /\ srv \in {"listen", "read"} \/ (srv = "write" /\ request.cmd # "Shutdown")
    /\ reply = <<>> /\ toClient = <<>>

\* How far the call of the connected client and the service have come with it.
Talk(c) ==
    /\ call[c] \in {"idle", "connect", "header", "payload", "answer", "body", "closing"}
    /\ call[c] \in {"idle", "connect", "header"} => Quiet /\ toServer = <<>>
    /\ call[c] = "payload" =>
          /\ op[c].cmd # "Shutdown"
          /\ \/ Quiet /\ toServer = <<Header(op[c].cmd)>>
             \/ srv = "payload" /\ toServer = <<>> /\ toClient = <<>>
    /\ call[c] = "answer" =>
          \/ Quiet /\ toServer = Message(op[c])
          \/ srv = "payload" /\ toServer = <<Request(op[c])>> /\ toClient = <<>>
          \/ srv = "serve" /\ request.cmd = op[c].cmd /\ toClient = <<>>
          \/ /\ srv = "write" /\ request.cmd = op[c].cmd /\ toServer = <<>>
             /\ \E b \in Body(op[c].cmd) :
                   \/ reply = <<Header(op[c].cmd), b>> /\ toClient = <<>>
                   \/ reply = <<b>> /\ toClient = <<Header(op[c].cmd)>>
    /\ call[c] = "body" =>
          /\ toServer = <<>>
          /\ \/ Quiet /\ op[c].cmd # "Shutdown"
             \/ /\ srv = "write" /\ request.cmd = op[c].cmd
                /\ \E b \in Body(op[c].cmd) :
                      \/ reply = <<b>> /\ toClient = <<>>
                      \/ reply = <<>> /\ toClient = <<b>>
    /\ call[c] = "closing" =>
          /\ toServer = <<>> /\ toClient = <<>> /\ reply = <<>>
          /\ srv = "disconnect" \/ (srv = "write" /\ request.cmd = "Shutdown")

Conversation == peer # NoClient => Talk(peer)

\* The sizes of a job the engine holds are noted, or are about to be.
Noting ==
    /\ \A i \in JobIds : Held(i) =>
          shape[i] = IF srv = "write" /\ request.cmd = "Submit" /\ request.job = i
                     THEN request.shape ELSE meta[i]
    /\ srv = "write" /\ request.cmd = "Fetch" /\ request.job # 0 => stage[request.job] = "retrieved"

PipeInv == Typed /\ Connected /\ Incoming /\ Conversation /\ Noting

-----------------------------------------------------------------------------
(* Facts about the data *)

LEMMA Lists ==
    /\ \A x : <<x>> # <<>> /\ Head(<<x>>) = x /\ Tail(<<x>>) = <<>> /\ Append(<<>>, x) = <<x>>
    /\ \A x, y : <<x, y>> # <<>> /\ Head(<<x, y>>) = x /\ Tail(<<x, y>>) = <<y>>
                 /\ Append(<<x>>, y) = <<x, y>>
<1>1. \A x : <<x>> # <<>> /\ Head(<<x>>) = x /\ Tail(<<x>>) = <<>> /\ Append(<<>>, x) = <<x>>
  OBVIOUS
<1>2. \A x, y : <<x, y>> # <<>> /\ Head(<<x, y>>) = x /\ Tail(<<x, y>>) = <<y>>
  OBVIOUS
<1>3. ASSUME NEW x, NEW y PROVE Append(<<x>>, y) = <<x, y>>
  <2> DEFINE S == {x, y}
  <2>1. <<x>> \in Seq(S) /\ <<x, y>> \in Seq(S) /\ y \in S
    OBVIOUS
  <2>2. Append(<<x>>, y) \in Seq(S) /\ Len(Append(<<x>>, y)) = 2 /\ Len(<<x, y>>) = 2
    BY <2>1
  <2>3. Append(<<x>>, y)[1] = x /\ Append(<<x>>, y)[2] = y /\ <<x, y>>[1] = x /\ <<x, y>>[2] = y
    BY <2>1
  <2>4. \A i \in 1 .. 2 : Append(<<x>>, y)[i] = <<x, y>>[i]
    BY <2>3
  <2> HIDE DEF S
  <2> QED
    BY <2>1, <2>2, <2>4, SeqEqual
<1> QED
  BY <1>1, <1>2, <1>3

LEMMA Pieces ==
    /\ \A cmd : Header(cmd).part = "header" /\ Header(cmd).cmd = cmd
    /\ \A o : Request(o).part = "body" /\ Request(o).op = o
    /\ \A cmd : \A b \in Body(cmd) : b.part \in {"body", "torn"} /\ (cmd # "Fetch" => b.part = "body")
  BY DEF Header, Request, Body, Answer, Torn

LEMMA Messages ==
    ASSUME NEW o
    PROVE  /\ Message(o) # <<>> /\ Head(Message(o)) = Header(o.cmd)
           /\ o.cmd = "Shutdown" => Message(o) = <<Header(o.cmd)>> /\ Tail(Message(o)) = <<>>
           /\ o.cmd # "Shutdown" => /\ Tail(Message(o)) = <<Request(o)>>
                                    /\ Append(<<Header(o.cmd)>>, Request(o)) = Message(o)
  BY Lists DEF Message

LEMMA AskedTypes ==
    /\ NoOp \in Ops /\ Asked \subseteq Ops /\ NoOp \in Requests
    /\ \A o \in Asked : /\ o \in Requests /\ o.cmd \in Commands
                        /\ o.cmd = "Fetch" => o.job \in JobIds
    /\ \A cmd \in Commands : [NoOp EXCEPT !.cmd = cmd] \in Requests
    /\ [NoOp EXCEPT !.cmd = "Shutdown"] \in Asked
    /\ \A r \in Requests, i \in JobIds \cup {0} : [r EXCEPT !.job = i] \in Requests
  BY DEF Asked, Ops, NoOp, Requests, Commands

\* What the service finds at the head of what it has still to read.
LEMMA FirstPiece ==
    ASSUME Incoming, toServer # <<>>
    PROVE  /\ srv = "read" => \E o \in Asked :
                 /\ Head(toServer) = Header(o.cmd) /\ Head(toServer).part = "header"
                 /\ Head(toServer).cmd = o.cmd
                 /\ Tail(toServer) = <<>> \/ (o.cmd # "Shutdown" /\ Tail(toServer) = <<Request(o)>>)
           /\ srv = "payload" => \E o \in Asked :
                 Head(toServer).op = o /\ toServer = <<Request(o)>> /\ Tail(toServer) = <<>>
<1>1. CASE srv = "read"
  <2>1. PICK o \in Asked : toServer \in {<<Header(o.cmd)>>, Message(o)}
    BY <1>1 DEF Incoming
  <2>2. Head(toServer) = Header(o.cmd)
    BY <2>1, Lists, Messages
  <2>3. Tail(toServer) = <<>> \/ (o.cmd # "Shutdown" /\ Tail(toServer) = <<Request(o)>>)
    BY <2>1, Lists, Messages
  <2> QED
    BY <1>1, <2>2, <2>3, Pieces
<1>2. CASE srv = "payload"
  <2>1. PICK o \in Asked : toServer = <<Request(o)>>
    BY <1>2 DEF Incoming
  <2> QED
    BY <1>2, <2>1, Lists, Pieces
<1> QED
  BY <1>1, <1>2

-----------------------------------------------------------------------------
LEMMA PipeInit == Init => PipeInv
<1> SUFFICES ASSUME Init PROVE PipeInv
  OBVIOUS
<1>1. stage = [i \in JobIds |-> "unknown"]
  BY DEF Init, Lib!Init, JobIds
<1>2. Typed
  BY <1>1, AskedTypes DEF Init, Typed
<1>3. Connected /\ Incoming /\ Conversation
  BY ClientsAssumption DEF Init, Connected, Incoming, Conversation
<1>4. Noting
  BY <1>1 DEF Init, Noting, Held
<1> QED
  BY <1>2, <1>3, <1>4 DEF PipeInv

-----------------------------------------------------------------------------
(* A step of a client *)

\* What no client touches.
LEMMA ClientsLeave ==
    ASSUME NEW c \in Clients, StartCall(c) \/ ClientStep(c) \/ CrashClient(c)
    PROVE  UNCHANGED <<engine, service>>
  BY DEF StartCall, ClientStep, CrashClient, Connect, FailToConnect, PipeIsFree, SendHeader, SendPayload,
     SendPiece, LoseLink, ReadHeader, ReadBody, CloseAfterShutdown

LEMMA ClientTyped ==
    ASSUME PipeInv, NEW c \in Clients, StartCall(c) \/ ClientStep(c) \/ CrashClient(c)
    PROVE  Typed'
<1>1. UNCHANGED <<stage, shape, meta, request>>
  BY ClientsLeave DEF engine, service
<1>2. /\ DOMAIN link' = Clients /\ DOMAIN call' = Clients
      /\ \A d \in Clients : d # c => call'[d] = call[d] /\ op'[d] = op[d]
  BY DEF PipeInv, Typed, StartCall, ClientStep, CrashClient, Connect, FailToConnect, PipeIsFree,
     SendHeader, SendPayload, SendPiece, LoseLink, ReadHeader, ReadBody, CloseAfterShutdown, Close, Return, CallGoes, client
<1>3. \/ call'[c] = "idle" /\ op' = [op EXCEPT ![c] = NoOp]
      \/ \E o \in Asked : op' = [op EXCEPT ![c] = o]
      \/ op' = op /\ call[c] \in {"payload", "answer", "body", "closing"}
      \/ op' = op /\ call'[c] \in {"idle", "connect", "wait", "header"}
  BY DEF PipeInv, Typed, StartCall, ClientStep, CrashClient, Connect, FailToConnect, PipeIsFree,
     SendHeader, SendPayload, SendPiece, LoseLink, ReadHeader, ReadBody, CloseAfterShutdown, Close, Return, CallGoes, client, Asked
<1> QED
  BY <1>1, <1>2, <1>3, AskedTypes DEF PipeInv, Typed

\* Who is connected to whom after a step of a client.
LEMMA ClientConnected ==
    ASSUME PipeInv, NEW c \in Clients, StartCall(c) \/ ClientStep(c) \/ CrashClient(c)
    PROVE  Connected'
<1> USE ClientsAssumption DEF PipeInv, Typed, Connected
<1>1. srv' = srv
  BY ClientsLeave DEF service
<1>2. CASE StartCall(c) \/ PipeIsFree(c)
  BY <1>1, <1>2 DEF StartCall, PipeIsFree, CallGoes, pipe
<1>3. CASE Connect(c)
  BY <1>1, <1>3 DEF Connect, CallGoes
<1>4. CASE FailToConnect(c)
  BY <1>1, <1>4 DEF FailToConnect, Return, pipe
<1>5. CASE SendHeader(c) \/ SendPayload(c)
  BY <1>1, <1>5 DEF SendHeader, SendPayload, SendPiece, CallGoes
<1>6. CASE LoseLink(c) \/ CrashClient(c) \/ CloseAfterShutdown(c)
  BY <1>1, <1>6 DEF LoseLink, CrashClient, CloseAfterShutdown, Close, Return
<1>7. CASE ReadHeader(c)
  BY <1>1, <1>7 DEF ReadHeader, Close, Return, CallGoes
<1>8. CASE ReadBody(c)
  BY <1>1, <1>8 DEF ReadBody, Return, CallGoes
<1> QED
  BY <1>2, <1>3, <1>4, <1>5, <1>6, <1>7, <1>8 DEF ClientStep

\* A client that sends is in the middle of its own call, and nothing else is.
LEMMA ClientIncoming ==
    ASSUME PipeInv, NEW c \in Clients, StartCall(c) \/ ClientStep(c) \/ CrashClient(c)
    PROVE  Incoming'
<1>1. UNCHANGED <<srv, request, reply>>
  BY ClientsLeave DEF service
<1>2. CASE ~ (SendHeader(c) \/ SendPayload(c))
  <2>1. toServer' = toServer
    BY <1>2 DEF StartCall, ClientStep, CrashClient, Connect, FailToConnect, PipeIsFree,
       LoseLink, ReadHeader, ReadBody, CloseAfterShutdown, pipe
  <2> QED
    BY <1>1, <2>1 DEF PipeInv, Incoming
<1>3. CASE SendHeader(c) \/ SendPayload(c)
  <2>1. c = peer /\ c # NoClient /\ Talk(c)
    BY <1>3, ClientsAssumption DEF SendHeader, SendPayload, SendPiece, CallGoes, PipeInv, Connected,
       Conversation
  <2>2. CASE SendHeader(c)
    <3>1. Quiet /\ \E o \in Asked : toServer' = <<Header(o.cmd)>>
      BY <2>1, <2>2, Lists DEF SendHeader, SendPiece, CallGoes, Talk, Asked
    <3> QED
      BY <1>1, <2>1, <3>1 DEF PipeInv, Incoming, Quiet
  <2>3. CASE SendPayload(c)
    <3>0. op[c] \in Asked
      BY <2>3 DEF SendPayload, SendPiece, CallGoes, PipeInv, Typed
    <3>1. \/ Quiet /\ toServer' = Message(op[c])
          \/ srv = "payload" /\ toServer' = <<Request(op[c])>>
      BY <2>1, <2>3, Lists, Messages DEF SendPayload, SendPiece, CallGoes, Talk
    <3> QED
      BY <1>1, <2>1, <3>0, <3>1 DEF PipeInv, Incoming, Quiet
  <2> QED
    BY <1>3, <2>2, <2>3
<1> QED
  BY <1>2, <1>3

\* The conversation of the connected client after a step of its own, of a client
\* that connects, or of one that is not connected.
LEMMA ClientConversation ==
    ASSUME PipeInv, NEW c \in Clients, StartCall(c) \/ ClientStep(c) \/ CrashClient(c)
    PROVE  Conversation'
<1> USE ClientsAssumption DEF PipeInv, Typed, Connected, Conversation
<1>1. UNCHANGED <<srv, request, reply>> /\ (Quiet /\ toClient' = <<>> => Quiet')
  BY ClientsLeave DEF service, Quiet
<1>2. Connected'
  BY ClientConnected
<1>3. ASSUME peer # c, peer' = peer, UNCHANGED <<toServer, toClient>>,
             \A d \in Clients : d # c => call'[d] = call[d] /\ op'[d] = op[d]
      PROVE  Conversation'
  BY <1>1, <1>3 DEF Talk, Quiet
<1>4. CASE StartCall(c)
  <2>1. UNCHANGED <<toServer, toClient, peer>> /\ call[c] = "idle" /\ call'[c] = "connect"
        /\ \A d \in Clients : d # c => call'[d] = call[d] /\ op'[d] = op[d]
    BY <1>4 DEF StartCall, CallGoes, pipe
  <2>2. CASE peer = c
    <3>1. Quiet /\ toServer = <<>>
      BY <2>1, <2>2 DEF Talk
    <3>2. Quiet' /\ toServer' = <<>> /\ peer' = c
      BY <1>1, <2>1, <2>2, <3>1 DEF Quiet
    <3> QED
      BY <2>1, <3>2 DEF Talk
  <2> QED
    BY <1>3, <2>1, <2>2
<1>5. CASE Connect(c)
  <2>1. UNCHANGED <<toServer, toClient, op>> /\ call[c] = "connect"
        /\ \A d \in Clients : d # c => call'[d] = call[d]
    BY <1>5 DEF Connect, CallGoes
  <2>2. CASE link[c] # "closed"
    <3>1. peer' = peer /\ call'[c] = "header"
      BY <1>5, <2>2 DEF Connect, CallGoes
    <3>2. CASE peer = c
      <4>1. Quiet /\ toServer = <<>>
        BY <2>1, <3>2 DEF Talk
      <4>2. Quiet' /\ toServer' = <<>> /\ peer' = c
        BY <1>1, <2>1, <3>1, <3>2, <4>1 DEF Quiet
      <4> QED
        BY <3>1, <4>2 DEF Talk
    <3> QED
      BY <1>3, <2>1, <3>1, <3>2
  <2>3. CASE link[c] = "closed" /\ instance = "free"
    <3>1. peer' = c /\ call'[c] = "header" /\ srv = "listen" /\ toServer = <<>> /\ toClient = <<>> /\ reply = <<>>
      BY <1>5, <2>3 DEF Connect, CallGoes, Incoming
    <3> QED
      BY <1>1, <2>1, <3>1 DEF Talk, Quiet
  <2>4. CASE link[c] = "closed" /\ instance # "free"
    <3>1. peer' = peer /\ peer # c
      BY <1>5, <2>4 DEF Connect, CallGoes
    <3> QED
      BY <1>3, <2>1, <3>1
  <2> QED
    BY <2>2, <2>3, <2>4
<1>6. CASE FailToConnect(c) \/ PipeIsFree(c)
  <2>1. UNCHANGED <<toServer, toClient, peer>> /\ link[c] = "closed"
        /\ \A d \in Clients : d # c => call'[d] = call[d] /\ op'[d] = op[d]
    BY <1>6 DEF FailToConnect, PipeIsFree, Return, CallGoes, pipe
  <2> QED
    BY <1>3, <2>1
<1>7. CASE SendHeader(c)
  <2>1. peer = c /\ Quiet /\ toServer = <<>> /\ UNCHANGED <<toClient, peer>>
        /\ toServer' = <<Header(op'[c].cmd)>>
        /\ call'[c] = IF op'[c].cmd = "Shutdown" THEN "answer" ELSE "payload"
    BY <1>7, Lists DEF SendHeader, SendPiece, CallGoes, Talk
  <2> QED
    BY <1>1, <2>1, Messages DEF Talk, Quiet
<1>8. CASE SendPayload(c)
  <2>1. peer = c /\ op' = op /\ UNCHANGED <<toClient, peer>> /\ call'[c] = "answer"
        /\ \/ Quiet /\ toServer' = Message(op[c])
           \/ srv = "payload" /\ toServer' = <<Request(op[c])>> /\ toClient = <<>>
    BY <1>8, Lists, Messages DEF SendPayload, SendPiece, CallGoes, Talk
  <2> QED
    BY <1>1, <2>1 DEF Talk, Quiet
<1>9. CASE LoseLink(c) \/ CrashClient(c) \/ CloseAfterShutdown(c)
  <2>1. toServer' = toServer /\ \A d \in Clients : d # c => call'[d] = call[d] /\ op'[d] = op[d]
    BY <1>9 DEF LoseLink, CrashClient, CloseAfterShutdown, Return
  <2>2. CASE peer = c
    BY <1>9, <2>2 DEF LoseLink, CrashClient, CloseAfterShutdown, Close
  <2>3. CASE peer # c
    BY <1>3, <1>9, <2>1, <2>3 DEF LoseLink, CrashClient, CloseAfterShutdown, Close
  <2> QED
    BY <2>2, <2>3
<1>10. CASE ReadHeader(c)
  <2>1. peer = c /\ call[c] = "answer" /\ toClient # <<>> /\ Talk(c)
    BY <1>10 DEF ReadHeader
  <2>2. /\ srv = "write" /\ request.cmd = op[c].cmd /\ toServer = <<>>
        /\ toClient = <<Header(op[c].cmd)>> /\ \E b \in Body(op[c].cmd) : reply = <<b>>
    BY <2>1 DEF Talk, Quiet
  <2>3. toClient' = <<>> /\ call'[c] = "body" /\ UNCHANGED <<op, peer, toServer>>
    BY <1>10, <2>2, Lists, Pieces DEF ReadHeader, CallGoes
  <2> QED
    BY <1>1, <2>1, <2>2, <2>3 DEF Talk
<1>11. CASE ReadBody(c)
  <2>1. peer = c /\ call[c] = "body" /\ toClient # <<>> /\ Talk(c)
    BY <1>11 DEF ReadBody
  <2>2. PICK b \in Body(op[c].cmd) : /\ srv = "write" /\ request.cmd = op[c].cmd /\ toServer = <<>>
                                     /\ toClient = <<b>> /\ reply = <<>>
    BY <2>1 DEF Talk, Quiet
  <2>3. b.part = "torn" => op[c].cmd = "Fetch"
    BY Pieces
  <2>4. CASE b.part # "torn" /\ op[c].cmd = "Shutdown"
    <3>1. toClient' = <<>> /\ call'[c] = "closing" /\ UNCHANGED <<peer, toServer>>
      BY <1>11, <2>2, <2>4, Lists DEF ReadBody, CallGoes
    <3> QED
      BY <1>1, <2>1, <2>2, <2>4, <3>1 DEF Talk
  <2>5. CASE b.part = "torn"
    <3>1. toClient' = <<>> /\ UNCHANGED <<call, op, peer, toServer>>
      BY <1>11, <2>2, <2>5, Lists DEF ReadBody
    <3> QED
      BY <1>1, <2>1, <2>2, <2>3, <2>5, <3>1 DEF Talk, Quiet
  <2>6. CASE b.part # "torn" /\ op[c].cmd # "Shutdown"
    <3>1. toClient' = <<>> /\ call'[c] = "idle" /\ UNCHANGED <<peer, toServer>>
      BY <1>11, <2>2, <2>6, Lists DEF ReadBody, Return
    <3> QED
      BY <1>1, <2>1, <2>2, <2>6, <3>1 DEF Talk, Quiet
  <2> QED
    BY <2>4, <2>5, <2>6
<1> QED
  BY <1>4, <1>5, <1>6, <1>7, <1>8, <1>9, <1>10, <1>11 DEF ClientStep

LEMMA ClientKeeps ==
    ASSUME PipeInv, NEW c \in Clients, StartCall(c) \/ ClientStep(c) \/ CrashClient(c)
    PROVE  PipeInv'
<1>1. UNCHANGED <<engine, service>>
  BY ClientsLeave
<1>2. Noting'
  BY <1>1 DEF PipeInv, Noting, Held, engine, service
<1> QED
  BY <1>2, ClientTyped, ClientConnected, ClientIncoming, ClientConversation DEF PipeInv

-----------------------------------------------------------------------------
(* A step of the service or of the engine *)

\* Commands are served alike: the reply is under way, the pipe is left alone.
ServeSome == ServeInit \/ ServeShutdown \/ ServeSubmit \/ ServePoll \/ ServeFetch

LEMMA Served ==
    ASSUME PipeInv, ServeSome
    PROVE  /\ srv = "serve" /\ srv' = "write" /\ request \in Asked
           /\ UNCHANGED <<meta, pipe, client>>
           /\ \E i \in JobIds \cup {0} : request' = [request EXCEPT !.job = i]
           /\ \E b \in Body(request.cmd) : reply' = <<Header(request.cmd), b>>
<1>1. srv = "serve" /\ srv' = "write" /\ UNCHANGED <<meta, pipe, client>>
  BY DEF ServeSome, ServeInit, ServeShutdown, ServeSubmit, ServePoll, ServeFetch, Serve, ServiceGoes
<1>2. request \in Asked
  BY <1>1 DEF PipeInv, Incoming
<1>3. PICK cmd \in Commands, ok \in BOOLEAN, i \in JobIds \cup {0} :
           \E b \in Body(cmd) : Serve(cmd, ok, i, b)
  <2>0. /\ \A cmd : \A ok \in BOOLEAN : \A i \in JobIds \cup {0} : Answer(ok, i) \in Body(cmd)
        /\ Torn \in Body("Fetch") /\ Commands = {"Init", "Shutdown", "Submit", "Poll", "Fetch"}
    BY DEF Body, Commands
  <2>1. CASE ServeInit
    <3>1. Serve("Init", phase' = "open", 0, Answer(phase' = "open", 0))
      BY <2>1 DEF ServeInit
    <3> QED
      BY <2>0, <3>1
  <2>2. CASE ServeShutdown
    <3>1. Serve("Shutdown", TRUE, 0, Answer(TRUE, 0))
      BY <2>2 DEF ServeShutdown
    <3> QED
      BY <2>0, <3>1
  <2>3. CASE ServeSubmit
    <3>1. (\E i \in JobIds : Serve("Submit", TRUE, i, Answer(TRUE, i)))
          \/ Serve("Submit", FALSE, 0, Answer(FALSE, 0))
      BY <2>3 DEF ServeSubmit
    <3> QED
      BY <2>0, <3>1
  <2>4. CASE ServePoll
    <3>1. Serve("Poll", FALSE, 0, Answer(Held(request.job), 0)) /\ Held(request.job) \in BOOLEAN
      BY <2>4 DEF ServePoll, Held
    <3> QED
      BY <2>0, <3>1
  <2>5. CASE ServeFetch
    <3>1. request.cmd = "Fetch"
      BY <2>5 DEF ServeFetch, Serve
    <3>2. request.job \in JobIds
      BY <1>2, <3>1, AskedTypes
    <3>3. \/ \E body \in {Answer(TRUE, request.job), Torn} : Serve("Fetch", TRUE, request.job, body)
          \/ Serve("Fetch", FALSE, 0, Answer(FALSE, 0))
      BY <2>5 DEF ServeFetch
    <3> QED
      BY <2>0, <3>2, <3>3
  <2> QED
    BY <2>1, <2>2, <2>3, <2>4, <2>5 DEF ServeSome
<1> QED
  BY <1>1, <1>2, <1>3 DEF Serve

\* Nobody but a client changes its call, and the service only changes who is
\* connected when it hangs up.
LEMMA ClientsUntouched ==
    ASSUME PipeInv, ServiceStep \/ EngineStep
    PROVE  /\ UNCHANGED <<call, op>> /\ DOMAIN link' = Clients
           /\ Disconnect \/ (peer' = peer /\ \A c \in Clients : link'[c] = link[c])
<1>1. CASE ServeSome
  BY <1>1, Served DEF PipeInv, Typed, pipe, client
<1>2. CASE Disconnect
  BY <1>2 DEF Disconnect, PipeInv, Typed
<1>3. CASE ~ (ServeSome \/ Disconnect)
  BY <1>3 DEF ServiceStep, EngineStep, ServeSome, Create, WaitForClient, ReadCommand, ReadPayload, LoseClient,
     StopEngine, Write, EndCommand, CloseInstance, PipeInv, Typed, pipe, client
<1> QED
  BY <1>1, <1>2, <1>3

\* After Shutdown the service only hangs up when its client is gone, or is about
\* to close the pipe.
LEMMA AfterShutdown ==
    ASSUME PipeInv, EndCommand, peer # NoClient
    PROVE  request.cmd = "Shutdown" <=> call[peer] = "closing"
<1>1. Talk(peer) /\ srv = "write" /\ reply = <<>> /\ toClient = <<>>
  BY DEF PipeInv, Conversation, EndCommand, ServiceGoes
<1> QED
  BY <1>1, Lists DEF Talk, Quiet

LEMMA ServiceTyped ==
    ASSUME PipeInv, ServiceStep \/ EngineStep
    PROVE  Typed'
<1>1. DOMAIN stage' = JobIds
  BY DEF PipeInv, Typed, ServiceStep, EngineStep, Create, WaitForClient, ReadCommand, ReadPayload, LoseClient,
     StopEngine, ServeInit, ServeShutdown, ServeSubmit, ServePoll, ServeFetch, Write, EndCommand, Disconnect,
     CloseInstance, engine, JobIds, Lib!Open, Lib!BeginClose, Lib!Closed, Lib!Accept, Lib!Finish,
     Lib!Retrieve, Lib!Forget
<1>2. DOMAIN shape' = JobIds
  BY DEF PipeInv, Typed, ServiceStep, EngineStep, Create, WaitForClient, ReadCommand, ReadPayload, LoseClient,
     StopEngine, ServeInit, ServeShutdown, ServeSubmit, ServePoll, ServeFetch, Write, EndCommand, Disconnect,
     CloseInstance, engine
<1>3. DOMAIN meta' = JobIds /\ request' \in Requests
  <2>1. CASE ServeSome
    BY <2>1, Served, AskedTypes DEF PipeInv, Typed
  <2>2. CASE EndCommand
    BY <2>2, AskedTypes DEF EndCommand, Noted, PipeInv, Typed
  <2>3. CASE ReadCommand
    <3>1. Head(toServer).cmd \in Commands /\ Head(toServer).part = "header"
      BY <2>3, FirstPiece, AskedTypes DEF ReadCommand, ServiceGoes, PipeInv
    <3> QED
      BY <2>3, <3>1, AskedTypes DEF ReadCommand, PipeInv, Typed
  <2>4. CASE ReadPayload
    BY <2>4, FirstPiece, AskedTypes DEF ReadPayload, ServiceGoes, PipeInv, Typed
  <2>5. CASE ~ (ServeSome \/ EndCommand \/ ReadCommand \/ ReadPayload)
    BY <2>5 DEF PipeInv, Typed, ServiceStep, EngineStep, ServeSome, Create, WaitForClient, LoseClient,
       StopEngine, Write, Disconnect, CloseInstance, service
  <2> QED
    BY <2>1, <2>2, <2>3, <2>4, <2>5
<1> QED
  BY <1>1, <1>2, <1>3, ClientsUntouched DEF PipeInv, Typed

LEMMA ServiceConnected ==
    ASSUME PipeInv, ServiceStep \/ EngineStep
    PROVE  Connected'
<1> USE DEF PipeInv, Connected
<1>0. call' = call
  BY ClientsUntouched
<1>1. ~ Disconnect => UNCHANGED <<call, peer>> /\ \A c \in Clients : link'[c] = link[c]
  BY ClientsUntouched
<1>2. CASE ServeSome
  <2>1. ~ Disconnect
    BY <1>2, Served DEF Disconnect, ServiceGoes
  <2> QED
    BY <1>1, <1>2, <2>1, Served DEF pipe
<1>3. CASE EndCommand
  BY <1>1, <1>3 DEF EndCommand, Disconnect, ServiceGoes, pipe
<1>4. CASE Create
  BY <1>1, <1>4 DEF Create, Disconnect, ServiceGoes, Incoming
<1>5. CASE WaitForClient \/ ReadCommand \/ ReadPayload \/ LoseClient
  BY <1>1, <1>5 DEF WaitForClient, ReadCommand, ReadPayload, LoseClient, Disconnect, ServiceGoes, pipe
<1>6. CASE StopEngine \/ Write \/ EngineStep
  <2>1. peer' = peer /\ \A c \in Clients : link'[c] = link[c]
    BY <1>6 DEF StopEngine, EngineStep, Write, pipe, client
  <2> QED
    BY <1>0, <1>6, <2>1 DEF StopEngine, EngineStep, Write, service, pipe
<1>7. CASE Disconnect
  BY <1>0, <1>7, ClientsAssumption DEF Disconnect, ServiceGoes, Typed
<1>8. CASE CloseInstance
  BY <1>1, <1>8 DEF CloseInstance, Disconnect, ServiceGoes
<1> QED
  BY <1>2, <1>3, <1>4, <1>5, <1>6, <1>7, <1>8 DEF ServiceStep, ServeSome

LEMMA ServiceIncoming ==
    ASSUME PipeInv, ServiceStep \/ EngineStep
    PROVE  Incoming'
<1> USE DEF PipeInv, Incoming
<1>1. CASE ServeSome
  BY <1>1, Served DEF pipe
<1>2. CASE Create \/ WaitForClient \/ LoseClient
  BY <1>2 DEF Create, WaitForClient, LoseClient, ServiceGoes, pipe
<1>3. CASE ReadCommand
  <2>1. PICK o \in Asked :
           /\ Head(toServer) = Header(o.cmd) /\ Head(toServer).part = "header" /\ Head(toServer).cmd = o.cmd
           /\ Tail(toServer) = <<>> \/ (o.cmd # "Shutdown" /\ Tail(toServer) = <<Request(o)>>)
    BY <1>3, FirstPiece DEF ReadCommand, ServiceGoes
  <2>2. /\ srv = "read" /\ reply' = reply /\ toServer' = Tail(toServer)
        /\ srv' = IF o.cmd = "Shutdown" THEN "serve" ELSE "payload"
        /\ request' = [NoOp EXCEPT !.cmd = o.cmd]
    BY <1>3, <2>1 DEF ReadCommand, ServiceGoes
  <2>3. o.cmd = "Shutdown" => request' \in Asked
    BY <2>2, AskedTypes
  <2> QED
    BY <2>1, <2>2, <2>3
<1>4. CASE ReadPayload
  <2>1. PICK o \in Asked : Head(toServer).op = o /\ Tail(toServer) = <<>>
    BY <1>4, FirstPiece DEF ReadPayload, ServiceGoes
  <2> QED
    BY <1>4, <2>1 DEF ReadPayload, ServiceGoes
<1>5. CASE StopEngine \/ EngineStep
  BY <1>5 DEF StopEngine, EngineStep, service, pipe
<1>6. CASE Write \/ EndCommand
  BY <1>6 DEF Write, EndCommand, ServiceGoes, pipe
<1>7. CASE Disconnect \/ CloseInstance
  BY <1>7 DEF Disconnect, CloseInstance, ServiceGoes
<1> QED
  BY <1>1, <1>2, <1>3, <1>4, <1>5, <1>6, <1>7 DEF ServiceStep, ServeSome

\* The service takes its part of the conversation one piece further.
LEMMA ServiceConversation ==
    ASSUME PipeInv, ServiceStep \/ EngineStep
    PROVE  Conversation'
<1> SUFFICES ASSUME peer # NoClient, ~ Disconnect PROVE Talk(peer)'
  <2>1. CASE Disconnect
    BY <2>1 DEF Disconnect, Conversation
  <2>2. CASE ~ Disconnect
    BY <2>2, ClientsUntouched DEF Conversation
  <2> QED
    BY <2>1, <2>2
<1>1. Talk(peer) /\ UNCHANGED <<call, op, peer>> /\ peer \in Clients
  BY ClientsUntouched DEF PipeInv, Conversation, Connected
<1>2. srv \in {"listen", "read", "payload", "serve", "write", "disconnect"}
  BY DEF PipeInv, Connected
<1>3. CASE ServeSome
  <2>1. srv = "serve" /\ srv' = "write" /\ request'.cmd = request.cmd
        /\ UNCHANGED <<toServer, toClient>> /\ \E b \in Body(request.cmd) : reply' = <<Header(request.cmd), b>>
    BY <1>3, Served, AskedTypes DEF pipe, Requests
  <2>2. call[peer] = "answer" /\ request.cmd = op[peer].cmd /\ toServer = <<>> /\ toClient = <<>>
    BY <1>1, <2>1 DEF Talk, Quiet, PipeInv, Incoming
  <2> QED
    BY <1>1, <2>1, <2>2 DEF Talk
<1>4. CASE WaitForClient
  BY <1>1, <1>4 DEF WaitForClient, ServiceGoes, Talk, Quiet, pipe
<1>5. CASE ReadCommand
  <2>1. srv = "read" /\ toServer # <<>> /\ toClient' = toClient /\ toServer' = Tail(toServer)
    BY <1>5 DEF ReadCommand, ServiceGoes
  <2>2. call[peer] \in {"payload", "answer"} /\ toClient = <<>>
        /\ (call[peer] = "payload" => op[peer].cmd # "Shutdown" /\ toServer = <<Header(op[peer].cmd)>>)
        /\ (call[peer] = "answer" => toServer = Message(op[peer]))
    BY <1>1, <2>1 DEF Talk, Quiet
  <2>3. Head(toServer) = Header(op[peer].cmd)
    BY <2>2, Lists, Messages
  <2>4. Head(toServer).part = "header" /\ Head(toServer).cmd = op[peer].cmd
    BY <2>3, Pieces
  <2>5. /\ srv' = IF op[peer].cmd = "Shutdown" THEN "serve" ELSE "payload"
        /\ request' = [NoOp EXCEPT !.cmd = op[peer].cmd]
    BY <1>5, <2>4 DEF ReadCommand, ServiceGoes
  <2>6. request'.cmd = op[peer].cmd
    BY <2>5 DEF NoOp
  <2>7. CASE call[peer] = "payload"
    <3>1. toServer' = <<>>
      BY <2>1, <2>2, <2>7, Lists
    <3> QED
      BY <1>1, <2>1, <2>2, <2>5, <2>7, <3>1 DEF Talk
  <2>8. CASE call[peer] = "answer"
    <3>1. op[peer].cmd # "Shutdown" => toServer' = <<Request(op[peer])>>
      BY <2>1, <2>2, <2>8, Messages
    <3> QED
      BY <1>1, <2>1, <2>2, <2>5, <2>6, <2>8, <3>1 DEF Talk
  <2> QED
    BY <2>2, <2>7, <2>8
<1>6. CASE ReadPayload
  <2>1. srv = "payload" /\ toServer # <<>> /\ toClient' = toClient /\ srv' = "serve"
        /\ request' = Head(toServer).op
    BY <1>6 DEF ReadPayload, ServiceGoes
  <2>2. call[peer] = "answer" /\ toServer = <<Request(op[peer])>> /\ toClient = <<>>
    BY <1>1, <2>1 DEF Talk, Quiet
  <2>3. request' = op[peer]
    BY <2>1, <2>2, Lists, Pieces
  <2> QED
    BY <1>1, <2>1, <2>2, <2>3 DEF Talk
<1>7. CASE StopEngine \/ EngineStep
  BY <1>1, <1>7 DEF StopEngine, EngineStep, service, pipe, Talk, Quiet
<1>8. CASE Write
  <2>1. /\ srv = "write" /\ srv' = "write" /\ reply # <<>> /\ toClient = <<>> /\ toServer' = toServer
        /\ request' = request /\ toClient' = <<Head(reply)>> /\ reply' = Tail(reply)
    BY <1>8 DEF Write
  <2>2. PICK b \in Body(op[peer].cmd) :
           \/ call[peer] = "answer" /\ reply = <<Header(op[peer].cmd), b>>
           \/ call[peer] = "body" /\ reply = <<b>>
    BY <1>1, <2>1, Lists DEF Talk, Quiet
  <2>3. request.cmd = op[peer].cmd /\ toServer = <<>>
    BY <1>1, <2>1, <2>2 DEF Talk, Quiet
  <2>4. CASE call[peer] = "answer"
    <3>1. reply = <<Header(op[peer].cmd), b>>
      BY <2>2, <2>4
    <3>2. toClient' = <<Header(op[peer].cmd)>> /\ reply' = <<b>>
      BY <2>1, <3>1, Lists
    <3> QED
      BY <1>1, <2>1, <2>3, <2>4, <3>2 DEF Talk
  <2>5. CASE call[peer] = "body"
    <3>1. reply = <<b>>
      BY <2>2, <2>5
    <3>2. toClient' = <<b>> /\ reply' = <<>>
      BY <2>1, <3>1, Lists
    <3> QED
      BY <1>1, <2>1, <2>3, <2>5, <3>2 DEF Talk
  <2> QED
    BY <2>2, <2>4, <2>5
<1>9. CASE EndCommand
  <2>1. /\ srv = "write" /\ reply = <<>> /\ toClient = <<>> /\ UNCHANGED <<reply, toClient, toServer>>
        /\ srv' = IF call[peer] = "closing" THEN "disconnect" ELSE "read"
    BY <1>9, AfterShutdown DEF EndCommand, ServiceGoes, pipe
  <2>2. CASE call[peer] = "closing"
    BY <1>1, <2>1, <2>2 DEF Talk
  <2>3. CASE call[peer] # "closing"
    <3>1. Quiet /\ Quiet'
      BY <1>1, <2>1, <2>3, Lists DEF Talk, Quiet
    <3> QED
      BY <1>1, <2>1, <2>3, <3>1 DEF Talk
  <2> QED
    BY <2>2, <2>3
<1> QED
  BY <1>2, <1>3, <1>4, <1>5, <1>6, <1>7, <1>8, <1>9
  DEF ServiceStep, ServeSome, Create, LoseClient, Disconnect, CloseInstance, ServiceGoes

\* The sizes follow the engine's records through every command.
LEMMA ServiceNoting ==
    ASSUME PipeInv, ServiceStep \/ EngineStep
    PROVE  Noting'
<1> USE DEF PipeInv, Typed, Noting, Held
<1>1. CASE ServeInit \/ ServeShutdown \/ ServePoll
  <2>1. srv = "serve" /\ srv' = "write" /\ request'.cmd \in {"Init", "Shutdown", "Poll"} /\ meta' = meta
    BY <1>1 DEF ServeInit, ServeShutdown, ServePoll, Serve, ServiceGoes, Requests
  <2>2. UNCHANGED <<stage, shape>> \/ \A i \in JobIds : stage'[i] = "unknown"
    BY <1>1 DEF ServeInit, ServeShutdown, ServePoll, JobIds, Lib!Forget, Lib!Open
  <2> QED
    BY <2>1, <2>2
<1>2. CASE ServeSubmit
  <2>1. /\ srv = "serve" /\ srv' = "write" /\ request.cmd = "Submit" /\ meta' = meta
        /\ request'.cmd = "Submit" /\ request'.shape = request.shape
    BY <1>2 DEF ServeSubmit, Serve, ServiceGoes, Requests
  <2>2. CASE \E i \in JobIds : Lib!Accept(i) /\ shape' = [shape EXCEPT ![i] = request.shape]
                               /\ Serve("Submit", TRUE, i, Answer(TRUE, i))
    <3>1. PICK i \in JobIds : Lib!Accept(i) /\ shape' = [shape EXCEPT ![i] = request.shape]
                              /\ Serve("Submit", TRUE, i, Answer(TRUE, i))
      BY <2>2
    <3>2. request'.job = i
      BY <3>1 DEF Serve, Requests
    <3>3. \A j \in JobIds : j # i => stage'[j] = stage[j] /\ shape'[j] = shape[j]
      BY <3>1 DEF Lib!Accept
    <3>4. shape'[i] = request.shape
      BY <3>1
    <3> QED
      BY <2>1, <3>2, <3>3, <3>4
  <2>3. CASE Lib!Forget /\ Serve("Submit", FALSE, 0, Answer(FALSE, 0)) /\ shape' = shape
    <3>1. request'.job = 0 /\ UNCHANGED <<stage, shape>>
      BY <2>3 DEF Serve, Requests, Lib!Forget
    <3> QED
      BY <2>1, <3>1 DEF JobIds, Lib!JobIds
  <2> QED
    BY <1>2, <2>2, <2>3 DEF ServeSubmit
<1>3. CASE ServeFetch
  <2>1. srv = "serve" /\ srv' = "write" /\ request'.cmd = "Fetch" /\ meta' = meta
    BY <1>3 DEF ServeFetch, Serve, ServiceGoes, Requests
  <2>2. \/ /\ stage' = [stage EXCEPT ![request.job] = "retrieved"]
           /\ shape' = [shape EXCEPT ![request.job] = "none"]
           /\ request'.job = request.job
        \/ UNCHANGED <<stage, shape>> /\ request'.job = 0
    BY <1>3 DEF ServeFetch, Serve, Requests, Lib!Retrieve, Lib!Forget
  <2>3. request'.job # 0 => request'.job \in JobIds
    <3>1. request \in Asked /\ request.cmd = "Fetch"
      BY <1>3, Served DEF ServeSome, ServeFetch, Serve
    <3> QED
      BY <2>2, <3>1, AskedTypes
  <2> QED
    BY <2>1, <2>2, <2>3
<1>4. CASE EndCommand
  <2>1. /\ srv = "write" /\ srv' # "write" /\ UNCHANGED <<stage, shape>> /\ meta' = Noted
    BY <1>4 DEF EndCommand, ServiceGoes, engine
  <2>2. \A i \in JobIds : Held(i) => meta'[i] = shape[i]
    <3> SUFFICES ASSUME NEW i \in JobIds, Held(i) PROVE meta'[i] = shape[i]
      OBVIOUS
    <3>1. CASE request.cmd = "Submit" /\ request.job = i
      BY <2>1, <3>1 DEF Noted, JobIds, Lib!JobIds
    <3>2. CASE request.cmd = "Fetch" /\ request.job # 0
      <4>1. i # request.job /\ shape[i] = meta[i]
        BY <2>1, <3>2
      <4>2. meta' = [meta EXCEPT ![request.job] = "none"]
        BY <2>1, <3>2 DEF Noted
      <4> QED
        BY <4>1, <4>2
    <3>3. CASE ~ (request.cmd = "Submit" /\ request.job = i) /\ ~ (request.cmd = "Fetch" /\ request.job # 0)
      <4>1. shape[i] = meta[i]
        BY <2>1, <3>3
      <4>2. meta' = meta \/ meta' = [meta EXCEPT ![request.job] = request.shape]
        BY <2>1, <3>3 DEF Noted
      <4>3. request.cmd # "Submit" => meta' = meta
        BY <2>1, <3>3 DEF Noted
      <4> QED
        BY <3>3, <4>1, <4>2, <4>3
    <3> QED
      BY <3>1, <3>2, <3>3
  <2> QED
    BY <2>1, <2>2
<1>5. CASE StopEngine \/ EngineStep
  <2>1. UNCHANGED <<shape, srv, request, meta>>
        /\ \A i \in JobIds : /\ stage'[i] \in {"unknown", "retrieved"} => stage'[i] = stage[i]
                             /\ stage[i] \in {"unknown", "retrieved"} => stage'[i] = stage[i]
    BY <1>5 DEF StopEngine, EngineStep, service, Lib!BeginClose, Lib!Closed, Lib!Finish
  <2>2. srv = "write" /\ request.cmd = "Fetch" /\ request.job # 0 => request.job \in JobIds
    BY DEF Requests
  <2> QED
    BY <2>1, <2>2
<1>6. CASE ~ (ServeSome \/ EndCommand \/ StopEngine \/ EngineStep)
  <2>1. UNCHANGED <<stage, shape, meta>>
    BY <1>6 DEF ServiceStep, ServeSome, Create, WaitForClient, ReadCommand, ReadPayload, LoseClient, Write,
       Disconnect, CloseInstance, engine, service
  <2>2. \/ srv # "write" /\ srv' # "write"
        \/ srv' = srv /\ request' = request
        \/ srv # "write" /\ request'.cmd = "Shutdown"
    BY <1>6 DEF ServiceStep, ServeSome, Create, WaitForClient, ReadCommand, ReadPayload, LoseClient, Write,
       Disconnect, CloseInstance, ServiceGoes, NoOp
  <2> QED
    BY <2>1, <2>2
<1> QED
  BY <1>1, <1>2, <1>3, <1>4, <1>5, <1>6 DEF ServeSome

LEMMA ServiceKeeps ==
    ASSUME PipeInv, ServiceStep \/ EngineStep
    PROVE  PipeInv'
  BY ServiceTyped, ServiceConnected, ServiceIncoming, ServiceConversation, ServiceNoting DEF PipeInv

\* A crash takes everything the service knew, and both ends of the pipe.
LEMMA CrashKeeps ==
    ASSUME PipeInv, CrashService
    PROVE  PipeInv'
<1>1. Typed'
  BY AskedTypes DEF PipeInv, Typed, CrashService
<1>2. Connected'
  BY ClientsAssumption DEF PipeInv, Typed, Connected, CrashService
<1>3. Incoming' /\ Conversation' /\ Noting'
  BY DEF Incoming, Conversation, Noting, Held, CrashService
<1> QED
  BY <1>1, <1>2, <1>3 DEF PipeInv

LEMMA StutterKeeps ==
    ASSUME PipeInv, UNCHANGED vars
    PROVE  PipeInv'
  BY DEF PipeInv, Typed, Connected, Incoming, Conversation, Talk, Quiet, Noting, Held,
     vars, engine, service, pipe, client

-----------------------------------------------------------------------------
\* The client, the pipe and the service always agree how far they are with
\* the call of the connected client.
THEOREM ConversationHolds == Spec => []PipeInv
<1>1. PipeInv /\ [Next]_vars => PipeInv'
  BY ClientKeeps, ServiceKeeps, CrashKeeps, StutterKeeps DEF Next
<1> QED
  BY PipeInit, <1>1, PTL DEF Spec

\* A call leaves nothing of its own in the pipe (ReadMessage, WriteExact).
THEOREM PipeInSync == Spec => []StreamInSync
<1>1. PipeInv => StreamInSync
  BY ClientsAssumption DEF PipeInv, Connected, Conversation, Talk, Quiet, StreamInSync
<1> QED
  BY <1>1, ConversationHolds, PTL

\* The sizes noted in m_jobs are those of the engine's records whenever the
\* service takes a command.
THEOREM NotedSizesFit == Spec => []MetadataFits
<1>1. PipeInv => MetadataFits
  BY DEF PipeInv, Noting, MetadataFits
<1> QED
  BY <1>1, ConversationHolds, PTL

\* The service hangs up only on a client that has read its whole answer to
\* Shutdown and has still to close the pipe (ProcessClient, WriteExact).
THEOREM NoAnswerCutOff == Spec => []AnswersAreRead
<1>1. PipeInv => AnswersAreRead
  BY DEF PipeInv, Connected, Conversation, Talk, Quiet, AnswersAreRead
<1> QED
  BY <1>1, ConversationHolds, PTL
=============================================================================
