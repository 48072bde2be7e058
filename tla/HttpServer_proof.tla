-------------------------- MODULE HttpServer_proof --------------------------
(***************************************************************************)
(* What HttpServer guarantees for any number of clients, entries of        *)
(* clientSockets, descriptors and files.                                   *)
(***************************************************************************)
EXTENDS HttpServer, SequenceTheorems, TLAPS

(***************************************************************************)
(* The inductive invariant.  TablesAgree and AnswerFitsRequest are not     *)
(* inductive alone: that accept() keeps a connection in one descriptor     *)
(* needs the accept queue, that nobody is answered twice needs to know     *)
(* that who is connected has received nothing before its turn.             *)
(***************************************************************************)
Serving == pc \in {"reply", "body", "close"}

(* What select() found ready stays ready until the loop comes to it. *)
SnapshotFresh ==
    /\ pc = "accept" =>
         /\ i = 0
         /\ backlog # <<>>
         /\ allFds \subseteq readFds
         /\ \A fd \in allFds : Readable(fd)
    /\ pc = "scan" =>
         \A s \in Slots :
           s >= i /\ clientSockets[s] \in allFds => Readable(clientSockets[s])
    /\ Serving =>
         /\ i \in Slots
         /\ clientSockets[i] # 0
         /\ \A s \in Slots :
              s > i /\ clientSockets[s] \in allFds => Readable(clientSockets[s])

(* A connection is in the accept queue once, or in the descriptor table. *)
QueueOK ==
    /\ \A k \in 1 .. Len(backlog) :
         /\ link[backlog[k]] # "idle"
         /\ \A fd \in Fds : peer[fd] # backlog[k]
    /\ \A k, n \in 1 .. Len(backlog) : backlog[k] = backlog[n] => k = n
    /\ \A fd \in Fds : peer[fd] # NoClient => link[peer[fd]] # "idle"

RequestsOK ==
    \A c \in Clients :
        /\ pending[c] \subseteq sent[c]
        /\ link[c] = "idle" => rx[c] = <<>>
        /\ link[c] # "idle" => wants[c] \in Lines
        /\ (\E k \in 1 .. Len(backlog) : backlog[k] = c) => rx[c] = <<>>

(* Who is connected has received nothing, but for the client being served. *)
NotYetAnswered ==
    \A fd \in Fds :
        peer[fd] # NoClient => \/ rx[peer[fd]] = <<>>
                               \/ pc \in {"body", "close"} /\ fd = sd
                               \/ Stopped

ServedOK ==
    /\ Serving =>
         /\ sent[Served] = Parts
         /\ wants[Served] = buffer.name
         /\ buffer.name \in Lines \ {Malformed}
    /\ pc = "body" =>
         /\ Target(buffer.name) \in Present \cup Unreadable
         /\ link[Served] = "gone" \/ rx[Served] = <<"200">>
    /\ pc = "close" => link[Served] = "gone" \/ rx[Served] \in Answers(Served)

IInv ==
    /\ TypeOK
    /\ TablesAgree
    /\ SnapshotFresh
    /\ QueueOK
    /\ RequestsOK
    /\ NotYetAnswered
    /\ ServedOK
    /\ AnswerFitsRequest

LEMMA AppendSecond ==
    ASSUME NEW S, NEW x \in S, NEW y \in S
    PROVE  Append(<<x>>, y) = <<x, y>>
  <1>1. Append(<<x>>, y) \in Seq(S) /\ <<x, y>> \in Seq(S)
    OBVIOUS
  <1>2. /\ Len(Append(<<x>>, y)) = 2 /\ Len(<<x, y>>) = 2
        /\ Append(<<x>>, y)[1] = x /\ <<x, y>>[1] = x
        /\ Append(<<x>>, y)[2] = y /\ <<x, y>>[2] = y
    OBVIOUS
  <1>3. \A k \in 1 .. Len(Append(<<x>>, y)) : Append(<<x>>, y)[k] = <<x, y>>[k]
    BY <1>2
  <1> QED  BY <1>1, <1>2, <1>3, SeqEqual

(* The connection being served has a client and an open descriptor. *)
LEMMA ServedConnected ==
    ASSUME ServerAssumption, IInv, Serving
    PROVE  /\ sd \in Fds /\ Served \in Clients
           /\ Served = peer[sd] /\ peer[sd] # NoClient
           /\ link[Served] # "idle"
  BY DEF IInv, TypeOK, TablesAgree, SnapshotFresh, QueueOK, sd, Served,
         serverSocket, Fds, Slots

(* Every entry of clientSockets that is in use is an open descriptor. *)
LEMMA EntriesOpen ==
    ASSUME ServerAssumption, IInv, NEW s \in Slots, clientSockets[s] # 0
    PROVE  /\ clientSockets[s] \in Fds
           /\ peer[clientSockets[s]] \in Clients
           /\ peer[clientSockets[s]] # NoClient
           /\ link[peer[clientSockets[s]]] # "idle"
  BY DEF IInv, TypeOK, TablesAgree, QueueOK, serverSocket, Fds

(* A step of a client leaves the snapshot fresh if nothing that was readable
   ceases to be. *)
LEMMA SnapshotKept ==
    ASSUME ServerAssumption, IInv, UNCHANGED <<serverVars, peer>>,
           backlog # <<>> => backlog' # <<>>,
           \A fd \in Fds : peer[fd] # NoClient /\ Readable(fd) => Readable(fd)'
    PROVE  SnapshotFresh'
  <1> USE DEF serverVars
  <1>1. allFds \subseteq Fds \cup {serverSocket} /\ 0 \notin allFds
    BY ServerAssumption DEF IInv, TypeOK, Fds, serverSocket
  <1>2. (Readable(serverSocket) <=> backlog # <<>>)
        /\ (Readable(serverSocket)' <=> backlog' # <<>>)
    BY DEF Readable
  <1>3. pc = "accept" => \A fd \in allFds : Readable(fd)'
    BY <1>1, <1>2 DEF IInv, TablesAgree, SnapshotFresh
  <1>4. \A s \in Slots :
          clientSockets[s] \in allFds /\ Readable(clientSockets[s])
            => Readable(clientSockets[s])'
    BY <1>1, EntriesOpen
  <1> QED  BY <1>3, <1>4 DEF IInv, SnapshotFresh, Serving

LEMMA ConnectStep ==
    ASSUME NEW c \in Clients, IInv, Connect(c), ~ Stopped
    PROVE  IInv'
  <1> USE ServerAssumption DEF IInv, vars, serverVars, clientVars
  <1>1. TypeOK'
    BY DEF Connect, TypeOK, Fds, Slots, Parts, serverSocket, Running
  <1>2. TablesAgree'
    BY DEF Connect, TypeOK, TablesAgree
  <1>3. SnapshotFresh'
    <2>1. backlog' # <<>>
      BY DEF Connect, TypeOK
    <2>2. \A fd \in Fds : peer[fd] # NoClient => peer[fd] # c /\ peer[fd] \in Clients
      BY DEF Connect, QueueOK, TypeOK
    <2>3. \A fd \in Fds : peer[fd] # NoClient /\ Readable(fd) => Readable(fd)'
      BY <2>2 DEF Connect, TypeOK, Readable, Fds, serverSocket
    <2> QED  BY <2>1, <2>3, SnapshotKept DEF Connect
  <1>4. QueueOK'
    BY SMTT(20) DEF Connect, TypeOK, QueueOK
  <1>5. RequestsOK'
    BY DEF Connect, TypeOK, RequestsOK
  <1>6. NotYetAnswered'
    BY DEF Connect, TypeOK, NotYetAnswered, sd, Stopped, Running
  <1>7. ServedOK'
    <2>1. Serving => Served # c /\ Served \in Clients
      BY ServedConnected DEF Connect
    <2>2. Serving => wants'[Served] = wants[Served] /\ link'[Served] = link[Served]
      BY <2>1 DEF Connect, TypeOK
    <2> QED  BY <2>2 DEF Connect, ServedOK, Served, sd, Serving, Answers, Target
  <1>8. AnswerFitsRequest'
    <2>1. ASSUME NEW d \in Clients, rx[d] # <<>>
          PROVE  d # c /\ wants'[d] = wants[d]
      BY <2>1 DEF Connect, RequestsOK, TypeOK
    <2> QED  BY <2>1 DEF Connect, AnswerFitsRequest, Started, Answers
  <1> QED  BY <1>1, <1>2, <1>3, <1>4, <1>5, <1>6, <1>7, <1>8

LEMMA SendStep ==
    ASSUME NEW c \in Clients, IInv, Send(c), ~ Stopped
    PROVE  IInv'
  <1> USE ServerAssumption DEF IInv, vars, serverVars, clientVars
  <1>1. TypeOK'
    BY DEF Send, TypeOK, Fds, Slots, Parts, serverSocket, Running
  <1>2. TablesAgree'
    BY DEF Send, TypeOK, TablesAgree
  <1>3. SnapshotFresh'
    BY SMTT(20) DEF Send, TypeOK, SnapshotFresh, Readable, Serving, Slots, Fds, serverSocket
  <1>4. QueueOK'
    BY DEF Send, TypeOK, QueueOK
  <1>5. RequestsOK'
    BY DEF Send, TypeOK, RequestsOK
  <1>6. NotYetAnswered'
    BY DEF Send, TypeOK, NotYetAnswered, sd, Stopped, Running
  <1>7. ServedOK'
    <2>1. Serving => Served \in Clients
      BY ServedConnected
    <2>2. Serving => sent'[Served] = Parts
      BY <2>1 DEF Send, ServedOK, TypeOK, Parts
    <2> QED  BY <2>2 DEF Send, ServedOK, Served, sd, Serving, Answers, Target
  <1>8. AnswerFitsRequest'
    <2>1. \A d \in Clients : sent[d] = Parts => sent'[d] = Parts
      BY DEF Send, TypeOK, Parts
    <2> QED  BY <2>1 DEF Send, AnswerFitsRequest, Started, Answers
  <1> QED  BY <1>1, <1>2, <1>3, <1>4, <1>5, <1>6, <1>7, <1>8

LEMMA ShutdownStep ==
    ASSUME NEW c \in Clients, IInv, Shutdown(c), ~ Stopped
    PROVE  IInv'
  <1> USE ServerAssumption DEF IInv, vars, serverVars, clientVars
  <1>1. TypeOK'
    BY DEF Shutdown, TypeOK, Fds, Slots, Parts, serverSocket, Running
  <1>2. TablesAgree'
    BY DEF Shutdown, TypeOK, TablesAgree
  <1>3. SnapshotFresh'
    BY SMTT(20) DEF Shutdown, TypeOK, SnapshotFresh, Readable, Serving, Slots, Fds, serverSocket
  <1>4. QueueOK'
    BY DEF Shutdown, TypeOK, QueueOK
  <1>5. RequestsOK'
    BY DEF Shutdown, TypeOK, RequestsOK
  <1>6. NotYetAnswered'
    BY DEF Shutdown, TypeOK, NotYetAnswered, sd, Stopped, Running
  <1>7. ServedOK'
    BY DEF Shutdown, TypeOK, ServedOK, Served, sd, Serving, Answers, Target
  <1>8. AnswerFitsRequest'
    BY DEF Shutdown, TypeOK, AnswerFitsRequest, Started, Answers
  <1> QED  BY <1>1, <1>2, <1>3, <1>4, <1>5, <1>6, <1>7, <1>8

LEMMA LeaveStep ==
    ASSUME NEW c \in Clients, IInv, Leave(c), ~ Stopped
    PROVE  IInv'
  <1> USE ServerAssumption DEF IInv, vars, serverVars, clientVars
  <1>1. TypeOK'
    BY ZenonT(30) DEF Leave, TypeOK, Fds, Slots, Parts, serverSocket, Running
  <1>2. TablesAgree'
    BY DEF Leave, TypeOK, TablesAgree
  <1>3. SnapshotFresh'
    <2>1. \A fd \in Fds : peer[fd] # NoClient /\ Readable(fd) => Readable(fd)'
      BY DEF Leave, TypeOK, Readable, Fds, serverSocket
    <2> QED  BY <2>1, SnapshotKept DEF Leave
  <1>4. QueueOK'
    BY DEF Leave, TypeOK, QueueOK
  <1>5. RequestsOK'
    BY DEF Leave, TypeOK, RequestsOK
  <1>6. NotYetAnswered'
    BY DEF Leave, TypeOK, NotYetAnswered, sd, Stopped, Running
  <1>7. ServedOK'
    BY DEF Leave, TypeOK, ServedOK, Served, sd, Serving, Answers, Target
  <1>8. AnswerFitsRequest'
    BY DEF Leave, TypeOK, AnswerFitsRequest, Started, Answers
  <1> QED  BY <1>1, <1>2, <1>3, <1>4, <1>5, <1>6, <1>7, <1>8

LEMMA SelectStep ==
    ASSUME IInv, Select
    PROVE  IInv'
  <1> USE ServerAssumption DEF IInv, vars, serverVars, clientVars
  <1>1. TypeOK'
    <2>1. allFds' \subseteq readFds
      BY DEF Select
    <2>2. pc' \in {"exited", "accept", "scan"}
      BY DEF Select
    <2>3. i' \in 0 .. MAX_CLIENTS
      BY DEF Select
    <2> QED  BY <2>1, <2>2, <2>3 DEF Select, TypeOK, Running
  <1>2. TablesAgree'
    BY DEF Select, TypeOK, TablesAgree
  <1>3. SnapshotFresh'
    BY DEF Select, TypeOK, SnapshotFresh, Readable, Serving, Slots, Fds, serverSocket
  <1>4. QueueOK'
    BY DEF Select, TypeOK, QueueOK
  <1>5. RequestsOK'
    BY DEF Select, TypeOK, RequestsOK
  <1>6. NotYetAnswered'
    BY DEF Select, TypeOK, NotYetAnswered, sd, Stopped, Running
  <1>7. ServedOK'
    BY DEF Select, TypeOK, ServedOK, Served, sd, Serving, Answers, Target
  <1>8. AnswerFitsRequest'
    BY DEF Select, TypeOK, AnswerFitsRequest, Started, Answers
  <1> QED  BY <1>1, <1>2, <1>3, <1>4, <1>5, <1>6, <1>7, <1>8

LEMMA AcceptStep ==
    ASSUME ServerAssumption, IInv, Accept
    PROVE  IInv'
  <1> USE ServerAssumption DEF IInv, vars, serverVars, clientVars
  <1>1. PICK fd \in Fds :
          /\ peer[fd] = NoClient
          /\ peer' = [peer EXCEPT ![fd] = Head(backlog)]
          /\ Enlist(fd)
          /\ readFds' = readFds \cup {fd}
          /\ maxFd' = RaiseMaxFd(fd)
    BY DEF Accept, FreeFds
  <1>2. fd \notin readFds /\ fd # 0 /\ fd # serverSocket
    BY <1>1 DEF TablesAgree, Fds, serverSocket
  <1>3. /\ Head(backlog) = backlog[1] /\ backlog[1] \in Clients
        /\ 1 \in 1 .. Len(backlog)
        /\ Len(backlog') = Len(backlog) - 1
        /\ backlog' \in Seq(Clients)
        /\ \A k \in 1 .. Len(backlog') :
             backlog'[k] = backlog[k + 1] /\ k + 1 \in 1 .. Len(backlog)
    BY DEF Accept, TypeOK
  <1>4. /\ clientSockets' \in [Slots -> Fds \cup {0}]
        /\ \A s \in Slots :
             \/ clientSockets'[s] = clientSockets[s]
             \/ clientSockets[s] = 0 /\ clientSockets'[s] = fd
        /\ \A s, t \in Slots :
             clientSockets'[s] = fd /\ clientSockets'[t] = fd => s = t
    <2>1. \A s \in Slots : clientSockets[s] # fd
      BY <1>2, EntriesOpen DEF TablesAgree
    <2>2. CASE UNCHANGED clientSockets
      BY <2>1, <2>2 DEF TypeOK
    <2>3. ASSUME NEW s \in Slots, clientSockets[s] = 0,
                 clientSockets' = [clientSockets EXCEPT ![s] = fd]
          PROVE  <1>4
      BY <2>1, <2>3 DEF TypeOK
    <2> QED  BY <1>1, <2>2, <2>3 DEF Enlist
  <1>5. /\ peer'[fd] = backlog[1]
        /\ \A g \in Fds \ {fd} : peer'[g] = peer[g] /\ peer[g] # backlog[1]
    BY <1>1, <1>3 DEF TypeOK, QueueOK
  <1>6. TypeOK'
    BY <1>1, <1>3, <1>4 DEF Accept, RaiseMaxFd, TypeOK, Running
  <1>7. TablesAgree'
    <2>1. pc' # "exited"
      BY DEF Accept
    <2>2. readFds' = {serverSocket} \cup {g \in Fds : peer'[g] # NoClient}
      BY <1>1, <1>3, <1>5 DEF TablesAgree
    <2>3. \A g \in readFds' : g <= maxFd'
      BY <1>1 DEF TablesAgree, RaiseMaxFd, TypeOK, Fds, serverSocket
    <2>4. \A s \in Slots : clientSockets'[s] # 0 => clientSockets'[s] \in readFds'
      BY <1>1, <1>4 DEF TablesAgree
    <2>5. \A s, t \in Slots :
            clientSockets'[s] = clientSockets'[t] /\ s # t => clientSockets'[s] = 0
      BY <1>2, <1>4 DEF TablesAgree
    <2>6. \A g, h \in Fds : peer'[g] = peer'[h] /\ g # h => peer'[g] = NoClient
      BY <1>5 DEF TablesAgree
    <2> QED  BY <2>1, <2>2, <2>3, <2>4, <2>5, <2>6 DEF TablesAgree
  <1>8. SnapshotFresh'
    <2>1. ASSUME NEW s \in Slots, clientSockets'[s] \in allFds
          PROVE  Readable(clientSockets[s])' /\ clientSockets'[s] = clientSockets[s]
      <3>1. clientSockets[s] = clientSockets'[s] /\ clientSockets[s] # fd
        BY <2>1, <1>2, <1>4 DEF Accept, SnapshotFresh
      <3>2. clientSockets[s] \in Fds
        BY <2>1, <3>1, EntriesOpen DEF TypeOK, Fds, serverSocket
      <3>3. Readable(clientSockets[s])
        BY <2>1, <3>1 DEF Accept, SnapshotFresh
      <3> QED  BY <3>1, <3>2, <3>3, <1>5 DEF Accept, Readable, Fds, serverSocket
    <2> QED  BY <2>1 DEF Accept, SnapshotFresh, Serving
  <1>9. QueueOK'
    BY <1>3, <1>5 DEF Accept, QueueOK
  <1>10. RequestsOK'
    BY <1>3 DEF Accept, RequestsOK
  <1>11. NotYetAnswered'
    <2>1. rx[backlog[1]] = <<>>
      BY <1>3 DEF RequestsOK
    <2> QED  BY <2>1, <1>5 DEF Accept, NotYetAnswered, Stopped, Running
  <1>12. ServedOK' /\ AnswerFitsRequest'
    BY DEF Accept, ServedOK, Serving, AnswerFitsRequest, Started, Answers
  <1> QED  BY <1>6, <1>7, <1>8, <1>9, <1>10, <1>11, <1>12

LEMMA AcceptFailsStep ==
    ASSUME IInv, AcceptFails
    PROVE  IInv'
  <1> USE ServerAssumption DEF IInv, vars, serverVars, clientVars
  <1>1. TypeOK'
    BY DEF AcceptFails, FreeFds, TypeOK, Fds, Slots, Parts, serverSocket, Running
  <1>2. TablesAgree'
    BY DEF AcceptFails, FreeFds, TypeOK, TablesAgree
  <1>3. SnapshotFresh'
    BY DEF AcceptFails, FreeFds, TypeOK, SnapshotFresh, Readable, Serving, Slots, Fds, serverSocket
  <1>4. QueueOK'
    BY DEF AcceptFails, FreeFds, TypeOK, QueueOK
  <1>5. RequestsOK'
    BY DEF AcceptFails, FreeFds, TypeOK, RequestsOK
  <1>6. NotYetAnswered'
    BY DEF AcceptFails, FreeFds, TypeOK, NotYetAnswered, sd, Stopped, Running
  <1>7. ServedOK'
    BY DEF AcceptFails, FreeFds, TypeOK, ServedOK, Served, sd, Serving, Answers, Target
  <1>8. AnswerFitsRequest'
    BY DEF AcceptFails, FreeFds, TypeOK, AnswerFitsRequest, Started, Answers
  <1> QED  BY <1>1, <1>2, <1>3, <1>4, <1>5, <1>6, <1>7, <1>8

LEMMA EndScanStep ==
    ASSUME IInv, EndScan
    PROVE  IInv'
  <1> USE ServerAssumption DEF IInv, vars, serverVars, clientVars
  <1>1. TypeOK'
    BY DEF EndScan, Due, TypeOK, Fds, Slots, Parts, serverSocket, Running
  <1>2. TablesAgree'
    BY DEF EndScan, Due, TypeOK, TablesAgree
  <1>3. SnapshotFresh'
    BY DEF EndScan, Due, TypeOK, SnapshotFresh, Readable, Serving, Slots, Fds, serverSocket
  <1>4. QueueOK'
    BY DEF EndScan, Due, TypeOK, QueueOK
  <1>5. RequestsOK'
    BY DEF EndScan, Due, TypeOK, RequestsOK
  <1>6. NotYetAnswered'
    BY DEF EndScan, Due, TypeOK, NotYetAnswered, sd, Stopped, Running
  <1>7. ServedOK'
    BY DEF EndScan, Due, TypeOK, ServedOK, Served, sd, Serving, Answers, Target
  <1>8. AnswerFitsRequest'
    BY DEF EndScan, Due, TypeOK, AnswerFitsRequest, Started, Answers
  <1> QED  BY <1>1, <1>2, <1>3, <1>4, <1>5, <1>6, <1>7, <1>8

LEMMA ReadRequestStep ==
    ASSUME ServerAssumption, IInv, ReadRequest
    PROVE  IInv'
  <1> USE ServerAssumption DEF IInv, vars, serverVars, clientVars
  <1> DEFINE d(s) == peer[clientSockets[s]]
  <1>1. PICK s \in Slots :
          /\ s >= i
          /\ clientSockets[s] \in allFds
          /\ Readable(clientSockets[s])
          /\ buffer' = Received(d(s))
          /\ pending' = [pending EXCEPT ![d(s)] = {}]
          /\ pc' = Verdict(buffer')
          /\ i' = IF pc' = "scan" THEN s + 1 ELSE s
    <2>1. Due \subseteq {s \in Slots : s >= i /\ clientSockets[s] \in allFds}
      BY DEF Due, TypeOK, Slots
    <2> QED  BY <2>1 DEF ReadRequest
  <1>2. clientSockets[s] # 0
    BY <1>1 DEF TypeOK, Fds, serverSocket
  <1>3. clientSockets[s] \in Fds /\ d(s) \in Clients /\ d(s) # NoClient
        /\ link[d(s)] # "idle"
    BY <1>2, EntriesOpen
  <1>4. pc' \in {"scan", "reply"} /\ (pc' = "reply" => Parses(buffer'))
    BY <1>1 DEF Verdict
  <1>5. wants[d(s)] \in Lines
    BY <1>3 DEF RequestsOK
  <1>6. TypeOK'
    <2>1. buffer' \in [name : Lines \cup {NoName}, end : BOOLEAN]
      BY <1>1, <1>5 DEF Received
    <2>2. i' \in 0 .. MAX_CLIENTS
      BY <1>1 DEF Slots
    <2>3. pending' \in [Clients -> SUBSET Parts]
      BY <1>1 DEF TypeOK
    <2> QED  BY <1>4, <2>1, <2>2, <2>3 DEF ReadRequest, TypeOK, Running
  <1>7. TablesAgree'
    BY <1>4 DEF ReadRequest, TablesAgree
  <1>8. SnapshotFresh'
    <2>1. ASSUME NEW t \in Slots, t > s, clientSockets[t] \in allFds
          PROVE  Readable(clientSockets[t])'
      <3>1. clientSockets[t] # 0
        BY <2>1 DEF TypeOK, Fds, serverSocket
      <3>2. clientSockets[t] \in Fds /\ d(t) \in Clients /\ d(t) # NoClient
        BY <3>1, EntriesOpen
      <3>3. d(t) # d(s)
        BY <2>1, <1>2, <1>3, <3>1, <3>2 DEF TablesAgree, Slots
      <3>4. Readable(clientSockets[t])
        BY <2>1, <1>1 DEF ReadRequest, SnapshotFresh, TypeOK, Slots
      <3> QED  BY <1>1, <3>2, <3>3, <3>4
               DEF ReadRequest, Readable, TypeOK, Fds, serverSocket
    <2> QED  BY <2>1, <1>1, <1>2, <1>4 DEF ReadRequest, SnapshotFresh, Serving, Slots
  <1>9. QueueOK'
    BY DEF ReadRequest, QueueOK
  <1>10. RequestsOK'
    BY <1>1 DEF ReadRequest, RequestsOK, TypeOK
  <1>11. NotYetAnswered'
    BY <1>4 DEF ReadRequest, NotYetAnswered, Stopped, Running
  <1>12. ServedOK'
    <2>1. SUFFICES ASSUME pc' = "reply" PROVE ServedOK'
      BY <1>4 DEF ServedOK, Serving
    <2>2. Served' = d(s)
      BY <1>1, <2>1 DEF ReadRequest, Served, sd
    <2>3. pending[d(s)] = Parts /\ wants[d(s)] # Malformed
          /\ buffer'.name = wants[d(s)]
      <3>1. buffer'.name \notin {NoName, Malformed} /\ buffer'.end
        BY <1>4, <2>1 DEF Parses
      <3>2. buffer'.end = ("end" \in pending[d(s)])
        BY <1>1 DEF Received
      <3>3. buffer'.name = IF "line" \in pending[d(s)] THEN wants[d(s)] ELSE NoName
        BY <1>1 DEF Received
      <3>4. "line" \in pending[d(s)] /\ "end" \in pending[d(s)]
        BY <3>1, <3>2, <3>3
      <3> QED  BY <1>3, <3>1, <3>3, <3>4 DEF TypeOK, Parts
    <2>4. sent[d(s)] = Parts
      BY <1>3, <2>3 DEF RequestsOK, TypeOK, Parts
    <2> QED  BY <1>5, <2>1, <2>2, <2>3, <2>4
             DEF ReadRequest, ServedOK, Serving
  <1>13. AnswerFitsRequest'
    BY DEF ReadRequest, AnswerFitsRequest, Started, Answers
  <1> QED  BY <1>6, <1>7, <1>8, <1>9, <1>10, <1>11, <1>12, <1>13

(* A write() to the connection being served disturbs nobody else. *)
LEMMA WriteStep ==
    ASSUME ServerAssumption, IInv, pc \in {"reply", "body"},
           NEW data \in {"200", "404", "part"} \cup Present,
           NEW next \in {"body", "close"},
           Write(data, next),
           UNCHANGED <<i, clientSockets, readFds, allFds, maxFd, buffer,
                       clientVars, peer, backlog, pending>>,
           pc = "reply" => rx[Served] = <<>>,
           Append(rx[Served], data) \in Started(Served) \/ link[Served] = "gone",
           next = "body" => /\ Target(buffer.name) \in Present \cup Unreadable
                            /\ \/ link[Served] = "gone"
                               \/ Append(rx[Served], data) = <<"200">>,
           next = "close" => \/ link[Served] = "gone"
                             \/ Append(rx[Served], data) \in Answers(Served)
    PROVE  IInv'
  <1> USE ServerAssumption DEF IInv, clientVars
  <1>1. /\ sd \in Fds /\ Served \in Clients /\ Served = peer[sd]
        /\ peer[sd] # NoClient /\ link[Served] # "idle"
    BY ServedConnected DEF Serving
  <1>2. pc' \in {"body", "close", "killed"} /\ (pc' # "killed" => pc' = next)
    BY DEF Write
  <1>3. /\ sd' = sd /\ Served' = Served
        /\ \A c \in Clients : Answers(c)' = Answers(c) /\ Started(c)' = Started(c)
        /\ Target(buffer.name)' = Target(buffer.name)
    BY DEF sd, Served, Answers, Started, Target
  <1>4. /\ rx' \in [Clients -> Seq({"200", "404", "part"} \cup Present)]
        /\ \A c \in Clients \ {Served} : rx'[c] = rx[c]
        /\ link[Served] # "gone" => rx'[Served] = Append(rx[Served], data)
        /\ link[Served] = "gone" => rx'[Served] = rx[Served]
    <2>1. Append(rx[Served], data) \in Seq({"200", "404", "part"} \cup Present)
      BY <1>1 DEF TypeOK
    <2>2. CASE /\ link[Served] # "gone"
               /\ rx' = [rx EXCEPT ![Served] = Append(rx[Served], data)]
      BY <1>1, <2>1, <2>2 DEF TypeOK
    <2>3. CASE link[Served] = "gone" /\ UNCHANGED rx
      BY <1>1, <2>3 DEF TypeOK
    <2> QED  BY <2>2, <2>3 DEF Write
  <1>5. TypeOK'
    BY <1>2, <1>4 DEF TypeOK, Running
  <1>6. TablesAgree'
    BY <1>2 DEF TablesAgree
  <1>7. SnapshotFresh'
    BY <1>2 DEF SnapshotFresh, Serving, Readable
  <1>8. QueueOK'
    BY DEF QueueOK
  <1>9. RequestsOK'
    <2>1. ~ \E k \in 1 .. Len(backlog) : backlog[k] = Served
      BY <1>1 DEF QueueOK
    <2> QED  BY <1>1, <1>4, <2>1 DEF RequestsOK
  <1>10. NotYetAnswered'
    <2>1. \A fd \in Fds \ {sd} : peer[fd] # NoClient => peer[fd] # Served
      BY <1>1 DEF TablesAgree
    <2> QED  BY <1>2, <1>3, <1>4, <2>1
             DEF NotYetAnswered, TypeOK, Stopped, Running
  <1>11. ServedOK'
    BY <1>1, <1>2, <1>3, <1>4 DEF ServedOK, Serving
  <1>12. AnswerFitsRequest'
    <2>1. sent[Served] = Parts /\ wants[Served] # Malformed
      BY DEF ServedOK, Serving
    <2> QED  BY <1>3, <1>4, <2>1 DEF AnswerFitsRequest
  <1> QED  BY <1>5, <1>6, <1>7, <1>8, <1>9, <1>10, <1>11, <1>12

LEMMA ReplyStep ==
    ASSUME ServerAssumption, IInv, Reply
    PROVE  IInv'
  <1> USE DEF IInv
  <1>1. /\ sd \in Fds /\ Served \in Clients /\ Served = peer[sd]
        /\ peer[sd] # NoClient
    BY ServedConnected DEF Reply, Serving
  <1>2. pc = "reply" /\ rx[Served] = <<>>
    BY <1>1 DEF Reply, NotYetAnswered, Stopped, Running
  <1>3. /\ Append(rx[Served], "200") = <<"200">>
        /\ Append(rx[Served], "404") = <<"404">>
    BY <1>2
  <1>4. wants[Served] = buffer.name /\ buffer.name \in Lines \ {Malformed}
    BY <1>2 DEF ServedOK, Serving
  <1>5. CASE buffer.name = Home /\ Write("200", "body") /\ CanOpen(Index)
    BY <1>2, <1>3, <1>5, ServerAssumption, WriteStep
    DEF Reply, Target, Started, CanOpen
  <1>6. CASE buffer.name = Home /\ Write("200", "close")
    BY <1>2, <1>3, <1>4, <1>6, ServerAssumption, WriteStep
    DEF Reply, Started, Answers
  <1>7. CASE buffer.name # Home /\ CanOpen(buffer.name) /\ Write("200", "body")
    BY <1>2, <1>3, <1>7, ServerAssumption, WriteStep
    DEF Reply, Target, Started, CanOpen
  <1>8. CASE buffer.name # Home /\ Write("404", "close")
    BY <1>2, <1>3, <1>4, <1>8, ServerAssumption, WriteStep
    DEF Reply, Started, Answers
  <1> QED  BY <1>5, <1>6, <1>7, <1>8 DEF Reply

(* read() failed before anything was sent: the response is the header alone. *)
LEMMA NothingReadStep ==
    ASSUME ServerAssumption, IInv, pc = "body", pc' = "close",
           Target(buffer.name) \in Unreadable, UNCHANGED rx,
           UNCHANGED <<i, clientSockets, readFds, allFds, maxFd, buffer,
                       clientVars, peer, backlog, pending>>
    PROVE  IInv'
  <1> USE ServerAssumption DEF IInv, clientVars
  <1>1. /\ sd \in Fds /\ Served \in Clients /\ Served = peer[sd]
        /\ wants[Served] = buffer.name
    BY ServedConnected DEF ServedOK, Serving
  <1>2. /\ sd' = sd /\ Served' = Served
        /\ \A c \in Clients : Answers(c)' = Answers(c) /\ Started(c)' = Started(c)
    BY DEF sd, Served, Answers, Started, Target
  <1>3. link[Served] = "gone" \/ rx[Served] \in Answers(Served)
    BY <1>1 DEF ServedOK, Answers
  <1>4. TypeOK' /\ TablesAgree'
    BY DEF TypeOK, TablesAgree, Running
  <1>5. SnapshotFresh' /\ QueueOK' /\ RequestsOK'
    BY DEF SnapshotFresh, Serving, Readable, QueueOK, RequestsOK
  <1>6. NotYetAnswered'
    BY <1>2 DEF NotYetAnswered, Stopped, Running
  <1>7. ServedOK'
    BY <1>1, <1>2, <1>3 DEF ServedOK, Serving
  <1>8. AnswerFitsRequest'
    BY <1>2 DEF AnswerFitsRequest
  <1> QED  BY <1>4, <1>5, <1>6, <1>7, <1>8

LEMMA SendBodyStep ==
    ASSUME ServerAssumption, IInv, SendBody
    PROVE  IInv'
  <1> USE DEF IInv
  <1> DEFINE data == Contents(Target(buffer.name))
  <1>1. /\ pc = "body" /\ Served \in Clients
        /\ Target(buffer.name) \in Present \cup Unreadable
    BY ServedConnected DEF SendBody, Serving, ServedOK
  <1>2. wants[Served] = buffer.name
    BY <1>1 DEF ServedOK, Serving
  <1>3. data \in {"part"} \cup Present
    BY DEF Contents
  <1>4. link[Served] # "gone" => Append(rx[Served], data) \in Answers(Served)
    <2>1. link[Served] # "gone" => rx[Served] = <<"200">>
      BY <1>1 DEF ServedOK
    <2>2. Append(<<"200">>, data) = <<"200", data>>
      <3> DEFINE S == {"200", "part"} \cup Present
      <3>1. "200" \in S /\ data \in S
        BY <1>3
      <3> HIDE DEF S, data
      <3> QED  BY <3>1, AppendSecond
    <2>3. <<"200", data>> \in Answers(Served)
      BY <1>1, <1>2 DEF Answers, Contents
    <2> HIDE DEF data
    <2> QED  BY <2>1, <2>2, <2>3
  <1>5. CASE Write(data, "close")
    <2> HIDE DEF data
    <2> QED  BY <1>1, <1>3, <1>4, <1>5, ServerAssumption, WriteStep DEF SendBody, Started
  <1>6. CASE /\ Target(buffer.name) \in Unreadable
             /\ pc' = "close"
             /\ UNCHANGED rx
    BY <1>1, <1>6, ServerAssumption, NothingReadStep DEF SendBody
  <1> QED  BY <1>5, <1>6 DEF SendBody

LEMMA CloseClientStep ==
    ASSUME ServerAssumption, IInv, CloseClient
    PROVE  IInv'
  <1> USE ServerAssumption DEF IInv, vars, serverVars, clientVars
  <1>1. /\ sd \in Fds /\ Served \in Clients /\ Served = peer[sd]
        /\ peer[sd] # NoClient
        /\ i \in Slots /\ clientSockets[i] = sd /\ sd # 0 /\ sd # serverSocket
    BY ServedConnected DEF CloseClient, Serving, SnapshotFresh, sd, Fds, serverSocket
  <1>2. /\ peer'[sd] = NoClient
        /\ \A g \in Fds \ {sd} : peer'[g] = peer[g]
        /\ clientSockets'[i] = 0
        /\ \A s \in Slots \ {i} :
             clientSockets'[s] = clientSockets[s] /\ clientSockets[s] # sd
    BY <1>1 DEF CloseClient, TypeOK, TablesAgree
  <1>3. TypeOK'
    <2>1. i' \in 0 .. MAX_CLIENTS
      BY <1>1 DEF CloseClient, Slots
    <2>2. peer' \in [Fds -> Clients \cup {NoClient}]
          /\ clientSockets' \in [Slots -> Fds \cup {0}]
      BY <1>1 DEF CloseClient, TypeOK
    <2> QED  BY <2>1, <2>2 DEF CloseClient, TypeOK, Running
  <1>4. TablesAgree'
    <2>1. readFds' = {serverSocket} \cup {g \in Fds : peer'[g] # NoClient}
      BY <1>1, <1>2 DEF CloseClient, TablesAgree
    <2>2. \A s \in Slots : clientSockets'[s] # 0 => clientSockets'[s] \in readFds'
      BY <1>1, <1>2 DEF CloseClient, TablesAgree
    <2>3. \A s, t \in Slots :
            clientSockets'[s] = clientSockets'[t] /\ s # t => clientSockets'[s] = 0
      BY <1>2 DEF TablesAgree
    <2>4. \A g, h \in Fds : peer'[g] = peer'[h] /\ g # h => peer'[g] = NoClient
      BY <1>2 DEF TablesAgree
    <2> QED  BY <2>1, <2>2, <2>3, <2>4 DEF CloseClient, TablesAgree
  <1>5. SnapshotFresh'
    <2>1. ASSUME NEW s \in Slots, s > i, clientSockets[s] \in allFds
          PROVE  Readable(clientSockets[s])'
      <3>1. Readable(clientSockets[s])
        BY <2>1 DEF CloseClient, SnapshotFresh, Serving
      <3>2. clientSockets[s] \in Fds \ {sd}
        BY <2>1, <1>1, <1>2 DEF TypeOK, Fds, serverSocket, Slots
      <3>3. clientSockets'[s] = clientSockets[s]
        BY <2>1, <1>2 DEF Slots
      <3> QED  BY <1>2, <3>1, <3>2, <3>3 DEF CloseClient, Readable, Fds, serverSocket
    <2>2. \A s \in Slots : s >= i' => s > i /\ clientSockets'[s] = clientSockets[s]
      BY <1>1, <1>2 DEF CloseClient, Slots
    <2> QED  BY <2>1, <2>2 DEF CloseClient, SnapshotFresh, Serving
  <1>6. QueueOK'
    BY <1>2 DEF CloseClient, QueueOK, TypeOK
  <1>7. RequestsOK'
    BY DEF CloseClient, RequestsOK
  <1>8. NotYetAnswered'
    BY <1>2 DEF CloseClient, NotYetAnswered, Stopped, Running
  <1>9. ServedOK' /\ AnswerFitsRequest'
    BY DEF CloseClient, ServedOK, Serving, AnswerFitsRequest, Started, Answers
  <1> QED  BY <1>3, <1>4, <1>5, <1>6, <1>7, <1>8, <1>9

LEMMA InterruptStep ==
    ASSUME IInv, Interrupt
    PROVE  IInv'
  <1> USE ServerAssumption DEF IInv, vars, serverVars, clientVars
  <1>1. TypeOK'
    BY DEF Interrupt, TypeOK, Fds, Slots, Parts, serverSocket, Running
  <1>2. TablesAgree'
    BY DEF Interrupt, TypeOK, TablesAgree
  <1>3. SnapshotFresh'
    BY DEF Interrupt, TypeOK, SnapshotFresh, Readable, Serving, Slots, Fds, serverSocket
  <1>4. QueueOK'
    BY DEF Interrupt, TypeOK, QueueOK
  <1>5. RequestsOK'
    BY DEF Interrupt, TypeOK, RequestsOK
  <1>6. NotYetAnswered'
    BY DEF Interrupt, TypeOK, NotYetAnswered, sd, Stopped, Running
  <1>7. ServedOK'
    BY DEF Interrupt, TypeOK, ServedOK, Served, sd, Serving, Answers, Target
  <1>8. AnswerFitsRequest'
    BY DEF Interrupt, TypeOK, AnswerFitsRequest, Started, Answers
  <1> QED  BY <1>1, <1>2, <1>3, <1>4, <1>5, <1>6, <1>7, <1>8

LEMMA InitIInv == ASSUME ServerAssumption, Init PROVE IInv
  <1> USE ServerAssumption DEF Init
  <1>1. TypeOK
    BY DEF TypeOK, Running, Slots, Fds, Parts
  <1>2. TablesAgree
    BY DEF TablesAgree, serverSocket
  <1>3. SnapshotFresh /\ QueueOK /\ NotYetAnswered
    BY DEF SnapshotFresh, QueueOK, NotYetAnswered, Serving
  <1>4. RequestsOK /\ ServedOK /\ AnswerFitsRequest
    BY DEF RequestsOK, ServedOK, AnswerFitsRequest, Serving, Lines
  <1> QED  BY <1>1, <1>2, <1>3, <1>4 DEF IInv

LEMMA NextIInv == ASSUME ServerAssumption, IInv, [Next]_vars PROVE IInv'
  <1>1. CASE Server
    BY <1>1, ServerAssumption, SelectStep, AcceptStep, AcceptFailsStep, EndScanStep,
       ReadRequestStep, ReplyStep, SendBodyStep, CloseClientStep DEF Server
  <1>2. CASE Environment
    BY <1>2, ServerAssumption, ConnectStep, SendStep, ShutdownStep, LeaveStep,
       InterruptStep DEF Environment
  <1>3. CASE UNCHANGED vars
    <2> USE <1>3 DEF IInv, vars, serverVars, clientVars
    <2>1. TypeOK' /\ TablesAgree'
      BY DEF TypeOK, TablesAgree
    <2>2. SnapshotFresh' /\ QueueOK' /\ RequestsOK'
      BY DEF SnapshotFresh, QueueOK, RequestsOK, Serving, Readable
    <2>3. NotYetAnswered' /\ ServedOK'
      BY DEF NotYetAnswered, ServedOK, Served, sd, Serving, Stopped, Answers, Target
    <2>4. AnswerFitsRequest'
      BY DEF AnswerFitsRequest, Started, Answers
    <2> QED  BY <2>1, <2>2, <2>3, <2>4
  <1> QED  BY <1>1, <1>2, <1>3 DEF Next

LEMMA Invariance == Spec => []IInv
  <1>1. Init => IInv
    BY InitIInv, ServerAssumption
  <1>2. IInv /\ [Next]_vars => IInv'
    BY NextIInv, ServerAssumption
  <1> QED  BY <1>1, <1>2, PTL DEF Spec

(* Every variable of the server, the kernel and the clients keeps its type. *)
THEOREM TypeCorrect == Spec => []TypeOK
  BY Invariance, PTL DEF IInv

(* server.c:133-146, 222-224: readFds, maxFd, clientSockets and the kernel's
   descriptor table agree, and select() never fails, for any sizes. *)
THEOREM TablesAlwaysAgree == Spec => []TablesAgree
  BY Invariance, PTL DEF IInv

(* server.c:153-157: the service loop never reads a descriptor that would
   block it, although it works on a snapshot. *)
THEOREM ReadsNeverBlock == Spec => []ReadNeverBlocks
  <1>1. IInv => ReadNeverBlocks
    BY ServerAssumption DEF IInv, TypeOK, SnapshotFresh, ReadNeverBlocks, Due, Slots
  <1> QED  BY <1>1, Invariance, PTL

(* server.c:156-220: every client receives at most one response, and it is
   the answer to what that client asked for. *)
THEOREM AnswersFit == Spec => []AnswerFitsRequest
  BY Invariance, PTL DEF IInv

(* server.c:43, 222: nobody who is still there is hung up on before it has the
   whole file, a 404, or all that could be read of an unreadable one. *)
THEOREM ClosesOnlyAnswered == Spec => ClosedOnlyAnswered
  <1>1. ASSUME IInv, [Next]_vars, NEW fd \in Fds,
               peer[fd] # NoClient, peer'[fd] # peer[fd]
        PROVE  link[peer[fd]] = "gone" \/ rx[peer[fd]] \in Answers(peer[fd])
    <2>1. CloseClient
      <3>1. ~ Accept
        BY <1>1 DEF Accept, FreeFds, IInv, TypeOK
      <3> QED  BY <1>1, <3>1
               DEF Next, Server, Environment, vars, serverVars, clientVars,
                   Connect, Send, Shutdown, Leave, Interrupt, Select,
                   AcceptFails, EndScan, ReadRequest, Reply, SendBody
    <2>2. fd = sd
      BY <1>1, <2>1 DEF CloseClient, IInv, TypeOK
    <2>3. link[Served] = "gone" \/ rx[Served] \in Answers(Served)
      BY <1>1, <2>1 DEF CloseClient, IInv, ServedOK
    <2> QED  BY <2>2, <2>3 DEF Served, Answers
  <1>2. IInv /\ [Next]_vars =>
          [\A fd \in Fds :
             LET c == peer[fd]
             IN  c # NoClient /\ peer'[fd] # c =>
                   link[c] = "gone" \/ rx[c] \in Answers(c)]_vars
    BY <1>1
  <1> QED  BY <1>2, Invariance, PTL DEF Spec, ClosedOnlyAnswered

(* server.c:127-130: once the descriptors have run out with a connection
   waiting, the server is caught between select() and accept() for good. *)
THEOREM ExhaustionPermanent == Spec => ExhaustionIsPermanent
  <1>1. ASSUME IInv, [Next]_vars, Exhausted
        PROVE  Exhausted' \/ Stopped'
    <2> USE <1>1 DEF Exhausted, FreeFds
    <2>1. CASE Select
      BY <2>1, ServerAssumption
      DEF Select, Stopped, Running, Readable, IInv, TablesAgree, TypeOK, Fds, serverSocket
    <2>2. CASE Server /\ ~ Select
      BY <2>2 DEF Server, Accept, AcceptFails, EndScan, ReadRequest, Reply,
                  SendBody, CloseClient
    <2>3. CASE \E c \in Clients : Connect(c) \/ Send(c) \/ Shutdown(c) \/ Leave(c)
      BY <2>3 DEF Connect, Send, Shutdown, Leave, serverVars, IInv, TypeOK
    <2>4. CASE Interrupt
      BY <2>4 DEF Interrupt, Stopped, Running
    <2>5. CASE UNCHANGED vars
      BY <2>5 DEF vars, serverVars
    <2> QED  BY <2>1, <2>2, <2>3, <2>4, <2>5 DEF Next, Environment
  <1>2. IInv /\ [Next]_vars => [Exhausted => Exhausted' \/ Stopped']_vars
    BY <1>1
  <1> QED  BY <1>2, Invariance, PTL DEF Spec, ExhaustionIsPermanent

(* The first piece of the request of c has been read and dropped, and c is not
   the client being served. *)
Lost(c) ==
    /\ "line" \in sent[c] \ pending[c]
    /\ rx[c] = <<>>
    /\ Serving => Served # c

LEMMA HalfReadIsLost ==
    ASSUME IInv, NEW c \in Clients, HalfRead(c)
    PROVE  Lost(c)
  <1>1. "end" \notin sent[c] /\ sent[c] # Parts
    BY DEF HalfRead, Parts
  <1>2. rx[c] = <<>>
    BY <1>1 DEF IInv, AnswerFitsRequest
  <1>3. Serving => Served # c
    BY <1>1 DEF IInv, ServedOK
  <1> QED  BY <1>2, <1>3 DEF Lost, HalfRead

(* No piece that comes later brings the first one back, and what the server reads
   of c from now on names no file. *)
LEMMA LostForGood ==
    ASSUME ServerAssumption, IInv, [Next]_vars, NEW c \in Clients, Lost(c)
    PROVE  Lost(c)'
  <1> USE DEF Lost
  <1>1. CASE Select \/ Accept \/ AcceptFails \/ EndScan
    <2>1. sent' = sent /\ pending' = pending /\ rx' = rx /\ ~ Serving'
      BY <1>1 DEF Select, Accept, AcceptFails, EndScan, clientVars, Serving
    <2> QED  BY <2>1
  <1>2. CASE ReadRequest
    <2>1. PICK s \in Due :
            LET d == peer[clientSockets[s]]
            IN  /\ buffer' = Received(d)
                /\ pending' = [pending EXCEPT ![d] = {}]
                /\ pc' = Verdict(buffer')
                /\ i' = IF pc' = "scan" THEN s + 1 ELSE s
      BY <1>2 DEF ReadRequest
    <2>2. sent' = sent /\ rx' = rx /\ peer' = peer /\ clientSockets' = clientSockets
      BY <1>2 DEF ReadRequest, clientVars
    <2>3. "line" \notin pending'[c]
      BY <2>1 DEF IInv, TypeOK
    <2>4. ASSUME Serving', Served' = c
          PROVE  FALSE
      <3>1. pc' = "reply" /\ Parses(buffer') /\ i' = s
        BY <2>1, <2>4 DEF Serving, Verdict
      <3>2. peer[clientSockets[s]] = c
        BY <2>2, <2>4, <3>1 DEF Served, sd
      <3>3. buffer'.name = NoName
        BY <2>1, <3>2 DEF Received
      <3> QED  BY <3>1, <3>3 DEF Parses
    <2> QED  BY <2>2, <2>3, <2>4
  <1>3. CASE Reply \/ SendBody
    <2>1. Serving /\ sent' = sent /\ pending' = pending /\ Served' = Served
      BY <1>3 DEF Reply, SendBody, clientVars, Serving, Served, sd
    <2>2. rx'[c] = rx[c]
      BY <1>3, <2>1 DEF Reply, SendBody, Write, IInv, TypeOK
    <2> QED  BY <2>1, <2>2
  <1>4. CASE CloseClient
    BY <1>4 DEF CloseClient, clientVars, Serving
  <1>5. CASE \E d \in Clients : Send(d)
    <2>1. PICK d \in Clients, more \in {Parts, {"line"}, {"end"}} :
            /\ more = Parts \/ more = {"line"} => sent[d] = {}
            /\ sent' = [sent EXCEPT ![d] = @ \cup more]
            /\ pending' = [pending EXCEPT ![d] = @ \cup more]
      BY <1>5 DEF Send
    <2>2. rx' = rx /\ (Serving' <=> Serving) /\ Served' = Served
      BY <1>5 DEF Send, serverVars, Serving, Served, sd
    <2>3. d = c => more = {"end"}
      BY <2>1
    <2>4. "line" \in sent'[c] /\ "line" \notin pending'[c]
      BY <2>1, <2>3 DEF IInv, TypeOK
    <2> QED  BY <2>2, <2>4
  <1>6. CASE \E d \in Clients : Connect(d) \/ Shutdown(d) \/ Leave(d)
    <2>1. sent' = sent /\ rx' = rx /\ (Serving' <=> Serving) /\ Served' = Served
      BY <1>6 DEF Connect, Shutdown, Leave, serverVars, Serving, Served, sd
    <2>2. "line" \notin pending'[c]
      BY <1>6 DEF Connect, Shutdown, Leave, IInv, TypeOK
    <2> QED  BY <2>1, <2>2
  <1>7. CASE Interrupt
    BY <1>7 DEF Interrupt, clientVars, Serving
  <1>8. CASE UNCHANGED vars
    BY <1>8 DEF vars, serverVars, clientVars, Serving, Served, sd
  <1> QED
    BY <1>1, <1>2, <1>3, <1>4, <1>5, <1>6, <1>7, <1>8 DEF Next, Server, Environment

(* server.c:156-167: who sends its request in two pieces that two read()s take
   never receives anything, however long it waits. *)
THEOREM SplitRequestsAreLost == Spec => SplitRequestIsLost
  <1>1. ASSUME NEW c \in Clients
        PROVE  Spec => [](HalfRead(c) => [](rx[c] = <<>>))
    <2>1. IInv /\ HalfRead(c) => Lost(c)
      BY HalfReadIsLost
    <2>2. IInv /\ Lost(c) /\ [Next]_vars => Lost(c)'
      BY LostForGood, ServerAssumption
    <2>3. Lost(c) => rx[c] = <<>>
      BY DEF Lost
    <2> QED  BY <2>1, <2>2, <2>3, Invariance, PTL DEF Spec
  <1> QED  BY <1>1 DEF SplitRequestIsLost
=============================================================================
