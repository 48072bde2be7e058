----------------------------- MODULE HttpServer -----------------------------
(***************************************************************************)
(* The select()-driven static file server of CN/source/server.c.           *)
(*                                                                         *)
(* One process runs main()'s loop; the clients and the kernel (descriptor  *)
(* table, accept queue, receive queues, SIGINT, SIGPIPE) take steps of     *)
(* their own between any two of its system calls.  A request reaches the   *)
(* server in at most two pieces, "line" (GET /name) and "end" (the blank   *)
(* after the name and whatever follows): TCP may hand them to one read()   *)
(* or to two.  Every request fits in BUF_SIZE bytes.                       *)
(***************************************************************************)
EXTENDS Integers, Sequences, FiniteSets

CONSTANTS
    Clients,      \* the connections that may ever be opened, one per client
    Steady,       \* clients that send at once, read, and wait for the answer
    NoClient,     \* a descriptor nobody holds
    MAX_CLIENTS,  \* entries of clientSockets
    BACKLOG,      \* accept queue length given to listen()
    FdLimit,      \* descriptors the process may hold: 0 .. FdLimit - 1
    Present,      \* names of files under ROOT
    Unreadable,   \* names that open() takes and read() then fails on: a
                  \*   directory (GET /.), a file with a bad block
    Absent,       \* names that open() does not find
    Index,        \* index.html
    Home,         \* the empty file name of "GET / "
    Malformed,    \* anything the parser rejects: no "GET /", or a long name
    NoName        \* a zeroed buffer

ASSUME ServerAssumption ==
    /\ NoClient \notin Clients
    /\ Steady \subseteq Clients
    /\ MAX_CLIENTS \in Nat \ {0}
    /\ BACKLOG \in Nat \ {0}
    /\ FdLimit \in Nat /\ FdLimit > 4
    /\ Present \cap (Unreadable \cup Absent) = {}
    /\ Unreadable \cap Absent = {}
    /\ Index \in Present \cup Unreadable \cup Absent
    /\ {Home, Malformed} \cap (Present \cup Unreadable \cup Absent) = {}
    /\ NoName \notin Present \cup Unreadable \cup Absent \cup {Home, Malformed}
    /\ Home # Malformed
    /\ {"200", "404", "part"} \cap Present = {}

VARIABLES
    \* main()
    pc,             \* the next system call of the loop, or how it ended
    i,              \* index of the service loop
    clientSockets,  \* clientSockets[MAX_CLIENTS], 0 when free
    readFds,        \* descriptors to watch
    allFds,         \* what select() last returned
    maxFd,
    buffer,         \* what the last read() left in buffer[BUF_SIZE]
    \* the kernel
    peer,           \* descriptor table: whose connection a descriptor is
    backlog,        \* accept queue
    pending,        \* receive queue of each connection
    \* the clients
    link,           \* the client's end of its connection
    wants,          \* the request line it sends
    sent,           \* how much of it is on its way or delivered
    stalled,        \* clients that do not drain a long response
    rx              \* what a client received

serverVars == <<pc, i, clientSockets, readFds, allFds, maxFd, buffer>>
clientVars == <<link, wants, sent, stalled>>
vars == <<serverVars, clientVars, peer, backlog, pending, rx>>

serverSocket == 3
Fds   == 4 .. FdLimit - 1
Slots == 0 .. MAX_CLIENTS - 1
Lines == Present \cup Unreadable \cup Absent \cup {Home, Malformed}
Parts == {"line", "end"}

Running == {"select", "accept", "scan", "reply", "body", "close"}
Stopped == pc \notin Running

FreeFds == {fd \in Fds : peer[fd] = NoClient}

Readable(fd) ==
    IF fd = serverSocket
    THEN backlog # <<>>
    ELSE \/ pending[peer[fd]] # {}
         \/ link[peer[fd]] \in {"shut", "gone"}

Init ==
    /\ pc = "select"
    /\ i = 0
    /\ clientSockets = [s \in Slots |-> 0]
    /\ readFds = {serverSocket}
    /\ allFds = {}
    /\ maxFd = serverSocket
    /\ buffer = [name |-> NoName, end |-> FALSE]
    /\ peer = [fd \in Fds |-> NoClient]
    /\ backlog = <<>>
    /\ pending = [c \in Clients |-> {}]
    /\ link = [c \in Clients |-> "idle"]
    /\ wants = [c \in Clients |-> NoName]
    /\ sent = [c \in Clients |-> {}]
    /\ stalled = {}
    /\ rx = [c \in Clients |-> <<>>]

-----------------------------------------------------------------------------
(* The clients *)

Connect(c) ==
    /\ link[c] = "idle"
    /\ Len(backlog) < BACKLOG
    /\ link' = [link EXCEPT ![c] = "up"]
    /\ \E line \in Lines : wants' = [wants EXCEPT ![c] = line]
    /\ stalled' \in {stalled, stalled \cup ({c} \ Steady)}
    /\ backlog' = Append(backlog, c)
    /\ UNCHANGED <<serverVars, sent, peer, pending, rx>>

(* The whole request at once, or its two pieces one after the other. *)
Send(c) ==
    /\ link[c] = "up"
    /\ \E more \in {Parts, {"line"}, {"end"}} :
         /\ more = Parts \/ more = {"line"} => sent[c] = {}
         /\ more = {"line"} => c \notin Steady
         /\ more = {"end"} => sent[c] = {"line"}
         /\ sent' = [sent EXCEPT ![c] = @ \cup more]
         /\ pending' = [pending EXCEPT ![c] = @ \cup more]
    /\ UNCHANGED <<serverVars, link, wants, stalled, peer, backlog, rx>>

(* Half-close: nothing more will be sent, the answer is still read. *)
Shutdown(c) ==
    /\ c \notin Steady
    /\ link[c] = "up"
    /\ link' = [link EXCEPT ![c] = "shut"]
    /\ UNCHANGED <<serverVars, wants, sent, stalled, peer, backlog, pending, rx>>

(* The client goes away; a reset also discards what the server has not read. *)
Leave(c) ==
    /\ c \notin Steady
    /\ link[c] \in {"up", "shut"}
    /\ link' = [link EXCEPT ![c] = "gone"]
    /\ pending' \in {pending, [pending EXCEPT ![c] = {}]}
    /\ UNCHANGED <<serverVars, wants, sent, stalled, peer, backlog, rx>>

-----------------------------------------------------------------------------
(* main() *)

(* select() returns when something is ready; a descriptor that is watched
   but closed would make it fail with EBADF, and main() exit. *)
Select ==
    /\ pc = "select"
    /\ LET bad   == \E fd \in readFds \ {serverSocket} : peer[fd] = NoClient
           ready == {fd \in readFds : fd <= maxFd /\ Readable(fd)}
       IN  /\ bad \/ ready # {}
           /\ allFds' = IF bad THEN {} ELSE ready
           /\ pc' = IF bad THEN "exited"
                    ELSE IF serverSocket \in ready THEN "accept"
                    ELSE "scan"
    /\ i' = 0
    /\ UNCHANGED <<clientSockets, readFds, maxFd, buffer, clientVars,
                   peer, backlog, pending, rx>>

(* The first free entry takes the new socket; with none free it is watched
   all the same. *)
Enlist(fd) ==
    LET free == {s \in Slots : clientSockets[s] = 0}
    IN  \/ /\ free = {}
           /\ UNCHANGED clientSockets
        \/ \E s \in free :
             /\ \A t \in free : s <= t
             /\ clientSockets' = [clientSockets EXCEPT ![s] = fd]

(* Mutations: maxFd kept one too high; maxFd never raised. *)
RaiseMaxFd_PlusOne(fd) == fd + 1
RaiseMaxFd_Never(fd) == maxFd

RaiseMaxFd(fd) == IF fd > maxFd THEN fd ELSE maxFd

Accept ==
    /\ pc = "accept"
    /\ backlog # <<>>
    /\ \E fd \in FreeFds :
         /\ \A g \in FreeFds : fd <= g
         /\ peer' = [peer EXCEPT ![fd] = Head(backlog)]
         /\ Enlist(fd)
         /\ readFds' = readFds \cup {fd}
         /\ maxFd' = RaiseMaxFd(fd)
    /\ backlog' = Tail(backlog)
    /\ pc' = "scan"
    /\ UNCHANGED <<i, allFds, buffer, clientVars, pending, rx>>

(* Mutation: serve the ready connections before going back to select(). *)
AcceptFails_Serves ==
    /\ pc = "accept"
    /\ FreeFds = {}
    /\ pc' = "scan"
    /\ UNCHANGED <<i, clientSockets, readFds, allFds, maxFd, buffer, clientVars,
                   peer, backlog, pending, rx>>

(* accept() has no descriptor to give (EMFILE): back to select(). *)
AcceptFails ==
    /\ pc = "accept"
    /\ FreeFds = {}
    /\ pc' = "select"
    /\ UNCHANGED <<i, clientSockets, readFds, allFds, maxFd, buffer, clientVars,
                   peer, backlog, pending, rx>>

(* Mutations: FD_ISSET on readFds; the loop starts one entry late. *)
Due_Watched == {s \in i .. MAX_CLIENTS - 1 : clientSockets[s] \in readFds}
Due_Late == {s \in i + 1 .. MAX_CLIENTS - 1 : clientSockets[s] \in allFds}

(* Entries of clientSockets the service loop has yet to serve. *)
Due == {s \in i .. MAX_CLIENTS - 1 : clientSockets[s] \in allFds}

(* The loop's variables are dead until select() returns again. *)
EndScan ==
    /\ pc = "scan"
    /\ Due = {}
    /\ pc' = "select"
    /\ i' = 0
    /\ allFds' = {}
    /\ UNCHANGED <<clientSockets, readFds, maxFd, buffer, clientVars,
                   peer, backlog, pending, rx>>

(* Mutation: no bzero(), a short read leaves the rest of the old request. *)
Received_Keeps(c) ==
    [name |-> IF "line" \in pending[c] THEN wants[c] ELSE buffer.name,
     end  |-> buffer.end \/ "end" \in pending[c]]

(* bzero() and read(): what the buffer holds after reading from c. *)
Received(c) ==
    [name |-> IF "line" \in pending[c] THEN wants[c] ELSE NoName,
     end  |-> "end" \in pending[c]]

Parses(buf) == buf.name \notin {NoName, Malformed} /\ buf.end

(* Mutation: a request that does not parse is hung up on. *)
Verdict_HangsUp(buf) == IF Parses(buf) THEN "reply" ELSE "close"

Verdict(buf) == IF Parses(buf) THEN "reply" ELSE "scan"

(* Serve the next ready entry; a request that does not parse is skipped and
   its connection stays as it is. *)
ReadRequest ==
    /\ pc = "scan"
    /\ \E s \in Due :
         /\ \A t \in Due : s <= t
         /\ Readable(clientSockets[s])
         /\ LET c == peer[clientSockets[s]]
            IN  /\ buffer' = Received(c)
                /\ pending' = [pending EXCEPT ![c] = {}]
         /\ pc' = Verdict(buffer')
         /\ i' = IF pc' = "scan" THEN s + 1 ELSE s
    /\ UNCHANGED <<clientSockets, readFds, allFds, maxFd, clientVars,
                   peer, backlog, rx>>

(* Parses rules NoName out; Home is served from index.html. *)
Target(name) == IF name = Home THEN Index ELSE name

CanOpen(file) == file \in Present \cup Unreadable /\ FreeFds # {}

sd     == clientSockets[i]
Served == peer[sd]

(* write() to the socket: the client gets the data, or it is gone and the
   data are dropped, or it is gone and SIGPIPE kills the server. *)
Write(data, next) ==
    \/ /\ link[Served] # "gone"
       /\ rx' = [rx EXCEPT ![Served] = Append(@, data)]
       /\ pc' = next
    \/ /\ link[Served] = "gone"
       /\ UNCHANGED rx
       /\ pc' \in {next, "killed"}

(* open() and the header.  The home page's open() is not checked: all that
   follows is a read() of -1, which fails. *)
Reply ==
    /\ pc = "reply"
    /\ \/ /\ buffer.name = Home
          /\ Write("200", IF CanOpen(Index) THEN "body" ELSE "close")
       \/ /\ buffer.name # Home
          /\ CanOpen(buffer.name)
          /\ Write("200", "body")
       \/ /\ buffer.name # Home
          /\ ~ CanOpen(buffer.name)
          /\ Write("404", "close")
    /\ UNCHANGED <<i, clientSockets, readFds, allFds, maxFd, buffer, clientVars,
                   peer, backlog, pending>>

(* What read() hands out of a file until it returns 0 or fails. *)
Contents(file) == IF file \in Present THEN file ELSE "part"

(* sendFileContents(): write() blocks while the client does not drain; the
   loop ends on a failed read() as at the end of the file, and a directory's
   very first read() fails. *)
SendBody ==
    /\ pc = "body"
    /\ \/ /\ Served \notin stalled \/ link[Served] = "gone"
          /\ Write(Contents(Target(buffer.name)), "close")
       \/ /\ Target(buffer.name) \in Unreadable
          /\ pc' = "close"
          /\ UNCHANGED rx
    /\ UNCHANGED <<i, clientSockets, readFds, allFds, maxFd, buffer, clientVars,
                   peer, backlog, pending>>

(* close(sd), FD_CLR, the entry is free again. *)
CloseClient ==
    /\ pc = "close"
    /\ peer' = [peer EXCEPT ![sd] = NoClient]
    /\ readFds' = readFds \ {sd}
    /\ clientSockets' = [clientSockets EXCEPT ![i] = 0]
    /\ i' = i + 1
    /\ pc' = "scan"
    /\ UNCHANGED <<allFds, maxFd, buffer, clientVars, backlog, pending, rx>>

(* handleInterruptSignal() *)
Interrupt ==
    /\ pc' = "interrupted"
    /\ UNCHANGED <<i, clientSockets, readFds, allFds, maxFd, buffer, clientVars,
                   peer, backlog, pending, rx>>

-----------------------------------------------------------------------------
Server ==
    \/ Select \/ Accept \/ AcceptFails
    \/ EndScan \/ ReadRequest \/ Reply \/ SendBody \/ CloseClient

(* What happens after the process ended is of no interest. *)
Environment ==
    /\ ~ Stopped
    /\ \/ \E c \in Clients : Connect(c) \/ Send(c) \/ Shutdown(c) \/ Leave(c)
       \/ Interrupt

Next == Server \/ Environment

Spec == Init /\ [][Next]_vars

(* The kernel keeps scheduling the one server process. *)
FairSpec == Spec /\ WF_vars(Server)
-----------------------------------------------------------------------------
(* Properties *)

TypeOK ==
    /\ pc \in Running \cup {"exited", "killed", "interrupted"}
    /\ i \in 0 .. MAX_CLIENTS
    /\ clientSockets \in [Slots -> Fds \cup {0}]
    /\ readFds \subseteq Fds \cup {serverSocket}
    /\ allFds \subseteq Fds \cup {serverSocket}
    /\ maxFd \in {serverSocket} \cup Fds
    /\ buffer \in [name : Lines \cup {NoName}, end : BOOLEAN]
    /\ peer \in [Fds -> Clients \cup {NoClient}]
    /\ backlog \in Seq(Clients)
    /\ pending \in [Clients -> SUBSET Parts]
    /\ link \in [Clients -> {"idle", "up", "shut", "gone"}]
    /\ wants \in [Clients -> Lines \cup {NoName}]
    /\ sent \in [Clients -> SUBSET Parts]
    /\ stalled \subseteq Clients
    /\ rx \in [Clients -> Seq({"200", "404", "part"} \cup Present)]

Slotted(fd) == \E s \in Slots : clientSockets[s] = fd

(* server.c:133-146, 222-224: the four tables that describe the connections
   (descriptor table, readFds with maxFd, clientSockets) agree between any two
   system calls: what is watched is open and below maxFd, so select() cannot
   fail, what is open is watched, and no two entries of clientSockets share a
   descriptor, so that no connection is read or closed twice. *)
TablesAgree ==
    /\ pc # "exited"
    /\ readFds = {serverSocket} \cup {fd \in Fds : peer[fd] # NoClient}
    /\ \A fd \in readFds : fd <= maxFd
    /\ \A s \in Slots : clientSockets[s] # 0 => clientSockets[s] \in readFds
    /\ \A s, t \in Slots :
         clientSockets[s] = clientSockets[t] /\ s # t => clientSockets[s] = 0
    /\ \A fd, g \in Fds : peer[fd] = peer[g] /\ fd # g => peer[fd] = NoClient

(* server.c:115, 153-157: allFds is a snapshot that accept() and close() make
   stale while the service loop still uses it, and descriptors are reused.
   Yet every descriptor the loop is going to read is readable now, so that the
   single thread never blocks in read(). *)
ReadNeverBlocks ==
    pc = "scan" => \A s \in Due : Readable(clientSockets[s])

(* What c may have received when it is closed: the whole file, or 404, or,
   where read() fails, the header and what was read before.  404 and the bare
   header of the home page are for files that cannot be opened. *)
Answers(c) ==
    LET file == Target(wants[c])
    IN  {<<"200", f>> : f \in Present \cap {file}}
        \cup (IF file \in Unreadable THEN {<<"200">>, <<"200", "part">>} ELSE {})
        \cup (IF wants[c] = Home THEN {<<"200">>} ELSE {<<"404">>})

Started(c) == {<<>>, <<"200">>} \cup Answers(c)

(* server.c:156-220: one buffer and one loop serve every connection, and still
   a client receives at most one response, in order, and it is the answer to
   the line that same client sent; who sent no complete well-formed request
   receives nothing. *)
AnswerFitsRequest ==
    \A c \in Clients :
        rx[c] # <<>> =>
            /\ sent[c] = Parts
            /\ wants[c] # Malformed
            /\ rx[c] \in Started(c)

(* server.c:43, 222: the server closes a connection only after answering it,
   unless the client has left: with the whole of a file that can be read to
   its end, however the body is interleaved with clients that stall or leave.
   (What cannot be read, a directory, is answered 200 without a body and closed
   all the same.)  In particular a connection whose request does not parse is
   never closed. *)
ClosedOnlyAnswered ==
    [][\A fd \in Fds :
         LET c == peer[fd]
         IN  c # NoClient /\ peer'[fd] # c =>
               link[c] = "gone" \/ rx[c] \in Answers(c)]_vars

Exhausted ==
    /\ pc \in {"select", "accept"}
    /\ FreeFds = {}
    /\ backlog # <<>>

(* server.c:127-130: when accept() fails the loop starts over without serving
   anybody.  With no descriptor left and a connection waiting, the server
   never again does anything else, although clients it could answer, and whose
   descriptors it would free, are ready. *)
ExhaustionIsPermanent == [][Exhausted => Exhausted' \/ Stopped']_vars

(* server.c:156-167: a request that reaches the server in two read()s is never
   answered: the first piece has been dropped when the second arrives. *)
HalfRead(c) == "line" \in sent[c] \ pending[c] /\ "end" \notin sent[c]

SplitRequestIsLost == \A c \in Clients : [](HalfRead(c) => [](rx[c] = <<>>))

(* The server waits inside write() for a client that does not read. *)
Blocked == pc = "body" /\ Served \in stalled /\ link[Served] # "gone"

Complete(c) ==
    /\ \E fd \in Fds : peer[fd] = c /\ Slotted(fd)
    /\ pending[c] = Parts
    /\ wants[c] # Malformed

(* server.c:151-226: a connection that has an entry in clientSockets and whose
   complete request waits to be read is answered, with the whole file if it
   can be opened and read, whatever the other clients do, unless the client leaves, the process ends, a stalled client holds it
   in write(), or the descriptors have run out. *)
RequestsAreAnswered ==
    \A c \in Clients :
        Complete(c) ~> \/ rx[c] \in Answers(c)
                       \/ link[c] = "gone"
                       \/ Stopped \/ Blocked \/ Exhausted
=============================================================================
