----------------------------- MODULE FifoServer -----------------------------
(***************************************************************************)
(* Server mode: the loop of AggrEnv::openPipe and its clients, which talk  *)
(* through the two named pipes /tmp/stoap-in and /tmp/stoap-out.           *)
(*                                                                         *)
(* A client does what the README says: write one request to stoap-in, then *)
(* read stoap-out to its end (cat).  The pipes are the kernel's: opening   *)
(* one end waits until the other end is opened, data stay in the pipe      *)
(* while anybody has it open and are dropped when nobody does, a reader    *)
(* sees the end of file when no writer is left, and writing without a      *)
(* reader kills the writer (SIGPIPE).  One request or answer is one        *)
(* element of a pipe: they are shorter than a pipe's atomic write.         *)
(***************************************************************************)
EXTENDS Naturals, Sequences, FiniteSets

CONSTANTS
  Clients,
  Server,
  MaxRequests,   \* bound: requests a client sends
  Usages         \* who uses the server, and how: see Init

Pipes == {"in", "out"}
Procs == Clients \cup {Server}
Requests == [client : Clients, number : 1..MaxRequests]

\* Where the command of a client stands.
Moments == {"write", "close", "fetch", "read", "eof"}

ASSUME ProcessAssumption ==
  /\ Server \notin Clients
  /\ MaxRequests \in Nat \ {0}
  /\ Usages \subseteq [clients : SUBSET Clients, requests : 1..MaxRequests,
                      unreadable : SUBSET Requests, kills : SUBSET Moments]

VARIABLES
  usage,     \* the clients there are, the requests each of them may send, those
             \* requests with a text where a number is read, and the moments at
             \* which a client may be killed
  pipe,      \* pipe[f]: the processes with an end open and the data in it
  blocked,   \* <<process, pipe>>: opens that still wait for the other end
  server,    \* where the server loop stands
  query,     \* the requests the last fgets took from the pipe; the first counts
  client,    \* where each client stands
  sent,      \* requests each client has started
  got,       \* answers each client has read since it started its last request
  served     \* history: the requests answered, in order

vars == <<usage, pipe, blocked, server, query, client, sent, got, served>>
serverVars == <<server, query, served>>
clientVars == <<client, sent, got>>

-----------------------------------------------------------------------------
(* Named pipes. *)

NewPipe == [readers |-> {}, writers |-> {}, data |-> << >>]

OpenRead(p, f) ==
  /\ pipe' = [pipe EXCEPT ![f].readers = @ \cup {p}]
  /\ blocked' = IF pipe[f].writers = {} THEN blocked \cup {<<p, f>>}
                ELSE blocked \ {<<q, f>> : q \in pipe[f].writers}

OpenWrite(p, f) ==
  /\ pipe' = [pipe EXCEPT ![f].writers = @ \cup {p}]
  /\ blocked' = IF pipe[f].readers = {} THEN blocked \cup {<<p, f>>}
                ELSE blocked \ {<<q, f>> : q \in pipe[f].readers}

\* pipe f after p has closed its end.
Closed(p, f) ==
  LET r == pipe[f].readers \ {p}
      w == pipe[f].writers \ {p}
  IN [readers |-> r, writers |-> w,
      data |-> IF r \cup w = {} THEN << >> ELSE pipe[f].data]

Opened(p, f) == <<p, f>> \notin blocked

Close(p, f) ==
  /\ pipe' = [pipe EXCEPT ![f] = Closed(p, f)]
  /\ UNCHANGED blocked

\* Every end of a process that dies is closed.
Die(p) ==
  /\ pipe' = [f \in Pipes |-> Closed(p, f)]
  /\ blocked' = blocked \ {<<p, f>> : f \in Pipes}

Init ==
  /\ usage \in Usages
  /\ pipe = [f \in Pipes |-> NewPipe]
  /\ blocked = {}
  /\ server = "openIn"
  /\ query = << >>
  /\ client = [c \in Clients |-> "idle"]
  /\ sent = [c \in Clients |-> 0]
  /\ got = [c \in Clients |-> << >>]
  /\ served = << >>

-----------------------------------------------------------------------------
(* The loop of openPipe. *)

ServerGoes(from, to) == server = from /\ server' = to

\* Mutant: opened with O_NONBLOCK.
FopenInNonblocking ==
  /\ ServerGoes("openIn", "fgets")
  /\ pipe' = [pipe EXCEPT !["in"].readers = @ \cup {Server}]
  /\ UNCHANGED <<blocked, query, served, clientVars>>

FopenIn ==
  /\ ServerGoes("openIn", "fgets")
  /\ OpenRead(Server, "in")
  /\ UNCHANGED <<query, served, clientVars>>

\* Mutant: the data are looked at and stay in the pipe.
FgetsPeek ==
  /\ ServerGoes("fgets", "openOut")
  /\ Opened(Server, "in")
  /\ pipe["in"].data # << >>
  /\ query' = pipe["in"].data
  /\ UNCHANGED <<pipe, blocked, served, clientVars>>

\* fgets: the stdio buffer takes all there is; what follows the first line is
\* thrown away when fpin is closed.
FgetsLine ==
  /\ ServerGoes("fgets", "openOut")
  /\ Opened(Server, "in")
  /\ pipe["in"].data # << >>
  /\ query' = pipe["in"].data
  /\ pipe' = [pipe EXCEPT !["in"].data = << >>]
  /\ UNCHANGED <<blocked, served, clientVars>>

\* Mutant: NULL is not checked, and the loop goes on without a request.
FgetsUnchecked ==
  /\ ServerGoes("fgets", "openOut")
  /\ Opened(Server, "in")
  /\ pipe["in"].data = << >> /\ pipe["in"].writers = {}
  /\ UNCHANGED <<pipe, blocked, query, served, clientVars>>

\* fgets returns NULL at the end of file: LOG(FATAL) aborts.
FgetsEof ==
  /\ ServerGoes("fgets", "aborted")
  /\ Opened(Server, "in")
  /\ pipe["in"].data = << >> /\ pipe["in"].writers = {}
  /\ Die(Server)
  /\ UNCHANGED <<query, served, clientVars>>

\* Mutant: opened with O_NONBLOCK, which fails without a reader: LOG(FATAL).
FopenOutNonblocking ==
  \/ /\ pipe["out"].readers # {}
     /\ ServerGoes("openOut", "flush")
     /\ OpenWrite(Server, "out")
     /\ UNCHANGED <<query, served, clientVars>>
  \/ /\ pipe["out"].readers = {}
     /\ ServerGoes("openOut", "aborted")
     /\ Die(Server)
     /\ UNCHANGED <<query, served, clientVars>>

FopenOut ==
  /\ ServerGoes("openOut", "flush")
  /\ OpenWrite(Server, "out")
  /\ UNCHANGED <<query, served, clientVars>>

Unreadable == Head(query) \in usage.unreadable

\* handleRequest: stol throws what nobody catches, which ends the program.
HandleThrows ==
  /\ ServerGoes("flush", "terminated")
  /\ Opened(Server, "out")
  /\ Unreadable
  /\ Die(Server)
  /\ UNCHANGED <<query, served, clientVars>>

\* Mutant: the answer never leaves the stdio buffer.
FlushForgotten ==
  /\ ServerGoes("flush", "closeOut")
  /\ Opened(Server, "out")
  /\ ~Unreadable
  /\ UNCHANGED <<pipe, blocked, query, served, clientVars>>

\* handleRequest and fputs; the answer leaves the stdio buffer in fclose.
FlushAnswer ==
  /\ ServerGoes("flush", "closeOut")
  /\ Opened(Server, "out")
  /\ ~Unreadable
  /\ pipe["out"].readers # {}
  /\ pipe' = [pipe EXCEPT !["out"].data = Append(@, Head(query))]
  /\ served' = Append(served, Head(query))
  /\ UNCHANGED <<blocked, query, clientVars>>

FlushBroken ==
  /\ ServerGoes("flush", "killed")
  /\ Opened(Server, "out")
  /\ ~Unreadable
  /\ pipe["out"].readers = {}
  /\ Die(Server)
  /\ UNCHANGED <<query, served, clientVars>>

FcloseOut ==
  /\ ServerGoes("closeOut", "closeIn")
  /\ Close(Server, "out")
  /\ UNCHANGED <<query, served, clientVars>>

FcloseIn ==
  /\ ServerGoes("closeIn", "openIn")
  /\ Close(Server, "in")
  /\ query' = << >>
  /\ UNCHANGED <<served, clientVars>>

ServerStep ==
  /\ \/ FopenIn \/ FgetsLine \/ FgetsEof \/ FopenOut
     \/ HandleThrows \/ FlushAnswer \/ FlushBroken \/ FcloseOut \/ FcloseIn
  /\ UNCHANGED usage

-----------------------------------------------------------------------------
(* A client: echo request > stoap-in; cat stoap-out. *)

ClientGoes(c, from, to) ==
  /\ client[c] = from
  /\ client' = [client EXCEPT ![c] = to]

Request(c) == [client |-> c, number |-> sent[c]]

OpenRequest(c) ==
  /\ c \in usage.clients
  /\ ClientGoes(c, "idle", "write")
  /\ sent[c] < usage.requests
  /\ sent' = [sent EXCEPT ![c] = @ + 1]
  /\ got' = [got EXCEPT ![c] = << >>]
  /\ OpenWrite(c, "in")
  /\ UNCHANGED serverVars

WriteRequest(c) ==
  /\ ClientGoes(c, "write", "close")
  /\ Opened(c, "in")
  /\ pipe["in"].readers # {}
  /\ pipe' = [pipe EXCEPT !["in"].data = Append(@, Request(c))]
  /\ UNCHANGED <<blocked, serverVars, sent, got>>

WriteBroken(c) ==
  /\ ClientGoes(c, "write", "killed")
  /\ Opened(c, "in")
  /\ pipe["in"].readers = {}
  /\ Die(c)
  /\ UNCHANGED <<serverVars, sent, got>>

CloseRequest(c) ==
  /\ ClientGoes(c, "close", "fetch")
  /\ Close(c, "in")
  /\ UNCHANGED <<serverVars, sent, got>>

OpenAnswer(c) ==
  /\ ClientGoes(c, "fetch", "read")
  /\ OpenRead(c, "out")
  /\ UNCHANGED <<serverVars, sent, got>>

ReadAnswer(c) ==
  /\ client[c] = "read"
  /\ Opened(c, "out")
  /\ pipe["out"].data # << >>
  /\ got' = [got EXCEPT ![c] = @ \o pipe["out"].data]
  /\ pipe' = [pipe EXCEPT !["out"].data = << >>]
  /\ UNCHANGED <<blocked, serverVars, client, sent>>

ReadEof(c) ==
  /\ ClientGoes(c, "read", "eof")
  /\ Opened(c, "out")
  /\ pipe["out"].data = << >> /\ pipe["out"].writers = {}
  /\ UNCHANGED <<pipe, blocked, serverVars, sent, got>>

CloseAnswer(c) ==
  /\ ClientGoes(c, "eof", "idle")
  /\ Close(c, "out")
  /\ UNCHANGED <<serverVars, sent, got>>

\* The user interrupts the command.
Quit(c) ==
  /\ client[c] \in usage.kills
  /\ client' = [client EXCEPT ![c] = "idle"]
  /\ Die(c)
  /\ UNCHANGED <<serverVars, sent, got>>

ClientStep(c) ==
  /\ \/ WriteRequest(c) \/ WriteBroken(c) \/ CloseRequest(c)
     \/ OpenAnswer(c) \/ ReadAnswer(c) \/ ReadEof(c) \/ CloseAnswer(c)
  /\ UNCHANGED usage

Next ==
  \/ ServerStep
  \/ \E c \in Clients : ClientStep(c)
  \/ (\E c \in Clients : OpenRequest(c) \/ Quit(c)) /\ UNCHANGED usage

Spec == Init /\ [][Next]_vars
\* The server's thread runs whenever it is not blocked, and so does a client that
\* has begun; when the next request comes is up to the client.
FairSpec == Spec /\ WF_vars(ServerStep) /\ \A c \in Clients : WF_vars(ClientStep(c))

-----------------------------------------------------------------------------

TypeOK ==
  /\ usage \in Usages
  /\ pipe \in [Pipes -> [readers : SUBSET Procs, writers : SUBSET Procs,
                         data : Seq(Requests)]]
  /\ blocked \subseteq Procs \X Pipes
  /\ \A p \in Procs, f \in Pipes :
        ~ Opened(p, f) => p \in pipe[f].readers \cup pipe[f].writers
  /\ server \in {"openIn", "fgets", "openOut", "flush", "closeOut", "closeIn",
                 "aborted", "killed", "terminated"}
  /\ query \in Seq(Requests)
  /\ server \in {"openOut", "flush", "closeOut"} => query # << >>
  /\ client \in [Clients -> Moments \cup {"idle", "killed"}]
  /\ sent \in [Clients -> 0..MaxRequests]
  /\ got \in [Clients -> Seq(Requests)]
  /\ served \in Seq(Requests)

\* One client has the server to itself; in Alone it always waits for its answers.
Lone == \E c \in Clients : usage.clients = {c}
Alone == Lone /\ usage.kills = {}

\* A client that has the server to itself reads the answer to the request it has
\* sent last, once and nothing else (the order of fopen, fputs and fclose in
\* openPipe).
OwnAnswer == Alone => \A c \in Clients : got[c] \in {<< >>, <<Request(c)>>}

\* A single client, killed as often as one likes and started again, brings the
\* server down in three ways only: killed before it writes (the end of file at
\* fgets), killed while it reads (SIGPIPE at fclose), and by a text that is no
\* number (handleRequest).  At every other moment killing it does no harm.
StaysUp ==
  Lone => /\ server = "aborted" => "write" \in usage.kills
          /\ server = "killed" => "read" \in usage.kills
          /\ server = "terminated" => Unreadable

\* A request the server has taken from the pipe is answered when all clients wait
\* (fopen of stoap-out waits for one that fetches), unless it ends the server; with
\* several clients the server can also lose the reader it has met: one that has
\* read an earlier answer to its end and leaves (SIGPIPE at fclose).
TakenIsAnswered ==
  (usage.kills = {} /\ server = "openOut")
    ~> \/ server = "closeOut" /\ served # << >> /\ served[Len(served)] = Head(query)
       \/ server = "terminated" /\ Unreadable
       \/ server = "killed" /\ ~Lone

\* No request is answered twice and none overtakes an earlier one of its client,
\* also when clients are killed at any point (one fgets per loop, what it took is
\* thrown away with fpin).
ServedInOrder ==
  \A i, j \in DOMAIN served :
    i < j /\ served[i].client = served[j].client => served[i].number < served[j].number

HasAnswer(r) == \E i \in DOMAIN got[r.client] : got[r.client][i] = r

\* A request that reaches the pipe while the server waits in fgets is answered, to
\* the client that sent it, if it can be read (openPipe's loop with a single client).
InTimeIsAnswered ==
  \A r \in Requests :
    ( /\ Alone /\ r \notin usage.unreadable
      /\ server = "fgets" /\ \E i \in DOMAIN pipe["in"].data : pipe["in"].data[i] = r )
      ~> HasAnswer(r)

\* README: "After the request was sent to /tmp/stoap-in, one can fetch the answer
\* from /tmp/stoap-out" (the client fetches as soon as it has sent).
SentIsAnswered ==
  \A r \in Requests :
    (client[r.client] = "fetch" /\ sent[r.client] = r.number) ~> HasAnswer(r)

=============================================================================
