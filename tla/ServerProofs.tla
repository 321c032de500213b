---------------------------- MODULE ServerProofs ----------------------------
(***************************************************************************)
(* Theorems about the two halves of the server.                            *)
(*                                                                         *)
(* FifoServer, for every set of clients, any number of requests and all    *)
(* usages.  Two invariants: Inductive says in which order the requests     *)
(* pass through the pipe and the server, whoever uses it; Solo says where  *)
(* a client and the server stand that have each other to themselves,       *)
(* wherever the client may be killed, and where its request is when it     *)
(* waits for its answers.                                                  *)
(*                                                                         *)
(* Requests, for any number of dimensions and any request.  RequestIInv    *)
(* says which paths and lines each odometer has made where it stands.      *)
(***************************************************************************)
EXTENDS FifoServer, Requests, SharedLemmas, SequenceTheorems

-----------------------------------------------------------------------------
(* FifoServer. *)

\* The server has taken a request that it still has to answer.
Holds == server \in {"openOut", "flush"}

\* A process that stands behind a successful open does not wait for it any more.
Behind ==
  /\ server \in {"openOut", "flush", "closeOut", "closeIn"} => Opened(Server, "in")
  /\ server \in {"closeOut", "closeIn"} => Opened(Server, "out")
  /\ \A c \in Clients : client[c] = "close" => Opened(c, "in")
  /\ \A c \in Clients : client[c] = "eof" => Opened(c, "out")
  /\ \A c \in Clients : client[c] = "write" => sent[c] > 0

\* What is in the pipe, in the server or answered has been sent; a request that
\* is still to be written comes after all that.
Earlier(r) ==
  /\ r.number =< sent[r.client]
  /\ client[r.client] = "write" => r.number < sent[r.client]

Before(r, q) == r.client = q.client => r.number < q.number

Sent ==
  /\ \A i \in DOMAIN served : Earlier(served[i])
  /\ \A i \in DOMAIN pipe["in"].data : Earlier(pipe["in"].data[i])
  /\ Holds => Earlier(Head(query))

\* Answered requests, the one the server holds, and those in the pipe, in this order.
Ordered ==
  /\ \A i \in DOMAIN served, j \in DOMAIN pipe["in"].data : Before(served[i], pipe["in"].data[j])
  /\ Holds => /\ \A i \in DOMAIN served : Before(served[i], Head(query))
              /\ \A j \in DOMAIN pipe["in"].data : Before(Head(query), pipe["in"].data[j])

-----------------------------------------------------------------------------
(* One client c that has the server to itself. *)

In == pipe["in"]
Out == pipe["out"]
Dead == server \in {"aborted", "killed", "terminated"}

\* Who has an end open, and which opens wait.
Connected(c) ==
  /\ In.readers = IF server = "openIn" \/ Dead THEN {} ELSE {Server}
  /\ In.writers = IF client[c] \in {"write", "close"} THEN {c} ELSE {}
  /\ Out.readers = IF client[c] \in {"read", "eof"} THEN {c} ELSE {}
  /\ Out.writers = IF server \in {"flush", "closeOut"} THEN {Server} ELSE {}
  /\ In.readers = {} /\ In.writers = {} => In.data = << >>
  /\ ~ Opened(Server, "in") => server = "fgets" /\ In.writers = {} /\ In.data = << >>
  /\ ~ Opened(c, "in") => client[c] = "write" /\ In.readers = {}
  /\ ~ Opened(Server, "out") => server = "flush" /\ Out.readers = {}
  /\ ~ Opened(c, "out") => client[c] = "read" /\ Out.writers = {}

\* Where the two can meet, by the moments at which the client may be killed.
Meets(c) ==
  /\ client[c] = "close" => In.data # << >> \/ Holds \/ Dead
  /\ "write" \notin usage.kills /\ server = "fgets" /\ Opened(Server, "in")
       => In.data # << >> \/ client[c] = "write"
  /\ client[c] = "eof" \/ (client[c] = "read" /\ Opened(c, "out"))
       => \/ server \in {"flush", "closeOut", "closeIn"} \/ Dead
          \/ server \in {"openIn", "fgets"} /\ In.data = << >>
  /\ client[c] = "eof" => server \notin {"flush", "closeOut"}
  /\ "read" \notin usage.kills /\ server = "flush" /\ Opened(Server, "out")
       => client[c] = "read"
  /\ server = "aborted" => "write" \in usage.kills
  /\ server = "killed" => "read" \in usage.kills
  /\ server = "terminated" => Unreadable

Single(c) ==
  /\ Connected(c) /\ Meets(c)
  /\ \A d \in Clients \ {c} : client[d] = "idle" /\ sent[d] = 0 /\ got[d] = << >>

Answers(c) == got[c] \o Out.data

\* The request of a client that waits is in the pipe, with the server, or answered.
Course(c) ==
  /\ In.data # << >> => /\ In.data = <<Request(c)>>
                        /\ client[c] \in {"close", "fetch", "read"}
                        /\ server \in {"openIn", "fgets", "closeIn"}
                        /\ server = "openIn" => client[c] = "close"
  /\ Answers(c) = << >> \/ Answers(c) = <<Request(c)>>
  /\ In.data # << >> \/ client[c] \in {"write", "close", "fetch"} \/ ~ Opened(c, "out")
       => Answers(c) = << >>
  /\ client[c] \in {"read", "eof"} /\ Opened(c, "out") /\ server \notin {"flush", "terminated"}
       => Answers(c) # << >>
  /\ Out.data # << >> => client[c] = "read"
  /\ Holds => /\ query = <<Request(c)>> /\ In.data = << >> /\ Answers(c) = << >>
              /\ client[c] \in {"close", "fetch", "read"}
  /\ server = "closeOut" => client[c] = "read"

Solo(c) == Single(c) /\ (usage.kills = {} => Course(c))

LoneInv == \A c \in Clients : usage.clients = {c} => Solo(c)

-----------------------------------------------------------------------------
(* What the operations on pipes do, whoever calls them. *)

Ends == [readers : SUBSET Procs, writers : SUBSET Procs, data : Seq(Requests)]

PipesOK ==
  /\ pipe \in [Pipes -> Ends]
  /\ blocked \subseteq Procs \X Pipes
  /\ \A p \in Procs, f \in Pipes :
        ~ Opened(p, f) => p \in pipe[f].readers \cup pipe[f].writers

\* No data come to the pipes.
NothingNew == \A f \in Pipes : pipe'[f].data = pipe[f].data \/ pipe'[f].data = << >>

\* An open waits at most itself.
LEMMA OpenEffect ==
  ASSUME PipesOK, NEW p \in Procs, NEW f \in Pipes, OpenRead(p, f) \/ OpenWrite(p, f)
  PROVE  PipesOK' /\ NothingNew /\ blocked' \subseteq blocked \cup {<<p, f>>}
<1>1. blocked' \subseteq blocked \cup {<<p, f>>}
  BY DEF OpenRead, OpenWrite
<1>2. \A g \in Pipes : pipe[g] \in Ends
  BY DEF PipesOK
<1>3. CASE OpenRead(p, f)
  <2>1. pipe' = [pipe EXCEPT ![f].readers = @ \cup {p}]
    BY <1>3 DEF OpenRead
  <2>2. /\ pipe' \in [Pipes -> Ends]
        /\ \A g \in Pipes : /\ pipe[g].readers \subseteq pipe'[g].readers
                            /\ pipe[g].writers \subseteq pipe'[g].writers
                            /\ pipe'[g].data = pipe[g].data
        /\ p \in pipe'[f].readers
    BY <1>2, <2>1 DEF PipesOK, Ends
  <2>3. QED
    BY <1>1, <2>2 DEF PipesOK, NothingNew, Opened
<1>4. CASE OpenWrite(p, f)
  <2>1. pipe' = [pipe EXCEPT ![f].writers = @ \cup {p}]
    BY <1>4 DEF OpenWrite
  <2>2. /\ pipe' \in [Pipes -> Ends]
        /\ \A g \in Pipes : /\ pipe[g].readers \subseteq pipe'[g].readers
                            /\ pipe[g].writers \subseteq pipe'[g].writers
                            /\ pipe'[g].data = pipe[g].data
        /\ p \in pipe'[f].writers
    BY <1>2, <2>1 DEF PipesOK, Ends
  <2>3. QED
    BY <1>1, <2>2 DEF PipesOK, NothingNew, Opened
<1>5. QED
  BY <1>3, <1>4

LEMMA ClosedEnds ==
  ASSUME PipesOK, NEW p, NEW f \in Pipes
  PROVE  /\ Closed(p, f) \in Ends
         /\ Closed(p, f).readers = pipe[f].readers \ {p}
         /\ Closed(p, f).writers = pipe[f].writers \ {p}
         /\ Closed(p, f).data = pipe[f].data \/ Closed(p, f).data = << >>
<1>1. << >> \in Seq(Requests)
  BY EmptySeq
<1>2. pipe[f] \in Ends
  BY DEF PipesOK
<1>3. QED
  BY <1>1, <1>2 DEF Closed, Ends

\* A process closes an end it no longer waits for.
LEMMA CloseEffect ==
  ASSUME PipesOK, NEW p \in Procs, NEW f \in Pipes, Opened(p, f), Close(p, f)
  PROVE  PipesOK' /\ NothingNew /\ blocked' = blocked
<1>1. blocked' = blocked /\ pipe' \in [Pipes -> Ends] /\ NothingNew
  BY ClosedEnds DEF PipesOK, Close, NothingNew
<1>2. \A q \in Procs, g \in Pipes :
        <<q, g>> \in blocked => q \in pipe'[g].readers \cup pipe'[g].writers
  BY ClosedEnds DEF PipesOK, Close, Opened
<1>3. QED
  BY <1>1, <1>2 DEF PipesOK, Opened

LEMMA DieEffect ==
  ASSUME PipesOK, NEW p \in Procs, Die(p)
  PROVE  PipesOK' /\ NothingNew /\ blocked' \subseteq blocked
<1>1. blocked' \subseteq blocked /\ pipe' \in [Pipes -> Ends] /\ NothingNew
  BY ClosedEnds DEF PipesOK, Die, NothingNew
<1>2. \A q \in Procs, g \in Pipes :
        <<q, g>> \in blocked' => q \in pipe'[g].readers \cup pipe'[g].writers
  BY ClosedEnds DEF PipesOK, Die, Opened
<1>3. QED
  BY <1>1, <1>2 DEF PipesOK, Opened

\* Data are added to a pipe or taken from it.
LEMMA DataEffect ==
  ASSUME PipesOK, NEW f \in Pipes, NEW d \in Seq(Requests),
         pipe' = [pipe EXCEPT ![f].data = d], blocked' = blocked
  PROVE  /\ PipesOK'
         /\ pipe'[f].data = d
         /\ \A g \in Pipes \ {f} : pipe'[g].data = pipe[g].data
<1>1. pipe' \in [Pipes -> Ends]
  BY DEF PipesOK, Ends
<1>2. \A g \in Pipes : /\ pipe'[g].readers = pipe[g].readers
                       /\ pipe'[g].writers = pipe[g].writers
                       /\ pipe'[g].data = IF g = f THEN d ELSE pipe[g].data
  BY DEF PipesOK, Ends
<1>3. QED
  BY <1>1, <1>2 DEF PipesOK, Opened

-----------------------------------------------------------------------------
(* Where everybody stands: TypeOK and Behind are kept by every step. *)

Stands == TypeOK /\ Behind

LEMMA ActorsDiffer == Server \in Procs /\ Clients \subseteq Procs /\ Server \notin Clients
  BY ProcessAssumption DEF Procs

LEMMA TypeHasPipes == TypeOK => PipesOK
  BY DEF TypeOK, PipesOK, Ends

\* The server moves to another state and does not touch the clients.
LEMMA ServerMoves ==
  ASSUME Stands, NEW s \in {"openIn", "fgets", "openOut", "flush", "closeOut", "closeIn",
                            "aborted", "killed", "terminated"},
         PipesOK', server' = s, query' \in Seq(Requests), served' \in Seq(Requests),
         UNCHANGED <<usage, clientVars>>,
         \A c \in Clients, f \in Pipes : <<c, f>> \in blocked' => <<c, f>> \in blocked,
         s \in {"openOut", "flush", "closeOut", "closeIn"} => <<Server, "in">> \notin blocked',
         s \in {"closeOut", "closeIn"} => <<Server, "out">> \notin blocked',
         s \in {"openOut", "flush", "closeOut"} => query' # << >>
  PROVE  Stands'
<1>1. TypeOK'
  BY DEF Stands, TypeOK, PipesOK, Ends, clientVars
<1>2. Behind'
  BY DEF Stands, Behind, Opened, Pipes, clientVars
<1>3. QED
  BY <1>1, <1>2 DEF Stands

\* Client c moves to another state and does not touch the server.
LEMMA ClientMoves ==
  ASSUME Stands, NEW c \in Clients,
         NEW s \in Moments \cup {"idle", "killed"}, PipesOK', client' = [client EXCEPT ![c] = s],
         sent' \in [Clients -> 0..MaxRequests], got' \in [Clients -> Seq(Requests)],
         UNCHANGED <<usage, serverVars>>,
         \A p \in Procs, f \in Pipes : p # c /\ <<p, f>> \in blocked' => <<p, f>> \in blocked,
         s = "close" => <<c, "in">> \notin blocked',
         s = "eof" => <<c, "out">> \notin blocked',
         s = "write" => sent'[c] > 0,
         \A d \in Clients \ {c} : sent'[d] = sent[d]
  PROVE  Stands'
<1>1. TypeOK'
  BY DEF Stands, TypeOK, PipesOK, Ends, serverVars
<1>2. (server \in {"openOut", "flush", "closeOut", "closeIn"} => Opened(Server, "in"))'
  BY ActorsDiffer DEF Stands, Behind, Opened, Pipes, serverVars
<1>3. (server \in {"closeOut", "closeIn"} => Opened(Server, "out"))'
  BY ActorsDiffer DEF Stands, Behind, Opened, Pipes, serverVars
<1>4. (\A d \in Clients : client[d] = "close" => Opened(d, "in"))'
  BY ActorsDiffer DEF Stands, TypeOK, Behind, Opened, Pipes
<1>5. (\A d \in Clients : client[d] = "eof" => Opened(d, "out"))'
  BY ActorsDiffer DEF Stands, TypeOK, Behind, Opened, Pipes
<1>6. (\A d \in Clients : client[d] = "write" => sent[d] > 0)'
  BY DEF Stands, TypeOK, Behind
<1>7. QED
  BY <1>1, <1>2, <1>3, <1>4, <1>5, <1>6 DEF Stands, Behind

LEMMA InitStands == Init => Stands
<1> SUFFICES ASSUME Init PROVE Stands
  OBVIOUS
<1>1. << >> \in Seq(Requests)
  BY EmptySeq
<1>2. pipe \in [Pipes -> Ends]
  BY <1>1 DEF Init, NewPipe, Ends
<1>3. QED
  BY <1>1, <1>2, ProcessAssumption DEF Init, Stands, TypeOK, Behind, Opened, Ends

LEMMA ServerStands ==
  ASSUME Stands, ServerStep
  PROVE  Stands'
<1> USE ActorsDiffer, TypeHasPipes DEF Stands
<1>u. UNCHANGED usage /\ "in" \in Pipes /\ "out" \in Pipes
  BY DEF ServerStep, Pipes
<1>q. query \in Seq(Requests) /\ served \in Seq(Requests) /\ << >> \in Seq(Requests)
  BY EmptySeq DEF TypeOK
<1>1. CASE FopenIn
  <2>1. PipesOK' /\ blocked' \subseteq blocked \cup {<<Server, "in">>}
    BY <1>1, <1>u, OpenEffect DEF FopenIn
  <2>2. QED
    BY <1>1, <1>u, <1>q, <2>1, ServerMoves DEF FopenIn, ServerGoes
<1>2. CASE FgetsLine
  <2>1. PipesOK'
    BY <1>2, <1>u, <1>q, DataEffect DEF FgetsLine
  <2>2. query' \in Seq(Requests) /\ query' # << >>
    BY <1>2, <1>u DEF FgetsLine, TypeOK
  <2>3. QED
    BY <1>2, <1>u, <1>q, <2>1, <2>2, ServerMoves DEF FgetsLine, ServerGoes, Opened
<1>3. CASE FgetsEof
  <2>1. PipesOK' /\ blocked' \subseteq blocked
    BY <1>3, DieEffect DEF FgetsEof
  <2>2. QED
    BY <1>3, <1>u, <1>q, <2>1, ServerMoves DEF FgetsEof, ServerGoes
<1>4. CASE FopenOut
  <2>1. PipesOK' /\ blocked' \subseteq blocked \cup {<<Server, "out">>}
    BY <1>4, <1>u, OpenEffect DEF FopenOut
  <2>2. <<Server, "in">> \notin blocked /\ query # << >>
    BY <1>4 DEF FopenOut, ServerGoes, TypeOK, Behind, Opened
  <2>3. QED
    BY <1>4, <1>u, <1>q, <2>1, <2>2, ServerMoves DEF FopenOut, ServerGoes
<1>5. CASE FlushAnswer
  <2>1. query # << >> /\ Head(query) \in Requests
    BY <1>5, <1>q DEF FlushAnswer, ServerGoes, TypeOK
  <2>2. /\ pipe["out"].data \in Seq(Requests)
        /\ Append(pipe["out"].data, Head(query)) \in Seq(Requests)
        /\ Append(served, Head(query)) \in Seq(Requests)
    BY <1>u, <1>q, <2>1 DEF TypeOK
  <2>3. PipesOK'
    BY <1>5, <1>u, <2>2, DataEffect DEF FlushAnswer
  <2>4. Opened(Server, "in")
    BY <1>5 DEF FlushAnswer, ServerGoes, Behind
  <2>5. QED
    BY <1>5, <1>u, <1>q, <2>1, <2>2, <2>3, <2>4, ServerMoves DEF FlushAnswer, ServerGoes, Opened
<1>6. CASE FlushBroken
  <2>1. PipesOK' /\ blocked' \subseteq blocked
    BY <1>6, DieEffect DEF FlushBroken
  <2>2. QED
    BY <1>6, <1>u, <1>q, <2>1, ServerMoves DEF FlushBroken, ServerGoes
<1>7. CASE FcloseOut
  <2>1. Opened(Server, "in") /\ Opened(Server, "out")
    BY <1>7 DEF FcloseOut, ServerGoes, Behind
  <2>2. PipesOK' /\ blocked' = blocked
    BY <1>7, <1>u, <2>1, CloseEffect DEF FcloseOut
  <2>3. QED
    BY <1>7, <1>u, <1>q, <2>1, <2>2, ServerMoves DEF FcloseOut, ServerGoes, Opened
<1>8. CASE FcloseIn
  <2>1. Opened(Server, "in")
    BY <1>8 DEF FcloseIn, ServerGoes, Behind
  <2>2. PipesOK' /\ blocked' = blocked
    BY <1>8, <1>u, <2>1, CloseEffect DEF FcloseIn
  <2>3. QED
    BY <1>8, <1>u, <1>q, <2>2, ServerMoves DEF FcloseIn, ServerGoes
<1>9. CASE HandleThrows
  <2>1. PipesOK' /\ blocked' \subseteq blocked
    BY <1>9, DieEffect DEF HandleThrows
  <2>2. QED
    BY <1>9, <1>u, <1>q, <2>1, ServerMoves DEF HandleThrows, ServerGoes
<1>10. QED
  BY <1>1, <1>2, <1>3, <1>4, <1>5, <1>6, <1>7, <1>8, <1>9 DEF ServerStep

LEMMA ClientStands ==
  ASSUME Stands, NEW c \in Clients, UNCHANGED usage,
         ClientStep(c) \/ OpenRequest(c) \/ Quit(c)
  PROVE  Stands'
<1> USE ActorsDiffer, TypeHasPipes DEF Stands
<1>u. "in" \in Pipes /\ "out" \in Pipes
  BY DEF Pipes
<1>t. /\ client \in [Clients -> Moments \cup {"idle", "killed"}]
      /\ sent \in [Clients -> 0..MaxRequests] /\ got \in [Clients -> Seq(Requests)]
      /\ << >> \in Seq(Requests)
      /\ \A f \in Pipes : pipe[f].data \in Seq(Requests)
  BY EmptySeq DEF TypeOK
<1>1. CASE WriteRequest(c)
  <2>1. sent[c] \in 1..MaxRequests
    BY <1>1, <1>t DEF WriteRequest, ClientGoes, Behind
  <2>2. Append(pipe["in"].data, Request(c)) \in Seq(Requests)
    <3>1. Request(c) \in Requests
      BY <2>1 DEF Request, Requests
    <3>2. QED
      BY <1>u, <1>t, <3>1
  <2>3. /\ pipe' = [pipe EXCEPT !["in"].data = Append(pipe["in"].data, Request(c))]
        /\ blocked' = blocked
    BY <1>1 DEF WriteRequest
  <2>4. PipesOK'
    BY <1>u, <2>2, <2>3, DataEffect
  <2>5. QED
    BY <1>1, <1>t, <2>4, ClientMoves DEF WriteRequest, ClientGoes, Opened, Moments
<1>2. CASE WriteBroken(c)
  <2>1. PipesOK' /\ blocked' \subseteq blocked
    BY <1>2, DieEffect DEF WriteBroken
  <2>2. QED
    BY <1>2, <1>t, <2>1, ClientMoves DEF WriteBroken, ClientGoes
<1>3. CASE CloseRequest(c)
  <2>1. Opened(c, "in")
    BY <1>3 DEF CloseRequest, ClientGoes, Behind
  <2>2. PipesOK' /\ blocked' = blocked
    BY <1>3, <1>u, <2>1, CloseEffect DEF CloseRequest
  <2>3. QED
    BY <1>3, <1>t, <2>2, ClientMoves DEF CloseRequest, ClientGoes, Moments
<1>4. CASE OpenAnswer(c)
  <2>1. PipesOK' /\ blocked' \subseteq blocked \cup {<<c, "out">>}
    BY <1>4, <1>u, OpenEffect DEF OpenAnswer
  <2>2. QED
    BY <1>4, <1>t, <2>1, ClientMoves DEF OpenAnswer, ClientGoes, Moments
<1>5. CASE ReadAnswer(c)
  <2>1. PipesOK'
    BY <1>5, <1>u, <1>t, DataEffect DEF ReadAnswer
  <2>2. got' \in [Clients -> Seq(Requests)]
    BY <1>5, <1>u, <1>t DEF ReadAnswer
  <2>3. client' = [client EXCEPT ![c] = "read"]
    BY <1>5, <1>t DEF ReadAnswer
  <2>4. QED
    BY <1>5, <1>t, <2>1, <2>2, <2>3, ClientMoves DEF ReadAnswer
<1>6. CASE ReadEof(c)
  <2>1. PipesOK'
    BY <1>6 DEF ReadEof, PipesOK, Opened
  <2>2. QED
    BY <1>6, <1>t, <2>1, ClientMoves DEF ReadEof, ClientGoes, Opened, Moments
<1>7. CASE OpenRequest(c)
  <2>1. PipesOK' /\ blocked' \subseteq blocked \cup {<<c, "in">>}
    BY <1>7, <1>u, OpenEffect DEF OpenRequest
  <2>2. usage.requests \in 1..MaxRequests
    BY ProcessAssumption DEF TypeOK
  <2>3. /\ sent' \in [Clients -> 0..MaxRequests] /\ got' \in [Clients -> Seq(Requests)]
        /\ sent'[c] > 0 /\ \A d \in Clients \ {c} : sent'[d] = sent[d]
    BY <1>7, <1>t, <2>2, ProcessAssumption DEF OpenRequest
  <2>4. QED
    BY <1>7, <1>t, <2>1, <2>3, ClientMoves DEF OpenRequest, ClientGoes, Moments
<1>8. CASE Quit(c)
  <2>1. PipesOK' /\ blocked' \subseteq blocked
    BY <1>8, DieEffect DEF Quit
  <2>2. QED
    BY <1>8, <1>t, <2>1, ClientMoves DEF Quit
<1>9. CASE CloseAnswer(c)
  <2>1. Opened(c, "out")
    BY <1>9 DEF CloseAnswer, ClientGoes, Behind
  <2>2. PipesOK' /\ blocked' = blocked
    BY <1>9, <1>u, <2>1, CloseEffect DEF CloseAnswer
  <2>3. QED
    BY <1>9, <1>t, <2>2, ClientMoves DEF CloseAnswer, ClientGoes
<1>10. QED
  BY <1>1, <1>2, <1>3, <1>4, <1>5, <1>6, <1>7, <1>8, <1>9 DEF ClientStep

-----------------------------------------------------------------------------
(* The order of the requests. *)

LEMMA Taken ==
  ASSUME Stands
  PROVE  /\ \A i \in DOMAIN served : served[i] \in Requests
         /\ \A i \in DOMAIN pipe["in"].data : pipe["in"].data[i] \in Requests
         /\ Holds => Head(query) \in Requests
<1>1. /\ served \in Seq(Requests) /\ query \in Seq(Requests)
      /\ pipe["in"].data \in Seq(Requests)
  BY DEF Stands, TypeOK, Pipes
<1>2. Holds => query # << >>
  BY DEF Stands, TypeOK, Holds
<1>3. QED
  BY <1>1, <1>2

\* Most steps neither take, answer nor begin a request.
Quiet ==
  /\ pipe'["in"].data = pipe["in"].data \/ pipe'["in"].data = << >>
  /\ UNCHANGED <<served, sent>>
  /\ Holds' => Holds /\ query' = query
  /\ \A c \in Clients : client'[c] = "write" => client[c] = "write"

LEMMA QuietStep ==
  ASSUME Stands, Quiet, Sent, Ordered, ServedInOrder
  PROVE  Sent' /\ Ordered' /\ ServedInOrder'
<1>1. \A r \in Requests : Earlier(r) => Earlier(r)'
  BY DEF Quiet, Earlier, Requests
<1>2. \A i \in DOMAIN pipe'["in"].data :
        /\ i \in DOMAIN pipe["in"].data
        /\ pipe'["in"].data[i] = pipe["in"].data[i]
  BY DEF Quiet
<1>3. Sent'
  BY <1>1, <1>2, Taken DEF Quiet, Sent
<1>4. Ordered'
  BY <1>2 DEF Quiet, Ordered
<1>5. ServedInOrder'
  BY DEF Quiet, ServedInOrder
<1>6. QED
  BY <1>3, <1>4, <1>5

\* fgets takes what is in the pipe; the first of it is held.
LEMMA FgetsLineKeeps ==
  ASSUME Stands, FgetsLine, Sent, Ordered, ServedInOrder
  PROVE  Sent' /\ Ordered' /\ ServedInOrder'
<1>1. /\ pipe["in"].data \in Seq(Requests) /\ pipe["in"].data # << >>
      /\ pipe \in [Pipes -> Ends] /\ "in" \in Pipes
  BY DEF Stands, TypeOK, Pipes, Ends, FgetsLine
<1>2. /\ pipe'["in"].data = << >>
      /\ 1 \in DOMAIN pipe["in"].data
      /\ Head(query') = pipe["in"].data[1]
      /\ UNCHANGED <<served, sent, client>>
  BY <1>1 DEF FgetsLine, clientVars, Ends
<1>3. Sent'
  BY <1>2 DEF Sent, Earlier
<1>4. Ordered'
  BY <1>2 DEF Ordered
<1>5. ServedInOrder'
  BY <1>2 DEF ServedInOrder
<1>6. QED
  BY <1>3, <1>4, <1>5

\* The answered request comes after all that were answered before.
LEMMA FlushAnswerKeeps ==
  ASSUME Stands, FlushAnswer, Sent, Ordered, ServedInOrder
  PROVE  Sent' /\ Ordered' /\ ServedInOrder'
<1>1. Holds /\ ~ Holds'
  BY DEF FlushAnswer, ServerGoes, Holds
<1>2. Head(query) \in Requests /\ served \in Seq(Requests)
  BY <1>1, Taken DEF Stands, TypeOK
<1>3. /\ UNCHANGED <<sent, client>>
      /\ served' = Append(served, Head(query))
  BY DEF FlushAnswer, clientVars
<1>4. pipe'["in"].data = pipe["in"].data
  BY DEF FlushAnswer, Stands, TypeOK, Pipes
<1>5. \A i \in DOMAIN served' :
        \/ i \in DOMAIN served /\ served'[i] = served[i]
        \/ i = Len(served) + 1 /\ served'[i] = Head(query)
  BY <1>2, <1>3
<1>6. Sent'
  BY <1>1, <1>3, <1>4, <1>5 DEF Sent, Earlier
<1>7. Ordered'
  BY <1>1, <1>4, <1>5 DEF Ordered
<1>8. ServedInOrder'
  <2> SUFFICES ASSUME NEW i \in DOMAIN served', NEW j \in DOMAIN served', i < j,
                      served'[i].client = served'[j].client
               PROVE  served'[i].number < served'[j].number
    BY DEF ServedInOrder
  <2>1. i \in DOMAIN served /\ served'[i] = served[i]
    BY <1>2, <1>3, <1>5
  <2>2. CASE j \in DOMAIN served /\ served'[j] = served[j]
    BY <2>1, <2>2 DEF ServedInOrder
  <2>3. CASE j = Len(served) + 1 /\ served'[j] = Head(query)
    BY <1>1, <2>1, <2>3 DEF Ordered, Before
  <2>4. QED
    BY <1>5, <2>2, <2>3
<1>9. QED
  BY <1>6, <1>7, <1>8

\* The next request of a client has a number above all of its earlier ones.
LEMMA OpenRequestKeeps ==
  ASSUME Stands, NEW c \in Clients, OpenRequest(c), Sent, Ordered, ServedInOrder
  PROVE  Sent' /\ Ordered' /\ ServedInOrder'
<1>1. pipe'["in"].data = pipe["in"].data
  BY DEF OpenRequest, OpenWrite, Stands, TypeOK, Pipes
<1>2. /\ UNCHANGED <<served, query, server>>
      /\ sent' = [sent EXCEPT ![c] = @ + 1] /\ client' = [client EXCEPT ![c] = "write"]
  BY DEF OpenRequest, ClientGoes, serverVars
<1>3. \A r \in Requests : Earlier(r) => Earlier(r)'
  BY <1>2 DEF Earlier, Requests, Stands, TypeOK
<1>4. Sent'
  BY <1>1, <1>2, <1>3, Taken DEF Sent, Holds
<1>5. Ordered' /\ ServedInOrder'
  BY <1>1, <1>2 DEF Ordered, ServedInOrder, Holds
<1>6. QED
  BY <1>4, <1>5

\* A client writes a request that comes after all it has sent before.
LEMMA WriteRequestKeeps ==
  ASSUME Stands, NEW c \in Clients, WriteRequest(c), Sent, Ordered, ServedInOrder
  PROVE  Sent' /\ Ordered' /\ ServedInOrder'
<1>1. /\ pipe["in"].data \in Seq(Requests) /\ pipe \in [Pipes -> Ends] /\ "in" \in Pipes
      /\ client \in [Clients -> Moments \cup {"idle", "killed"}]
      /\ sent \in [Clients -> 0..MaxRequests]
  BY DEF Stands, TypeOK, Pipes, Ends
<1>2. /\ client[c] = "write" /\ client' = [client EXCEPT ![c] = "close"]
      /\ UNCHANGED <<served, query, server, sent>>
      /\ pipe'["in"].data = Append(pipe["in"].data, Request(c))
  BY <1>1 DEF WriteRequest, ClientGoes, serverVars, Ends
<1>3. \A i \in DOMAIN pipe'["in"].data :
        \/ /\ i \in DOMAIN pipe["in"].data
           /\ pipe'["in"].data[i] = pipe["in"].data[i]
        \/ pipe'["in"].data[i] = Request(c)
  BY <1>1, <1>2
<1>4. \A r \in Requests : Earlier(r) => Earlier(r)' /\ Before(r, Request(c))
  BY <1>1, <1>2 DEF Earlier, Before, Request, Requests
<1>5. Earlier(Request(c))'
  BY <1>1, <1>2 DEF Earlier, Request
<1>6. Sent'
  BY <1>2, <1>3, <1>4, <1>5, Taken DEF Sent, Holds, Request
<1>7. Ordered'
  BY <1>2, <1>3, <1>4, Taken DEF Sent, Ordered, Holds
<1>8. ServedInOrder'
  BY <1>2 DEF ServedInOrder
<1>9. QED
  BY <1>6, <1>7, <1>8

-----------------------------------------------------------------------------
(* Every step keeps the invariant. *)

Inductive == Stands /\ Sent /\ Ordered /\ ServedInOrder

LEMMA InitInductive == Init => Inductive
<1> SUFFICES ASSUME Init PROVE Inductive
  OBVIOUS
<1>1. Stands
  BY InitStands
<1>2. served = << >> /\ pipe["in"].data = << >> /\ ~ Holds
  BY DEF Init, NewPipe, Pipes, Holds
<1>3. QED
  BY <1>1, <1>2 DEF Inductive, Sent, Ordered, ServedInOrder

LEMMA ServerKeeps ==
  ASSUME Inductive, ServerStep
  PROVE  Inductive'
<1> USE ActorsDiffer, TypeHasPipes DEF Stands
<1>s. Stands'
  BY ServerStands DEF Inductive
<1>u. PipesOK /\ "in" \in Pipes /\ "out" \in Pipes
  BY DEF Inductive, Pipes
<1>1. CASE FgetsLine
  BY <1>1, <1>s, FgetsLineKeeps DEF Inductive
<1>2. CASE FlushAnswer
  BY <1>2, <1>s, FlushAnswerKeeps DEF Inductive
<1>3. ASSUME Quiet PROVE Inductive'
  BY <1>3, <1>s, QuietStep DEF Inductive
<1>4. CASE FopenIn
  <2>1. NothingNew
    BY <1>4, <1>u, OpenEffect DEF FopenIn
  <2>2. QED
    BY <1>3, <1>4, <1>u, <2>1 DEF FopenIn, ServerGoes, NothingNew, Quiet, Holds, clientVars
<1>5. CASE FopenOut
  <2>1. NothingNew
    BY <1>5, <1>u, OpenEffect DEF FopenOut
  <2>2. QED
    BY <1>3, <1>5, <1>u, <2>1 DEF FopenOut, ServerGoes, NothingNew, Quiet, Holds, clientVars
<1>6. CASE FgetsEof
  <2>1. NothingNew
    BY <1>6, <1>u, DieEffect DEF FgetsEof
  <2>2. QED
    BY <1>3, <1>6, <1>u, <2>1 DEF FgetsEof, ServerGoes, NothingNew, Quiet, Holds, clientVars
<1>7. CASE FlushBroken
  <2>1. NothingNew
    BY <1>7, <1>u, DieEffect DEF FlushBroken
  <2>2. QED
    BY <1>3, <1>7, <1>u, <2>1 DEF FlushBroken, ServerGoes, NothingNew, Quiet, Holds, clientVars
<1>8. CASE FcloseOut
  <2>1. Opened(Server, "out")
    BY <1>8 DEF FcloseOut, ServerGoes, Inductive, Behind
  <2>2. NothingNew
    BY <1>8, <1>u, <2>1, CloseEffect DEF FcloseOut
  <2>3. QED
    BY <1>3, <1>8, <1>u, <2>2 DEF FcloseOut, ServerGoes, NothingNew, Quiet, Holds, clientVars
<1>9. CASE FcloseIn
  <2>1. Opened(Server, "in")
    BY <1>9 DEF FcloseIn, ServerGoes, Inductive, Behind
  <2>2. NothingNew
    BY <1>9, <1>u, <2>1, CloseEffect DEF FcloseIn
  <2>3. QED
    BY <1>3, <1>9, <1>u, <2>2 DEF FcloseIn, ServerGoes, NothingNew, Quiet, Holds, clientVars
<1>10. CASE HandleThrows
  <2>1. NothingNew
    BY <1>10, <1>u, DieEffect DEF HandleThrows
  <2>2. QED
    BY <1>3, <1>10, <1>u, <2>1 DEF HandleThrows, ServerGoes, NothingNew, Quiet, Holds, clientVars
<1>11. QED
  BY <1>1, <1>2, <1>4, <1>5, <1>6, <1>7, <1>8, <1>9, <1>10 DEF ServerStep

LEMMA ClientKeeps ==
  ASSUME Inductive, NEW c \in Clients, UNCHANGED usage,
         ClientStep(c) \/ OpenRequest(c) \/ Quit(c)
  PROVE  Inductive'
<1> USE ActorsDiffer, TypeHasPipes DEF Stands
<1>s. Stands'
  BY ClientStands DEF Inductive
<1>u. /\ PipesOK /\ "in" \in Pipes /\ "out" \in Pipes
      /\ pipe \in [Pipes -> Ends]
      /\ client \in [Clients -> Moments \cup {"idle", "killed"}]
  BY DEF Inductive, Pipes, PipesOK, TypeOK
<1>1. CASE OpenRequest(c)
  BY <1>1, <1>s, OpenRequestKeeps DEF Inductive
<1>2. CASE WriteRequest(c)
  BY <1>2, <1>s, WriteRequestKeeps DEF Inductive
<1>3. ASSUME Quiet PROVE Inductive'
  BY <1>3, <1>s, QuietStep DEF Inductive
<1>4. CASE WriteBroken(c)
  <2>1. NothingNew
    BY <1>4, <1>u, DieEffect DEF WriteBroken
  <2>2. QED
    BY <1>3, <1>4, <1>u, <2>1
    DEF WriteBroken, ClientGoes, NothingNew, Quiet, Holds, serverVars
<1>5. CASE CloseRequest(c)
  <2>1. Opened(c, "in")
    BY <1>5 DEF CloseRequest, ClientGoes, Inductive, Behind
  <2>2. NothingNew
    BY <1>5, <1>u, <2>1, CloseEffect DEF CloseRequest
  <2>3. QED
    BY <1>3, <1>5, <1>u, <2>2
    DEF CloseRequest, ClientGoes, NothingNew, Quiet, Holds, serverVars
<1>6. CASE OpenAnswer(c)
  <2>1. NothingNew
    BY <1>6, <1>u, OpenEffect DEF OpenAnswer
  <2>2. QED
    BY <1>3, <1>6, <1>u, <2>1
    DEF OpenAnswer, ClientGoes, NothingNew, Quiet, Holds, serverVars
<1>7. CASE ReadAnswer(c)
  <2>1. pipe'["in"] = pipe["in"]
    BY <1>7, <1>u DEF ReadAnswer
  <2>2. QED
    BY <1>3, <1>7, <2>1 DEF ReadAnswer, Quiet, Holds, serverVars
<1>8. CASE ReadEof(c)
  BY <1>3, <1>8, <1>u DEF ReadEof, ClientGoes, Quiet, Holds, serverVars
<1>9. CASE Quit(c)
  <2>1. NothingNew
    BY <1>9, <1>u, DieEffect DEF Quit
  <2>2. QED
    BY <1>3, <1>9, <1>u, <2>1 DEF Quit, NothingNew, Quiet, Holds, serverVars
<1>10. CASE CloseAnswer(c)
  <2>1. Opened(c, "out")
    BY <1>10 DEF CloseAnswer, ClientGoes, Inductive, Behind
  <2>2. NothingNew
    BY <1>10, <1>u, <2>1, CloseEffect DEF CloseAnswer
  <2>3. QED
    BY <1>3, <1>10, <1>u, <2>2
    DEF CloseAnswer, ClientGoes, NothingNew, Quiet, Holds, serverVars
<1>11. QED
  BY <1>1, <1>2, <1>4, <1>5, <1>6, <1>7, <1>8, <1>9, <1>10 DEF ClientStep

LEMMA Invariance == Spec => []Inductive
<1>1. Init => Inductive
  BY InitInductive
<1>2. Inductive /\ [Next]_vars => Inductive'
  <2> SUFFICES ASSUME Inductive, [Next]_vars PROVE Inductive'
    OBVIOUS
  <2>1. CASE Next
    BY <2>1, ServerKeeps, ClientKeeps DEF Next, ClientStep
  <2>2. CASE UNCHANGED vars
    <3>1. Stands'
      BY <2>2 DEF Inductive, Stands, TypeOK, Behind, Opened, vars
    <3>2. Quiet
      BY <2>2 DEF vars, Quiet, Holds
    <3>3. QED
      BY <3>1, <3>2, QuietStep DEF Inductive
  <2>3. QED
    BY <2>1, <2>2
<1>3. QED
  BY <1>1, <1>2, PTL DEF Spec

\* The types of the clients, the pipes and the server hold for every set of
\* clients and all usages, killed clients included; in particular only a process
\* that has an end of a pipe open waits for the other end (fopen in openPipe).
THEOREM TypeCorrect == Spec => []TypeOK
<1>1. Inductive => TypeOK
  BY DEF Inductive, Stands
<1>2. QED
  BY <1>1, Invariance, PTL

\* openPipe answers no request twice and none before an earlier one of the same
\* client, however many clients there are and wherever they are killed.
THEOREM ServedOrder == Spec => []ServedInOrder
<1>1. Inductive => ServedInOrder
  BY DEF Inductive
<1>2. QED
  BY <1>1, Invariance, PTL

-----------------------------------------------------------------------------
(* A lone client: what the operations do to the two pipes. *)

LEMMA OpenReadPrecise ==
  ASSUME PipesOK, NEW p \in Procs, NEW f \in Pipes, OpenRead(p, f)
  PROVE  /\ pipe'[f] = [readers |-> pipe[f].readers \cup {p}, writers |-> pipe[f].writers,
                        data |-> pipe[f].data]
         /\ \A g \in Pipes \ {f} : pipe'[g] = pipe[g]
         /\ \A q \in Procs, g \in Pipes :
              <<q, g>> \in blocked' <=>
                IF pipe[f].writers = {} THEN <<q, g>> \in blocked \/ (q = p /\ g = f)
                ELSE <<q, g>> \in blocked /\ ~ (g = f /\ q \in pipe[f].writers)
<1>1. pipe \in [Pipes -> Ends] /\ pipe' = [pipe EXCEPT ![f].readers = @ \cup {p}]
  BY DEF PipesOK, OpenRead
<1>2. /\ pipe'[f] = [readers |-> pipe[f].readers \cup {p}, writers |-> pipe[f].writers,
                     data |-> pipe[f].data]
      /\ \A g \in Pipes \ {f} : pipe'[g] = pipe[g]
  BY <1>1 DEF Ends
<1>3. QED
  BY <1>2 DEF OpenRead

LEMMA OpenWritePrecise ==
  ASSUME PipesOK, NEW p \in Procs, NEW f \in Pipes, OpenWrite(p, f)
  PROVE  /\ pipe'[f] = [readers |-> pipe[f].readers, writers |-> pipe[f].writers \cup {p},
                        data |-> pipe[f].data]
         /\ \A g \in Pipes \ {f} : pipe'[g] = pipe[g]
         /\ \A q \in Procs, g \in Pipes :
              <<q, g>> \in blocked' <=>
                IF pipe[f].readers = {} THEN <<q, g>> \in blocked \/ (q = p /\ g = f)
                ELSE <<q, g>> \in blocked /\ ~ (g = f /\ q \in pipe[f].readers)
<1>1. pipe \in [Pipes -> Ends] /\ pipe' = [pipe EXCEPT ![f].writers = @ \cup {p}]
  BY DEF PipesOK, OpenWrite
<1>2. /\ pipe'[f] = [readers |-> pipe[f].readers, writers |-> pipe[f].writers \cup {p},
                     data |-> pipe[f].data]
      /\ \A g \in Pipes \ {f} : pipe'[g] = pipe[g]
  BY <1>1 DEF Ends
<1>3. QED
  BY <1>2 DEF OpenWrite

LEMMA DataPrecise ==
  ASSUME PipesOK, NEW f \in Pipes, NEW d, pipe' = [pipe EXCEPT ![f].data = d]
  PROVE  /\ pipe'[f] = [readers |-> pipe[f].readers, writers |-> pipe[f].writers, data |-> d]
         /\ \A g \in Pipes \ {f} : pipe'[g] = pipe[g]
  BY DEF PipesOK, Ends

LEMMA ClosePrecise ==
  ASSUME PipesOK, NEW p \in Procs, NEW f \in Pipes, Close(p, f)
  PROVE  /\ pipe'[f] = [readers |-> pipe[f].readers \ {p}, writers |-> pipe[f].writers \ {p},
                        data |-> IF pipe[f].readers \subseteq {p} /\ pipe[f].writers \subseteq {p}
                                 THEN << >> ELSE pipe[f].data]
         /\ \A g \in Pipes \ {f} : pipe'[g] = pipe[g]
         /\ blocked' = blocked
<1>1. pipe \in [Pipes -> Ends] /\ pipe' = [pipe EXCEPT ![f] = Closed(p, f)]
  BY DEF PipesOK, Close
<1>2. pipe'[f] = Closed(p, f) /\ \A g \in Pipes \ {f} : pipe'[g] = pipe[g]
  BY <1>1
<1>3. (pipe[f].readers \ {p}) \cup (pipe[f].writers \ {p}) = {}
        <=> pipe[f].readers \subseteq {p} /\ pipe[f].writers \subseteq {p}
  OBVIOUS
<1>4. QED
  BY <1>2, <1>3 DEF Closed, Close

LEMMA DiePrecise ==
  ASSUME PipesOK, NEW p \in Procs, Die(p), NEW f \in Pipes
  PROVE  /\ pipe'[f] = [readers |-> pipe[f].readers \ {p}, writers |-> pipe[f].writers \ {p},
                        data |-> IF pipe[f].readers \subseteq {p} /\ pipe[f].writers \subseteq {p}
                                 THEN << >> ELSE pipe[f].data]
         /\ \A q \in Procs, g \in Pipes : <<q, g>> \in blocked' <=> <<q, g>> \in blocked /\ q # p
<1>1. pipe'[f] = Closed(p, f)
  BY DEF Die
<1>2. (pipe[f].readers \ {p}) \cup (pipe[f].writers \ {p}) = {}
        <=> pipe[f].readers \subseteq {p} /\ pipe[f].writers \subseteq {p}
  OBVIOUS
<1>3. QED
  BY <1>1, <1>2 DEF Closed, Die

-----------------------------------------------------------------------------
(* A lone client: the steps of the server. *)

LEMMA Fixed ==
  ASSUME Stands, NEW c \in Clients
  PROVE  /\ PipesOK /\ "in" \in Pipes \ {"out"} /\ "out" \in Pipes \ {"in"}
         /\ Server \in Procs /\ c \in Procs /\ Server # c
         /\ got[c] \in Seq(Requests) /\ Out.data \in Seq(Requests)
  BY ActorsDiffer, TypeHasPipes DEF Stands, TypeOK, Pipes, Out

\* The server connects to a client that waits, or waits itself.
LEMMA FopenInSolo ==
  ASSUME Stands, NEW c \in Clients, Solo(c), FopenIn, UNCHANGED usage
  PROVE  Solo(c)'
<1>1. /\ server = "openIn" /\ server' = "fgets"
      /\ UNCHANGED <<query, served, client, sent, got>>
      /\ OpenRead(Server, "in")
  BY DEF FopenIn, ServerGoes, clientVars
<1>2. /\ In' = [readers |-> In.readers \cup {Server}, writers |-> In.writers, data |-> In.data]
      /\ Out' = Out
      /\ \A q \in Procs, g \in Pipes :
           <<q, g>> \in blocked' <=>
             IF In.writers = {} THEN <<q, g>> \in blocked \/ (q = Server /\ g = "in")
             ELSE <<q, g>> \in blocked /\ ~ (g = "in" /\ q \in In.writers)
  BY <1>1, Fixed, OpenReadPrecise DEF In, Out
<1>3. Connected(c)'
  BY <1>1, <1>2, Fixed DEF Solo, Single, Connected, Opened, Dead
<1>4. /\ In'.data = In.data /\ Out'.data = Out.data /\ ~ Holds /\ ~ Holds'
      /\ Opened(c, "out")' = Opened(c, "out")
  BY <1>1, <1>2, Fixed DEF Opened, Holds
<1>5. Opened(Server, "in")' => client[c] \in {"write", "close"}
  BY <1>1, <1>2, Fixed DEF Solo, Single, Connected, Opened
<1>6. Meets(c)'
  BY <1>1, <1>4, <1>5 DEF Solo, Single, Meets, Holds, Dead
<1>7. ASSUME Course(c) PROVE Course(c)'
  <2>1. Answers(c)' = Answers(c) /\ Request(c)' = Request(c)
    BY <1>1, <1>2 DEF Answers, Request
  <2>2. QED
    BY <1>1, <1>4, <1>7, <2>1 DEF Course, Holds
<1>8. QED
  BY <1>1, <1>3, <1>6, <1>7 DEF Solo, Single

\* The server takes the request.
LEMMA FgetsLineSolo ==
  ASSUME Stands, NEW c \in Clients, Solo(c), FgetsLine, UNCHANGED usage
  PROVE  Solo(c)'
<1>1. /\ server = "fgets" /\ server' = "openOut" /\ query' = In.data
      /\ UNCHANGED <<blocked, served, client, sent, got>>
      /\ In.data # << >> /\ Opened(Server, "in")
      /\ pipe' = [pipe EXCEPT !["in"].data = << >>]
  BY DEF FgetsLine, ServerGoes, clientVars, In
<1>2. /\ In' = [readers |-> In.readers, writers |-> In.writers, data |-> << >>]
      /\ Out' = Out
  BY <1>1, Fixed, DataPrecise DEF In, Out
<1>3. Connected(c)'
  BY <1>1, <1>2, Fixed DEF Solo, Single, Connected, Opened, Dead
<1>4. Meets(c)'
  BY <1>1, <1>2 DEF Solo, Single, Meets, Opened, Holds, Dead
<1>5. ASSUME Course(c) PROVE Course(c)'
  BY <1>1, <1>2, <1>5, Fixed DEF Solo, Single, Connected, Course, Opened, Answers, Request, Holds
<1>6. QED
  BY <1>1, <1>3, <1>4, <1>5 DEF Solo, Single

\* The server ends, for one of the three reasons.
LEMMA ServerDies ==
  ASSUME Stands, NEW c \in Clients, Solo(c),
         \/ server = "fgets" /\ server' = "aborted" /\ "write" \in usage.kills
         \/ server = "flush" /\ server' = "killed" /\ "read" \in usage.kills
         \/ server = "flush" /\ server' = "terminated" /\ Unreadable,
         Die(Server), UNCHANGED <<usage, query, client, sent, got>>
  PROVE  Solo(c)'
<1>1. In' = [readers |-> In.readers \ {Server}, writers |-> In.writers \ {Server},
             data |-> IF In.readers \subseteq {Server} /\ In.writers \subseteq {Server}
                      THEN << >> ELSE In.data]
  BY Fixed, DiePrecise DEF In
<1>2. Out' = [readers |-> Out.readers \ {Server}, writers |-> Out.writers \ {Server},
              data |-> IF Out.readers \subseteq {Server} /\ Out.writers \subseteq {Server}
                       THEN << >> ELSE Out.data]
  BY Fixed, DiePrecise DEF Out
<1>3. \A q \in Procs, g \in Pipes : <<q, g>> \in blocked' <=> <<q, g>> \in blocked /\ q # Server
  BY Fixed, DiePrecise
<1>4. Connected(c)'
  <2>1. In.readers = {Server} /\ In.writers \subseteq {c} /\ Out.writers \subseteq {Server}
    BY DEF Solo, Single, Connected, Dead
  <2>2. /\ In'.readers = {} /\ In'.writers = In.writers
        /\ In.writers = {} => In'.data = << >>
        /\ Out'.readers = Out.readers /\ Out'.writers = {}
    <3>1. Out.readers \subseteq {c}
      BY DEF Solo, Single, Connected
    <3>2. QED
      BY <1>1, <1>2, <2>1, <3>1, Fixed
  <2>3. QED
    BY <1>3, <2>1, <2>2, Fixed DEF Solo, Single, Connected, Opened, Dead
<1>5. Meets(c)'
  BY DEF Meets, Dead, Unreadable
<1>6. ASSUME usage.kills = {}, Course(c) PROVE Course(c)'
  <2>1. server = "flush" /\ server' = "terminated" /\ Holds
    BY <1>6 DEF Holds
  <2>2. In.data = << >> /\ Answers(c) = << >>
    BY <1>6, <2>1 DEF Course
  <2>3. got[c] = << >> /\ Out.data = << >>
    BY <2>2, Fixed, ConcatEqualIffEmpty DEF Answers
  <2>4. In'.data = << >> /\ Out'.data = << >> /\ Answers(c)' = << >>
    BY <1>1, <1>2, <2>2, <2>3 DEF Answers
  <2>5. QED
    BY <2>1, <2>4 DEF Course, Holds
<1>7. QED
  BY <1>4, <1>5, <1>6 DEF Solo, Single

\* The end of file meets a client that was killed before it wrote.
LEMMA FgetsEofSolo ==
  ASSUME Stands, NEW c \in Clients, Solo(c), FgetsEof, UNCHANGED usage
  PROVE  Solo(c)'
<1>1. /\ server = "fgets" /\ server' = "aborted"
      /\ UNCHANGED <<query, client, sent, got>> /\ Die(Server)
      /\ Opened(Server, "in") /\ In.data = << >> /\ In.writers = {}
  BY DEF FgetsEof, ServerGoes, clientVars, In
<1>2. "write" \in usage.kills
  BY <1>1 DEF Solo, Single, Connected, Meets
<1>3. QED
  BY <1>1, <1>2, ServerDies

\* The server connects to the client if that has opened stoap-out.
LEMMA FopenOutSolo ==
  ASSUME Stands, NEW c \in Clients, Solo(c), FopenOut, UNCHANGED usage
  PROVE  Solo(c)'
<1>1. /\ server = "openOut" /\ server' = "flush"
      /\ UNCHANGED <<query, served, client, sent, got>>
      /\ OpenWrite(Server, "out")
  BY DEF FopenOut, ServerGoes, clientVars
<1>2. /\ Out' = [readers |-> Out.readers, writers |-> Out.writers \cup {Server}, data |-> Out.data]
      /\ In' = In
      /\ \A q \in Procs, g \in Pipes :
           <<q, g>> \in blocked' <=>
             IF Out.readers = {} THEN <<q, g>> \in blocked \/ (q = Server /\ g = "out")
             ELSE <<q, g>> \in blocked /\ ~ (g = "out" /\ q \in Out.readers)
  BY <1>1, Fixed, OpenWritePrecise DEF In, Out
<1>3. Connected(c)'
  BY <1>1, <1>2, Fixed DEF Solo, Single, Connected, Opened, Dead
<1>4. Meets(c)'
  <2>1. client[c] # "eof" /\ (client[c] = "read" => ~ Opened(c, "out"))
    BY <1>1 DEF Solo, Single, Meets, Dead
  <2>2. Opened(Server, "out")' => client[c] = "read"
    BY <1>1, <1>2, <2>1, Fixed DEF Solo, Single, Connected, Opened
  <2>3. QED
    BY <1>1, <2>1, <2>2 DEF Solo, Single, Meets, Holds, Dead
<1>5. ASSUME Course(c) PROVE Course(c)'
  BY <1>1, <1>2, <1>5, Fixed DEF Course, Opened, Answers, Request, Holds
<1>6. QED
  BY <1>1, <1>3, <1>4, <1>5 DEF Solo, Single

\* handleRequest throws for a text that is no number.
LEMMA HandleThrowsSolo ==
  ASSUME Stands, NEW c \in Clients, Solo(c), HandleThrows, UNCHANGED usage
  PROVE  Solo(c)'
  BY ServerDies DEF HandleThrows, ServerGoes, clientVars

\* The answer is for the client and the only one.
LEMMA FlushAnswerSolo ==
  ASSUME Stands, NEW c \in Clients, Solo(c), FlushAnswer, UNCHANGED usage
  PROVE  Solo(c)'
<1>1. /\ server = "flush" /\ server' = "closeOut"
      /\ UNCHANGED <<blocked, query, client, sent, got>>
      /\ Opened(Server, "out") /\ Out.readers # {}
      /\ pipe' = [pipe EXCEPT !["out"].data = Append(Out.data, Head(query))]
  BY DEF FlushAnswer, ServerGoes, clientVars, Out
<1>2. /\ Out' = [readers |-> Out.readers, writers |-> Out.writers,
                 data |-> Append(Out.data, Head(query))]
      /\ In' = In
  BY <1>1, Fixed, DataPrecise DEF In, Out
<1>3. Connected(c)'
  BY <1>1, <1>2, Fixed DEF Solo, Single, Connected, Opened, Dead
<1>4. client[c] = "read"
  BY <1>1 DEF Solo, Single, Connected, Meets
<1>5. Meets(c)'
  BY <1>1, <1>4 DEF Solo, Single, Meets, Holds, Dead
<1>6. ASSUME Course(c) PROVE Course(c)'
  <2>1. Head(query) = Request(c) /\ Answers(c) = << >> /\ Request(c) \in Requests
    <3>1. query = <<Request(c)>> /\ Answers(c) = << >> /\ Holds
      BY <1>1, <1>6 DEF Course, Holds
    <3>2. Head(query) \in Requests
      BY <3>1, Taken
    <3>3. QED
      BY <3>1, <3>2
  <2>2. Answers(c)' = <<Request(c)>>
    <3>1. got[c] = << >> /\ Out.data = << >>
      BY <2>1, Fixed, ConcatEqualIffEmpty DEF Answers
    <3>2. Out'.data = <<Request(c)>> /\ got'[c] = << >>
      BY <1>1, <1>2, <2>1, <3>1
    <3>3. QED
      BY <2>1, <3>2 DEF Answers
  <2>3. In.data = << >> /\ In'.data = << >> /\ Opened(c, "out")
    BY <1>1, <1>2, <1>6 DEF Course, Holds, Solo, Single, Connected
  <2>4. QED
    BY <1>1, <1>4, <2>2, <2>3 DEF Course, Opened, Request, Holds
<1>7. QED
  BY <1>1, <1>3, <1>5, <1>6 DEF Solo, Single

\* SIGPIPE meets the server when the client was killed while it read.
LEMMA FlushBrokenSolo ==
  ASSUME Stands, NEW c \in Clients, Solo(c), FlushBroken, UNCHANGED usage
  PROVE  Solo(c)'
<1>1. /\ server = "flush" /\ server' = "killed"
      /\ UNCHANGED <<query, client, sent, got>> /\ Die(Server)
      /\ Opened(Server, "out") /\ Out.readers = {}
  BY DEF FlushBroken, ServerGoes, clientVars, Out
<1>2. "read" \in usage.kills
  BY <1>1 DEF Solo, Single, Connected, Meets
<1>3. QED
  BY <1>1, <1>2, ServerDies

\* The answer stays in the pipe while the client has it open.
LEMMA FcloseOutSolo ==
  ASSUME Stands, NEW c \in Clients, Solo(c), FcloseOut, UNCHANGED usage
  PROVE  Solo(c)'
<1>1. /\ server = "closeOut" /\ server' = "closeIn"
      /\ UNCHANGED <<query, served, client, sent, got>>
      /\ Close(Server, "out")
  BY DEF FcloseOut, ServerGoes, clientVars
<1>2. /\ Out' = [readers |-> Out.readers \ {Server}, writers |-> Out.writers \ {Server},
                 data |-> IF Out.readers \subseteq {Server} /\ Out.writers \subseteq {Server}
                          THEN << >> ELSE Out.data]
      /\ In' = In /\ blocked' = blocked
  BY <1>1, Fixed, ClosePrecise DEF In, Out
<1>3. Out.readers \subseteq {c} /\ Out.writers = {Server}
  BY <1>1 DEF Solo, Single, Connected
<1>4. Out'.readers = Out.readers /\ Out'.writers = {}
  BY <1>2, <1>3, Fixed
<1>5. Connected(c)'
  BY <1>1, <1>2, <1>4, Fixed DEF Solo, Single, Connected, Opened, Dead
<1>6. Meets(c)'
  BY <1>1, <1>2 DEF Solo, Single, Meets, Holds, Dead, Opened
<1>7. ASSUME Course(c) PROVE Course(c)'
  <2>1. client[c] = "read" /\ Out.readers = {c}
    BY <1>1, <1>7 DEF Course, Solo, Single, Connected
  <2>2. Out'.data = Out.data
    BY <1>2, <2>1, Fixed
  <2>3. Answers(c)' = Answers(c) /\ Request(c)' = Request(c)
    BY <1>1, <2>2 DEF Answers, Request
  <2>4. QED
    BY <1>1, <1>2, <1>7, <2>1, <2>2, <2>3 DEF Course, Opened, Holds
<1>8. QED
  BY <1>1, <1>5, <1>6, <1>7 DEF Solo, Single

\* A request stays in the pipe only while the client has it open.
LEMMA FcloseInSolo ==
  ASSUME Stands, NEW c \in Clients, Solo(c), FcloseIn, UNCHANGED usage
  PROVE  Solo(c)'
<1>1. /\ server = "closeIn" /\ server' = "openIn"
      /\ UNCHANGED <<served, client, sent, got>>
      /\ Close(Server, "in")
  BY DEF FcloseIn, ServerGoes, clientVars
<1>2. /\ In' = [readers |-> In.readers \ {Server}, writers |-> In.writers \ {Server},
                data |-> IF In.readers \subseteq {Server} /\ In.writers \subseteq {Server}
                         THEN << >> ELSE In.data]
      /\ Out' = Out /\ blocked' = blocked
  BY <1>1, Fixed, ClosePrecise DEF In, Out
<1>3. In.readers = {Server} /\ In.writers = IF client[c] \in {"write", "close"} THEN {c} ELSE {}
  BY <1>1 DEF Solo, Single, Connected, Dead
<1>4. In' = [readers |-> {}, writers |-> In.writers,
             data |-> IF In.writers = {} THEN << >> ELSE In.data]
  BY <1>2, <1>3, Fixed
<1>5. Connected(c)'
  BY <1>1, <1>2, <1>3, <1>4, Fixed DEF Solo, Single, Connected, Opened, Dead
<1>6. /\ In'.data = IF client[c] \in {"write", "close"} THEN In.data ELSE << >>
      /\ Out'.data = Out.data /\ ~ Holds /\ ~ Holds'
      /\ Opened(c, "out")' = Opened(c, "out")
  BY <1>1, <1>2, <1>3, <1>4 DEF Holds, Opened
<1>7. Meets(c)'
  BY <1>1, <1>6 DEF Solo, Single, Meets, Dead
<1>8. ASSUME Course(c) PROVE Course(c)'
  <2>1. Answers(c)' = Answers(c) /\ Request(c)' = Request(c)
    BY <1>1, <1>2 DEF Answers, Request
  <2>2. QED
    BY <1>1, <1>6, <1>8, <2>1 DEF Course
<1>9. QED
  BY <1>1, <1>5, <1>7, <1>8 DEF Solo, Single

-----------------------------------------------------------------------------
(* A lone client: its own steps. *)

LEMMA TypedClients ==
  ASSUME Stands
  PROVE  /\ client \in [Clients -> Moments \cup {"idle", "killed"}]
         /\ sent \in [Clients -> 0..MaxRequests] /\ got \in [Clients -> Seq(Requests)]
  BY DEF Stands, TypeOK

\* A client begins its next request when all of the last answer is read.
LEMMA OpenRequestSolo ==
  ASSUME Stands, NEW c \in Clients, Solo(c), OpenRequest(c), UNCHANGED usage
  PROVE  Solo(c)'
<1>1. /\ client[c] = "idle" /\ client' = [client EXCEPT ![c] = "write"]
      /\ UNCHANGED <<server, query, served>>
      /\ sent' = [sent EXCEPT ![c] = @ + 1] /\ got' = [got EXCEPT ![c] = << >>]
      /\ OpenWrite(c, "in")
  BY DEF OpenRequest, ClientGoes, serverVars
<1>2. /\ client'[c] = "write" /\ got'[c] = << >>
      /\ \A d \in Clients \ {c} : client'[d] = client[d] /\ sent'[d] = sent[d] /\ got'[d] = got[d]
  BY <1>1, TypedClients
<1>3. /\ In' = [readers |-> In.readers, writers |-> In.writers \cup {c}, data |-> In.data]
      /\ Out' = Out
      /\ \A q \in Procs, g \in Pipes :
           <<q, g>> \in blocked' <=>
             IF In.readers = {} THEN <<q, g>> \in blocked \/ (q = c /\ g = "in")
             ELSE <<q, g>> \in blocked /\ ~ (g = "in" /\ q \in In.readers)
  BY <1>1, Fixed, OpenWritePrecise DEF In, Out
<1>4. Connected(c)'
  BY <1>1, <1>2, <1>3, Fixed DEF Solo, Single, Connected, Opened, Dead
<1>5. Opened(Server, "out")' = Opened(Server, "out") /\ Opened(c, "out")
  BY <1>1, <1>3, Fixed DEF Solo, Single, Connected, Opened
<1>6. Meets(c)'
  <2>1. "read" \notin usage.kills => ~ (server = "flush" /\ Opened(Server, "out"))
    BY <1>1 DEF Solo, Single, Meets
  <2>2. QED
    BY <1>1, <1>2, <1>5, <2>1 DEF Solo, Single, Meets, Holds, Dead, Unreadable
<1>7. ASSUME Course(c) PROVE Course(c)'
  <2>1. In.data = << >> /\ Out.data = << >> /\ ~ Holds /\ server # "closeOut"
    BY <1>1, <1>7 DEF Course
  <2>2. Answers(c)' = << >> /\ In'.data = << >> /\ Out'.data = << >>
    BY <1>2, <1>3, <2>1 DEF Answers
  <2>3. QED
    BY <1>1, <1>2, <2>1, <2>2 DEF Course, Holds
<1>8. QED
  BY <1>1, <1>2, <1>4, <1>6, <1>7 DEF Solo, Single

\* The request goes into the pipe, after what an earlier command of a killed client
\* left there.
LEMMA WriteRequestSolo ==
  ASSUME Stands, NEW c \in Clients, Solo(c), WriteRequest(c), UNCHANGED usage
  PROVE  Solo(c)'
<1>1. /\ client[c] = "write" /\ client' = [client EXCEPT ![c] = "close"]
      /\ UNCHANGED <<server, query, served, sent, got>>
      /\ blocked' = blocked /\ In.readers # {}
      /\ pipe' = [pipe EXCEPT !["in"].data = Append(In.data, Request(c))]
  BY DEF WriteRequest, ClientGoes, serverVars, In
<1>2. /\ client'[c] = "close" /\ \A d \in Clients \ {c} : client'[d] = client[d]
  BY <1>1, TypedClients
<1>3. /\ In' = [readers |-> In.readers, writers |-> In.writers,
                data |-> Append(In.data, Request(c))]
      /\ Out' = Out
  BY <1>1, Fixed, DataPrecise DEF In, Out
<1>4. In'.data # << >>
  <2>1. In.data \in Seq(Requests)
    BY DEF Stands, TypeOK, Pipes, In
  <2>2. QED
    BY <1>3, <2>1
<1>5. Connected(c)'
  <2>1. In.writers = {c}
    BY <1>1 DEF Solo, Single, Connected
  <2>2. Opened(Server, "in")
    BY <2>1 DEF Solo, Single, Connected
  <2>3. QED
    BY <1>1, <1>2, <1>3, <2>1, <2>2, Fixed DEF Solo, Single, Connected, Opened, Dead
<1>6. Meets(c)'
  BY <1>1, <1>2, <1>4 DEF Solo, Single, Meets, Holds, Dead, Opened, Unreadable
<1>7. ASSUME Course(c) PROVE Course(c)'
  <2>1. In.data = << >> /\ Answers(c) = << >>
    BY <1>1, <1>7 DEF Course
  <2>2. In'.data = <<Request(c)>> /\ Answers(c)' = << >> /\ Request(c)' = Request(c)
    BY <1>1, <1>3, <2>1 DEF Answers, Request
  <2>3. server \in {"fgets", "closeIn"}
    BY <1>1, <1>7 DEF Solo, Single, Course, Connected, Dead, Stands, TypeOK, Holds
  <2>4. QED
    BY <1>1, <1>2, <1>3, <1>7, <2>2, <2>3 DEF Course, Holds, Opened
<1>8. QED
  BY <1>1, <1>2, <1>5, <1>6, <1>7 DEF Solo, Single

\* The client's ends are closed when it dies: what it wrote stays in the pipe only
\* if the server has that open.
LEMMA ClientDies ==
  ASSUME Stands, NEW c \in Clients, Single(c), Die(c), client[c] # "idle",
         client' \in {[client EXCEPT ![c] = "idle"], [client EXCEPT ![c] = "killed"]},
         UNCHANGED <<usage, server, query, sent, got>>,
         client[c] = "write" => "write" \in usage.kills \/ In.readers = {},
         client[c] = "read" => "read" \in usage.kills
  PROVE  /\ Single(c)'
         /\ In' = [readers |-> In.readers, writers |-> {},
                   data |-> IF In.readers = {} THEN << >> ELSE In.data]
         /\ Out' = [readers |-> {}, writers |-> Out.writers,
                    data |-> IF Out.writers = {} THEN << >> ELSE Out.data]
<1>1. In' = [readers |-> In.readers \ {c}, writers |-> In.writers \ {c},
             data |-> IF In.readers \subseteq {c} /\ In.writers \subseteq {c}
                      THEN << >> ELSE In.data]
  BY Fixed, DiePrecise DEF In
<1>2. Out' = [readers |-> Out.readers \ {c}, writers |-> Out.writers \ {c},
              data |-> IF Out.readers \subseteq {c} /\ Out.writers \subseteq {c}
                       THEN << >> ELSE Out.data]
  BY Fixed, DiePrecise DEF Out
<1>3. /\ In.readers \subseteq {Server} /\ In.writers \subseteq {c}
      /\ Out.readers \subseteq {c} /\ Out.writers \subseteq {Server}
  BY DEF Single, Connected
<1>4. In' = [readers |-> In.readers, writers |-> {},
             data |-> IF In.readers = {} THEN << >> ELSE In.data]
  <2>1. In.readers \ {c} = In.readers /\ In.writers \ {c} = {}
    BY <1>3, Fixed
  <2>2. In.readers \subseteq {c} <=> In.readers = {}
    BY <1>3, Fixed
  <2>3. QED
    BY <1>1, <1>3, <2>1, <2>2
<1>5. Out' = [readers |-> {}, writers |-> Out.writers,
              data |-> IF Out.writers = {} THEN << >> ELSE Out.data]
  <2>1. Out.writers \ {c} = Out.writers /\ Out.readers \ {c} = {}
    BY <1>3, Fixed
  <2>2. Out.writers \subseteq {c} <=> Out.writers = {}
    BY <1>3, Fixed
  <2>3. QED
    BY <1>2, <1>3, <2>1, <2>2
<1>6. \A q \in Procs, g \in Pipes : <<q, g>> \in blocked' <=> <<q, g>> \in blocked /\ q # c
  BY Fixed, DiePrecise
<1>7. /\ client'[c] \in {"idle", "killed"}
      /\ \A d \in Clients \ {c} : client'[d] = client[d]
  BY TypedClients
<1>8. Connected(c)'
  BY <1>4, <1>5, <1>6, <1>7, Fixed DEF Single, Connected, Opened, Dead
<1>9. Meets(c)'
  <2>1. Opened(Server, "in")' = Opened(Server, "in") /\ Opened(Server, "out")' = Opened(Server, "out")
    BY <1>6, Fixed DEF Opened
  <2>2. server = "fgets" => In.readers = {Server} /\ In'.data = In.data
    BY <1>4 DEF Single, Connected, Dead
  <2>3. /\ "write" \notin usage.kills /\ server = "fgets" /\ Opened(Server, "in")
             => In'.data # << >>
        /\ "read" \notin usage.kills => ~ (server = "flush" /\ Opened(Server, "out"))
    BY <2>2 DEF Single, Meets
  <2>4. QED
    BY <1>7, <2>1, <2>3 DEF Single, Meets, Dead, Holds, Unreadable
<1>10. QED
  BY <1>4, <1>5, <1>7, <1>8, <1>9 DEF Single

\* The server closed stoap-in: the request gets lost, and the server waits on.
LEMMA WriteBrokenSolo ==
  ASSUME Stands, NEW c \in Clients, Solo(c), WriteBroken(c), UNCHANGED usage
  PROVE  Solo(c)'
<1>1. /\ client[c] = "write" /\ client' = [client EXCEPT ![c] = "killed"]
      /\ UNCHANGED <<server, query, sent, got>>
      /\ In.readers = {} /\ Die(c)
  BY DEF WriteBroken, ClientGoes, serverVars, In
<1>2. /\ Single(c)' /\ In'.data = << >>
      /\ Out'.data = IF Out.writers = {} THEN << >> ELSE Out.data
  <2>1. /\ Single(c) /\ client[c] # "idle" /\ client[c] # "read"
        /\ client' \in {[client EXCEPT ![c] = "idle"], [client EXCEPT ![c] = "killed"]}
    BY <1>1 DEF Solo
  <2>2. client[c] = "write" => "write" \in usage.kills \/ In.readers = {}
    BY <1>1
  <2>3. /\ Single(c)'
        /\ In' = [readers |-> In.readers, writers |-> {},
                  data |-> IF In.readers = {} THEN << >> ELSE In.data]
        /\ Out' = [readers |-> {}, writers |-> Out.writers,
                   data |-> IF Out.writers = {} THEN << >> ELSE Out.data]
    BY <1>1, <2>1, <2>2, ClientDies, Zenon
  <2>4. QED
    BY <1>1, <2>3
<1>3. ASSUME Course(c) PROVE Course(c)'
  <2>1. client'[c] = "killed"
    BY <1>1, TypedClients
  <2>2. Out.data = << >> /\ Answers(c) = << >> /\ ~ Holds /\ server # "closeOut"
    BY <1>1, <1>3 DEF Course
  <2>3. Out'.data = << >> /\ Answers(c)' = << >>
    BY <1>1, <1>2, <2>2 DEF Answers
  <2>4. QED
    BY <1>1, <1>2, <2>1, <2>2, <2>3 DEF Course, Holds
<1>4. QED
  BY <1>1, <1>2, <1>3 DEF Solo

\* A client that may be killed is no client that always waits.
LEMMA QuitSolo ==
  ASSUME Stands, NEW c \in Clients, Solo(c), Quit(c), UNCHANGED usage
  PROVE  Solo(c)'
<1>1. /\ client[c] \in usage.kills /\ client' = [client EXCEPT ![c] = "idle"]
      /\ UNCHANGED <<server, query, sent, got>> /\ Die(c)
  BY DEF Quit, serverVars
<1>2. client[c] # "idle" /\ usage.kills # {}
  <2>1. usage.kills \subseteq Moments
    BY ProcessAssumption DEF Stands, TypeOK
  <2>2. QED
    BY <1>1, <2>1 DEF Moments
<1>3. Single(c)'
  BY <1>1, <1>2, ClientDies DEF Solo
<1>4. QED
  BY <1>2, <1>3 DEF Solo

\* A request that the server has not taken stays in the pipe only if the server has it open.
LEMMA CloseRequestSolo ==
  ASSUME Stands, NEW c \in Clients, Solo(c), CloseRequest(c), UNCHANGED usage
  PROVE  Solo(c)'
<1>1. /\ client[c] = "close" /\ client' = [client EXCEPT ![c] = "fetch"]
      /\ UNCHANGED <<server, query, served, sent, got>>
      /\ Close(c, "in")
  BY DEF CloseRequest, ClientGoes, serverVars
<1>2. /\ client'[c] = "fetch" /\ \A d \in Clients \ {c} : client'[d] = client[d]
  BY <1>1, TypedClients
<1>3. /\ In' = [readers |-> In.readers \ {c}, writers |-> In.writers \ {c},
                data |-> IF In.readers \subseteq {c} /\ In.writers \subseteq {c}
                         THEN << >> ELSE In.data]
      /\ Out' = Out /\ blocked' = blocked
  BY <1>1, Fixed, ClosePrecise DEF In, Out
<1>4. /\ In'.readers = In.readers /\ In'.writers = {}
      /\ In'.data = IF server = "openIn" \/ Dead THEN << >> ELSE In.data
  <2>1. In.writers = {c} /\ In.readers = IF server = "openIn" \/ Dead THEN {} ELSE {Server}
    BY <1>1 DEF Solo, Single, Connected
  <2>2. QED
    BY <1>3, <2>1, Fixed
<1>5. Opened(Server, "in")
  BY <1>1 DEF Solo, Single, Connected
<1>6. Connected(c)'
  BY <1>1, <1>2, <1>3, <1>4, <1>5, Fixed DEF Solo, Single, Connected, Opened, Dead
<1>7. Meets(c)'
  BY <1>1, <1>2, <1>3, <1>4 DEF Solo, Single, Meets, Opened, Holds, Dead, Unreadable
<1>8. ASSUME Course(c) PROVE Course(c)'
  <2>1. Answers(c)' = Answers(c) /\ Request(c)' = Request(c)
    BY <1>1, <1>3 DEF Answers, Request
  <2>2. QED
    BY <1>1, <1>2, <1>3, <1>4, <1>8, <2>1 DEF Course, Holds, Opened
<1>9. QED
  BY <1>1, <1>2, <1>6, <1>7, <1>8 DEF Solo, Single

\* The client connects to the server if that has opened stoap-out.
LEMMA OpenAnswerSolo ==
  ASSUME Stands, NEW c \in Clients, Solo(c), OpenAnswer(c), UNCHANGED usage
  PROVE  Solo(c)'
<1>1. /\ client[c] = "fetch" /\ client' = [client EXCEPT ![c] = "read"]
      /\ UNCHANGED <<server, query, served, sent, got>>
      /\ OpenRead(c, "out")
  BY DEF OpenAnswer, ClientGoes, serverVars
<1>2. /\ client'[c] = "read" /\ \A d \in Clients \ {c} : client'[d] = client[d]
  BY <1>1, TypedClients
<1>3. /\ Out' = [readers |-> Out.readers \cup {c}, writers |-> Out.writers, data |-> Out.data]
      /\ In' = In
      /\ \A q \in Procs, g \in Pipes :
           <<q, g>> \in blocked' <=>
             IF Out.writers = {} THEN <<q, g>> \in blocked \/ (q = c /\ g = "out")
             ELSE <<q, g>> \in blocked /\ ~ (g = "out" /\ q \in Out.writers)
  BY <1>1, Fixed, OpenReadPrecise DEF In, Out
<1>4. Connected(c)'
  BY <1>1, <1>2, <1>3, Fixed DEF Solo, Single, Connected, Opened, Dead
<1>5. /\ Opened(c, "out")' <=> server \in {"flush", "closeOut"}
      /\ Opened(Server, "in")' = Opened(Server, "in")
  BY <1>1, <1>3, Fixed DEF Solo, Single, Connected, Opened
<1>6. Meets(c)'
  BY <1>1, <1>2, <1>3, <1>5 DEF Solo, Single, Meets, Holds, Dead, Unreadable
<1>7. ASSUME Course(c) PROVE Course(c)'
  <2>1. Answers(c)' = Answers(c) /\ Request(c)' = Request(c)
    BY <1>1, <1>3 DEF Answers, Request
  <2>2. In'.data = In.data /\ Out'.data = Out.data
    BY <1>3
  <2>3. server # "closeOut" /\ Answers(c) = << >>
    BY <1>1, <1>7 DEF Course
  <2>4. QED
    BY <1>1, <1>2, <1>5, <1>7, <2>1, <2>2, <2>3 DEF Course, Holds
<1>8. QED
  BY <1>1, <1>2, <1>4, <1>6, <1>7 DEF Solo, Single

\* The client reads what there is of its answer.
LEMMA ReadAnswerSolo ==
  ASSUME Stands, NEW c \in Clients, Solo(c), ReadAnswer(c), UNCHANGED usage
  PROVE  Solo(c)'
<1>1. /\ client[c] = "read" /\ Opened(c, "out") /\ Out.data # << >>
      /\ UNCHANGED <<blocked, server, query, served, client, sent>>
      /\ got' = [got EXCEPT ![c] = @ \o Out.data]
      /\ pipe' = [pipe EXCEPT !["out"].data = << >>]
  BY DEF ReadAnswer, serverVars, Out
<1>2. /\ Out' = [readers |-> Out.readers, writers |-> Out.writers, data |-> << >>]
      /\ In' = In
  BY <1>1, Fixed, DataPrecise DEF In, Out
<1>3. /\ got'[c] = Answers(c) /\ \A d \in Clients \ {c} : got'[d] = got[d]
  BY <1>1, TypedClients DEF Answers
<1>4. Connected(c)'
  BY <1>1, <1>2 DEF Solo, Single, Connected, Opened, Dead
<1>5. Meets(c)'
  BY <1>1, <1>2 DEF Solo, Single, Meets, Opened, Holds, Dead, Unreadable
<1>6. ASSUME Course(c) PROVE Course(c)'
  <2>1. Answers(c)' = Answers(c) /\ Request(c)' = Request(c)
    <3>1. got'[c] \in Seq(Requests) /\ Out'.data = << >>
      BY <1>2, <1>3, Fixed DEF Answers
    <3>2. got'[c] \o << >> = got'[c]
      BY <3>1, ConcatEmptySeq
    <3>3. QED
      BY <1>1, <1>3, <3>1, <3>2 DEF Answers, Request
  <2>2. QED
    BY <1>1, <1>2, <1>6, <2>1 DEF Course, Opened, Holds
<1>7. QED
  BY <1>1, <1>3, <1>4, <1>5, <1>6 DEF Solo, Single

\* The client meets the end of the answer after the server has closed it.
LEMMA ReadEofSolo ==
  ASSUME Stands, NEW c \in Clients, Solo(c), ReadEof(c), UNCHANGED usage
  PROVE  Solo(c)'
<1>1. /\ client[c] = "read" /\ client' = [client EXCEPT ![c] = "eof"]
      /\ UNCHANGED <<pipe, blocked, server, query, served, sent, got>>
      /\ Opened(c, "out") /\ Out.data = << >> /\ Out.writers = {}
  BY DEF ReadEof, ClientGoes, serverVars, Out
<1>2. /\ client'[c] = "eof" /\ \A d \in Clients \ {c} : client'[d] = client[d]
  BY <1>1, TypedClients
<1>3. server \notin {"flush", "closeOut"}
  BY <1>1 DEF Solo, Single, Connected
<1>4. Connected(c)'
  BY <1>1, <1>2 DEF Solo, Single, Connected, Opened, Dead, In, Out
<1>5. Meets(c)'
  BY <1>1, <1>2, <1>3 DEF Solo, Single, Meets, Opened, Holds, Dead, Unreadable, In
<1>6. ASSUME Course(c) PROVE Course(c)'
  <2>1. /\ Answers(c)' = Answers(c) /\ Request(c)' = Request(c) /\ In' = In /\ Out' = Out
        /\ Holds' = Holds /\ Opened(c, "out")' = Opened(c, "out")
    BY <1>1 DEF Answers, Request, In, Out, Holds, Opened
  <2>2. In.data = << >> /\ ~ Holds
    <3>1. In.data = << >>
      BY <1>1, <1>3, <1>6 DEF Course
    <3>2. server # "openOut"
      BY <1>1 DEF Solo, Single, Meets, Dead
    <3>3. QED
      BY <1>3, <3>1, <3>2 DEF Holds
  <2>3. QED
    BY <1>1, <1>2, <1>3, <1>6, <2>1, <2>2 DEF Course
<1>7. QED
  BY <1>1, <1>2, <1>4, <1>5, <1>6 DEF Solo, Single

\* The end of the answer is the end of the request.
LEMMA CloseAnswerSolo ==
  ASSUME Stands, NEW c \in Clients, Solo(c), CloseAnswer(c), UNCHANGED usage
  PROVE  Solo(c)'
<1>1. /\ client[c] = "eof" /\ client' = [client EXCEPT ![c] = "idle"]
      /\ UNCHANGED <<server, query, served, sent, got>>
      /\ Close(c, "out")
  BY DEF CloseAnswer, ClientGoes, serverVars
<1>2. /\ client'[c] = "idle" /\ \A d \in Clients \ {c} : client'[d] = client[d]
  BY <1>1, TypedClients
<1>3. /\ Out' = [readers |-> Out.readers \ {c}, writers |-> Out.writers \ {c},
                 data |-> IF Out.readers \subseteq {c} /\ Out.writers \subseteq {c}
                          THEN << >> ELSE Out.data]
      /\ In' = In /\ blocked' = blocked
  BY <1>1, Fixed, ClosePrecise DEF In, Out
<1>4. Out.readers = {c} /\ Out.writers = {} /\ server \notin {"flush", "closeOut"}
  BY <1>1 DEF Solo, Single, Connected, Meets
<1>5. Out' = [readers |-> {}, writers |-> {}, data |-> << >>]
  BY <1>3, <1>4
<1>6. Connected(c)'
  <2>1. Connected(c) /\ Out'.readers = {} /\ Out'.writers = {}
    BY <1>5 DEF Solo, Single
  <2>2. QED
    BY <1>1, <1>2, <1>3, <1>4, <2>1 DEF Connected, Opened, Dead
<1>7. Meets(c)'
  BY <1>1, <1>2, <1>3, <1>4 DEF Solo, Single, Meets, Opened, Holds, Dead, Unreadable
<1>8. ASSUME Course(c) PROVE Course(c)'
  <2>1. In.data = << >> /\ Out.data = << >> /\ ~ Holds
    BY <1>1, <1>8 DEF Course
  <2>2. /\ Answers(c)' = Answers(c) /\ Request(c)' = Request(c)
        /\ In'.data = << >> /\ Out'.data = << >> /\ ~ Holds'
    BY <1>1, <1>3, <1>5, <2>1 DEF Answers, Request, Holds
  <2>3. Opened(c, "out")'
    BY <1>1, <1>3 DEF Solo, Single, Connected, Opened
  <2>4. QED
    BY <1>1, <1>2, <1>4, <1>8, <2>2, <2>3 DEF Course
<1>9. QED
  BY <1>1, <1>2, <1>6, <1>7, <1>8 DEF Solo, Single

-----------------------------------------------------------------------------
(* A lone client: the invariant. *)

LEMMA InitSolo ==
  ASSUME Init, NEW c \in Clients
  PROVE  Solo(c)
<1>1. /\ In = NewPipe /\ Out = NewPipe /\ blocked = {} /\ server = "openIn"
      /\ \A d \in Clients : client[d] = "idle" /\ sent[d] = 0 /\ got[d] = << >>
  BY DEF Init, Pipes, In, Out
<1>2. Answers(c) = << >>
  BY <1>1, ConcatEmptySeq, EmptySeq DEF Answers, NewPipe
<1>3. Single(c)
  BY <1>1 DEF Single, Connected, Meets, Opened, Holds, Dead, NewPipe
<1>4. Course(c)
  BY <1>1, <1>2 DEF Course, Opened, Holds, NewPipe
<1>5. QED
  BY <1>3, <1>4 DEF Solo

LEMMA SoloKept ==
  ASSUME Stands, NEW c \in Clients, usage.clients = {c}, Solo(c), [Next]_vars
  PROVE  Solo(c)'
<1>1. CASE ServerStep
  BY <1>1, FopenInSolo, FgetsLineSolo, FgetsEofSolo, FopenOutSolo, HandleThrowsSolo,
     FlushAnswerSolo, FlushBrokenSolo, FcloseOutSolo, FcloseInSolo DEF ServerStep
<1>2. CASE ClientStep(c)
  BY <1>2, WriteRequestSolo, WriteBrokenSolo, CloseRequestSolo, OpenAnswerSolo,
     ReadAnswerSolo, ReadEofSolo, CloseAnswerSolo DEF ClientStep
<1>3. CASE (OpenRequest(c) \/ Quit(c)) /\ UNCHANGED usage
  BY <1>3, OpenRequestSolo, QuitSolo
<1>4. ASSUME NEW d \in Clients, ClientStep(d) \/ OpenRequest(d) \/ Quit(d), d # c
      PROVE  FALSE
  <2>1. client[d] = "idle"
    BY <1>4 DEF Solo, Single
  <2>2. "idle" \notin usage.kills
    BY ProcessAssumption DEF Stands, TypeOK, Moments
  <2>3. QED
    BY <1>4, <2>1, <2>2 DEF ClientStep, OpenRequest, Quit, WriteRequest, WriteBroken,
       CloseRequest, OpenAnswer, ReadAnswer, ReadEof, CloseAnswer, ClientGoes
<1>5. CASE UNCHANGED vars
  <2>1. In' = In /\ Out' = Out /\ Answers(c)' = Answers(c) /\ Request(c)' = Request(c)
    BY <1>5 DEF vars, In, Out, Answers, Request
  <2>2. Single(c)'
    BY <1>5, <2>1 DEF vars, Solo, Single, Connected, Meets, Opened, Holds, Dead, Unreadable
  <2>3. ASSUME Course(c) PROVE Course(c)'
    BY <1>5, <2>1, <2>3 DEF vars, Course, Opened, Holds
  <2>4. QED
    BY <1>5, <2>2, <2>3 DEF vars, Solo
<1>6. QED
  BY <1>1, <1>2, <1>3, <1>4, <1>5 DEF Next

\* Of nothing or one answer, the client has read nothing or all.
LEMMA SoloReadsItsOwn ==
  ASSUME Stands, NEW c \in Clients, usage.kills = {}, Solo(c)
  PROVE  got[c] \in {<< >>, <<Request(c)>>}
<1>1. got[c] \in Seq(Requests) /\ Out.data \in Seq(Requests)
  BY Fixed
<1>2. Answers(c) \in {<< >>, <<Request(c)>>}
  BY DEF Solo, Course
<1>3. CASE Answers(c) = << >>
  BY <1>1, <1>3, ConcatEqualIffEmpty DEF Answers
<1>4. CASE Answers(c) = <<Request(c)>>
  <2>1. Len(got[c]) + Len(Out.data) = 1 /\ Len(got[c]) \in Nat /\ Len(Out.data) \in Nat
    <3>1. Len(got[c] \o Out.data) = Len(got[c]) + Len(Out.data)
      BY <1>1, ConcatProperties
    <3>2. Len(got[c]) \in Nat /\ Len(Out.data) \in Nat
      BY <1>1, LenProperties
    <3>3. QED
      BY <1>4, <3>1, <3>2 DEF Answers
  <2>2. CASE Len(got[c]) = 0
    BY <1>1, <2>2, EmptySeq
  <2>3. CASE Len(Out.data) = 0
    <3>1. Out.data = << >>
      BY <1>1, <2>3, EmptySeq
    <3>2. got[c] \o << >> = got[c]
      BY <1>1, ConcatEmptySeq
    <3>3. QED
      BY <1>4, <3>1, <3>2 DEF Answers
  <2>4. \A m, n \in Nat : m + n = 1 => m = 0 \/ n = 0
    OBVIOUS
  <2>5. QED
    BY <2>1, <2>2, <2>3, <2>4
<1>5. QED
  BY <1>2, <1>3, <1>4

LEMMA LoneInvariance == Spec => [](LoneInv /\ Stands)
<1>1. Init => LoneInv
  BY InitSolo DEF LoneInv
<1>2. LoneInv /\ Inductive /\ [Next]_vars => LoneInv'
  <2> SUFFICES ASSUME LoneInv, Inductive, [Next]_vars, NEW c \in Clients, usage'.clients = {c}
               PROVE  Solo(c)'
    BY DEF LoneInv
  <2>1. usage' = usage
    BY DEF Next, ServerStep, ClientStep, vars
  <2>2. QED
    BY <2>1, SoloKept DEF LoneInv, Inductive
<1>3. Inductive => Stands
  BY DEF Inductive
<1>4. QED
  BY <1>1, <1>2, <1>3, Invariance, PTL DEF Spec

\* A single client brings openPipe's loop down in three ways only, wherever it may be
\* killed and however many requests it sends: killed before it writes (end of file at
\* fgets), killed while it reads (SIGPIPE at fclose), or by a request with a text
\* where handleRequest reads a number.
THEOREM LoneStaysUp == Spec => []StaysUp
<1>1. LoneInv => StaysUp
  <2> SUFFICES ASSUME LoneInv, NEW c \in Clients, usage.clients = {c}
               PROVE  /\ server = "aborted" => "write" \in usage.kills
                      /\ server = "killed" => "read" \in usage.kills
                      /\ server = "terminated" => Unreadable
    BY DEF StaysUp, Lone
  <2>1. QED
    BY DEF LoneInv, Solo, Single, Meets
<1>2. QED
  BY <1>1, LoneInvariance, PTL

\* A client that has the server to itself and waits for its answers reads its own
\* answers and nothing else, until a request of its own ends the server and after
\* that.
THEOREM AloneReadsItsOwn == Spec => []OwnAnswer
<1>1. LoneInv /\ Stands => OwnAnswer
  <2> SUFFICES ASSUME LoneInv, Stands, NEW c \in Clients, usage.clients = {c}, usage.kills = {}
               PROVE  \A d \in Clients : got[d] \in {<< >>, <<Request(d)>>}
    BY DEF OwnAnswer, Alone, Lone
  <2>1. Solo(c)
    BY DEF LoneInv
  <2>2. QED
    BY <2>1, SoloReadsItsOwn DEF Solo, Single
<1>2. QED
  BY <1>1, LoneInvariance, PTL

-----------------------------------------------------------------------------
(* Quotients. *)

\* Multiplication by a natural number is monotone.
LEMMA Grows ==
  ASSUME NEW a \in Nat, NEW b \in Nat, a =< b, NEW y \in Nat
  PROVE  a * y =< b * y /\ a * y \in Nat /\ b * y \in Nat
<1>1. PICK e \in Nat : b = a + e
  BY b - a \in Nat
<1>2. b * y = a * y + e * y
  BY <1>1
<1>3. e * y \in Nat /\ a * y \in Nat
  OBVIOUS
<1>4. QED
  BY <1>2, <1>3

\* What quotient and remainder are.
LEMMA Quotient ==
  ASSUME NEW x \in Nat, NEW y \in Nat \ {0}
  PROVE  /\ x \div y \in Nat
         /\ (x \div y) * y =< x /\ x < (x \div y + 1) * y
<1>1. x = y * (x \div y) + (x % y) /\ x % y \in 0..(y - 1) /\ x \div y \in Int
  OBVIOUS
<1> DEFINE q == x \div y
           r == x % y
<1>2. x = y * q + r /\ r \in 0..(y - 1) /\ q \in Int
  BY <1>1
<1> HIDE DEF q, r
<1>3. q * y = y * q /\ (q + 1) * y = y * q + y
  BY <1>2
<1>4. q >= 0
  <2>1. CASE q < 0
    <3>1. PICK e \in Nat : q = -1 - e
      BY <1>2, <2>1, -1 - q \in Nat
    <3>2. y * q = -y - e * y /\ e * y \in Nat
      BY <3>1
    <3>3. QED
      BY <1>2, <3>2
  <2>2. QED
    BY <1>2, <2>1
<1>5. QED
  BY <1>2, <1>3, <1>4 DEF q

\* There is one quotient only.
LEMMA OneQuotient ==
  ASSUME NEW x \in Nat, NEW y \in Nat \ {0}, NEW q \in Nat, q * y =< x, x < (q + 1) * y
  PROVE  x \div y = q
<1> DEFINE s == x \div y
<1>1. s \in Nat /\ s * y =< x /\ x < (s + 1) * y
  BY Quotient
<1> HIDE DEF s
<1>2. CASE s < q
  <2>1. (s + 1) * y =< q * y /\ (s + 1) * y \in Nat /\ q * y \in Nat
    BY <1>1, <1>2, Grows
  <2>2. QED
    BY <1>1, <2>1
<1>3. CASE q < s
  <2>1. (q + 1) * y =< s * y /\ (q + 1) * y \in Nat /\ s * y \in Nat
    BY <1>1, <1>3, Grows
  <2>2. QED
    BY <1>1, <2>1
<1>4. s = q
  BY <1>1, <1>2, <1>3
<1>5. QED
  BY <1>4 DEF s

\* The quotient by a product.
LEMMA QuotientOfQuotient ==
  ASSUME NEW x \in Nat, NEW a \in Nat \ {0}, NEW b \in Nat \ {0}
  PROVE  (x \div a) \div b = x \div (b * a)
<1> DEFINE q == x \div a
           r == q \div b
<1>1. q \in Nat /\ q * a =< x /\ x < (q + 1) * a
  BY Quotient
<1> HIDE DEF q
<1>2. r \in Nat /\ r * b =< q /\ q < (r + 1) * b
  BY <1>1, Quotient
<1> HIDE DEF r
<1>3. (r * b) * a =< q * a
  <2>1. r * b \in Nat
    BY <1>2
  <2>2. QED
    BY <1>1, <1>2, <2>1, Grows
<1>4. (q + 1) * a =< ((r + 1) * b) * a
  <2>1. (r + 1) * b \in Nat /\ q + 1 \in Nat
    BY <1>1, <1>2
  <2>2. q + 1 =< (r + 1) * b
    BY <1>1, <1>2, <2>1
  <2>3. QED
    BY <2>1, <2>2, Grows
<1>5. b * a \in Nat \ {0}
  <2>1. 1 * a =< b * a
    BY Grows
  <2>2. QED
    BY <2>1
<1>6. r * (b * a) = (r * b) * a /\ (r + 1) * (b * a) = ((r + 1) * b) * a
  BY <1>2
<1>7. r * (b * a) =< x /\ x < (r + 1) * (b * a)
  <2>1. (r * b) * a \in Int /\ q * a \in Int /\ (q + 1) * a \in Int /\ ((r + 1) * b) * a \in Int
    BY <1>1, <1>2
  <2>2. QED
    BY <1>1, <1>3, <1>4, <1>6, <2>1
<1>8. x \div (b * a) = r
  BY <1>2, <1>5, <1>7, OneQuotient
<1>9. QED
  BY <1>8 DEF q, r

\* Counting one on: the last digit, and what is left of it.
LEMMA OneOn ==
  ASSUME NEW q \in Nat, NEW b \in Nat \ {0}
  PROVE  /\ q % b \in 0..(b - 1)
         /\ q % b = b - 1 => (q + 1) \div b = (q \div b) + 1 /\ (q + 1) % b = 0
         /\ q % b # b - 1 => (q + 1) \div b = q \div b /\ (q + 1) % b = (q % b) + 1
<1>1. /\ q = b * (q \div b) + (q % b) /\ q % b \in 0..(b - 1)
      /\ q + 1 = b * ((q + 1) \div b) + ((q + 1) % b)
  OBVIOUS
<1> DEFINE s == q \div b
           r == q % b
<1>2. s \in Nat /\ q = b * s + r /\ r \in 0..(b - 1)
  BY <1>1, Quotient
<1>3. q + 1 = b * ((q + 1) \div b) + ((q + 1) % b) /\ (q + 1) % b \in Int
  BY <1>1
<1> HIDE DEF s, r
<1>4. s * b = b * s /\ (s + 1) * b = b * s + b /\ (s + 2) * b = b * s + 2 * b /\ b * (s + 1) = b * s + b
      /\ b * s \in Int
  BY <1>2
<1>5. ASSUME r = b - 1 PROVE (q + 1) \div b = s + 1 /\ (q + 1) % b = 0
  <2>1. (s + 1) * b =< q + 1 /\ q + 1 < (s + 1 + 1) * b
    BY <1>2, <1>4, <1>5
  <2>2. (q + 1) \div b = s + 1
    BY <1>2, <2>1, OneQuotient
  <2>3. QED
    BY <1>2, <1>3, <1>4, <1>5, <2>2
<1>6. ASSUME r # b - 1 PROVE (q + 1) \div b = s /\ (q + 1) % b = r + 1
  <2>1. s * b =< q + 1 /\ q + 1 < (s + 1) * b
    BY <1>2, <1>4, <1>6
  <2>2. (q + 1) \div b = s
    BY <1>2, <2>1, OneQuotient
  <2>3. QED
    BY <1>2, <1>3, <1>4, <2>2
<1>7. QED
  BY <1>2, <1>5, <1>6 DEF s, r

-----------------------------------------------------------------------------
(* The odometer of dotPaths. *)

\* dotPaths has no empty list.
Wheels == \A d \in Dims : Len(lists[d]) \in Nat \ {0}

\* One wheel more multiplies the number of paths by its length.
LEMMA LapStep ==
  ASSUME Wheels, NEW n \in 0..N
  PROVE  /\ Lap(0) = 1 /\ Lap(n) \in Int
         /\ n # 0 => n \in Dims /\ n - 1 \in 0..N /\ Lap(n) = Len(lists[n]) * Lap(n - 1)
<1> DEFINE f == [d \in Dims |-> Len(lists[d])]
<1>0. N \in Nat /\ Dims = 1..N
  BY DimAssumption DEF Dims
<1>1. \A k \in 0..N : /\ IsFiniteSet(1..k) /\ (\A x \in 1..k : f[x] \in Int)
                      /\ Lap(k) = ProductOver(f, 1..k)
  <2> TAKE k \in 0..N
  <2>1. IsFiniteSet(1..k)
    BY <1>0, FS_Interval
  <2>2. \A x \in 1..k : f[x] \in Int
    BY <1>0 DEF Wheels
  <2>3. Lap(k) = ProductOver(f, 1..k)
    BY DEF Lap, ProductOver
  <2>4. QED
    BY <2>1, <2>2, <2>3
<1> HIDE DEF f
<1>2. \A k \in 0..N : Lap(k) \in Int
  BY <1>1, ProductType
<1>3. Lap(0) = 1
  <2>1. 1..0 = {} /\ 0 \in 0..N
    BY <1>0
  <2>2. QED
    BY <1>1, <2>1, ProductType
<1>4. ASSUME n # 0 PROVE n \in Dims /\ n - 1 \in 0..N /\ Lap(n) = Len(lists[n]) * Lap(n - 1)
  <2>1. n \in Dims /\ n - 1 \in 0..N /\ n \notin 1..(n - 1) /\ 1..n = (1..(n - 1)) \cup {n}
    BY <1>0, <1>4
  <2>2. ProductOver(f, (1..(n - 1)) \cup {n}) = f[n] * ProductOver(f, 1..(n - 1))
    <3>1. IsFiniteSet(1..(n - 1)) /\ \A y \in 1..(n - 1) : f[y] = f[y]
      BY <1>1, <2>1
    <3>2. \A y \in (1..(n - 1)) \cup {n} : f[y] \in Int
      <4>1. n \in 0..N
        OBVIOUS
      <4>2. \A y \in 1..n : f[y] \in Int
        BY <1>1, <4>1
      <4>3. QED
        BY <2>1, <4>2
    <3>3. PICK S : S = 1..(n - 1)
      OBVIOUS
    <3>4. /\ IsFiniteSet(S) /\ n \notin S /\ \A y \in S \cup {n} : f[y] \in Int
          /\ \A y \in S : f[y] = f[y]
      BY <2>1, <3>1, <3>2, <3>3
    <3>5. ProductOver(f, S \cup {n}) = f[n] * ProductOver(f, S)
      BY <3>4, ProductStep, Zenon
    <3>6. QED
      BY <3>3, <3>5
  <2>3. f[n] = Len(lists[n])
    BY <2>1 DEF f
  <2>4. QED
    BY <1>1, <2>1, <2>2, <2>3
<1>5. QED
  BY <1>2, <1>3, <1>4

\* No number of paths is 0.
LEMMA LapPositive ==
  ASSUME Wheels, NEW n \in 0..N
  PROVE  Lap(n) \in Nat \ {0}
<1> DEFINE bad == {k \in 0..N : Lap(k) \notin Nat \ {0}}
<1>0. N \in Nat
  BY DimAssumption
<1>1. CASE bad # {}
  <2>1. PICK k \in bad : \A j \in bad : k =< j
    <3>1. bad \subseteq Nat
      OBVIOUS
    <3> HIDE DEF bad
    <3>2. QED
      BY <1>1, <3>1, MinExists
  <2>2. k # 0
    BY <2>1, LapStep
  <2>3. k \in Dims /\ k - 1 \in 0..N /\ Lap(k) = Len(lists[k]) * Lap(k - 1)
    BY <2>1, <2>2, LapStep
  <2>4. Lap(k - 1) \in Nat \ {0}
    BY <1>0, <2>1, <2>3
  <2>5. PICK a \in Nat \ {0}, b \in Nat \ {0} : a = Len(lists[k]) /\ b = Lap(k - 1)
    BY <2>3, <2>4 DEF Wheels
  <2>6. 1 * b =< a * b /\ a * b \in Nat
    BY <2>5, Grows
  <2>7. QED
    BY <2>1, <2>3, <2>5, <2>6
<1>2. QED
  BY <1>1

\* Where wheel d stands when k paths have been made, from 0.
Digit(k, d) == (k \div Lap(d - 1)) % Len(lists[d])

\* The number of paths of the wheels before d, and with d.
LEMMA LapBefore ==
  ASSUME Wheels, NEW d \in Dims
  PROVE  /\ d \in Nat /\ d - 1 \in 0..N /\ d \in 0..N
         /\ Lap(d - 1) \in Nat \ {0} /\ Len(lists[d]) \in Nat \ {0}
<1>1. N \in Nat /\ d \in 1..N
  BY DimAssumption DEF Dims
<1>2. d - 1 \in 0..N /\ d \in 0..N
  BY <1>1
<1>3. QED
  BY <1>1, <1>2, LapPositive DEF Wheels

\* One path more turns the first wheel that is not at its end, m.
LEMMA OneTurn ==
  ASSUME Wheels, NEW k \in Nat, NEW m \in Nat \ {0},
         \A d \in Dims : d < m => Digit(k, d) = Len(lists[d]) - 1,
         m \in Dims => Digit(k, m) # Len(lists[m]) - 1
  PROVE  /\ \A n \in 0..N : (k + 1) \div Lap(n) = IF n < m THEN (k \div Lap(n)) + 1 ELSE k \div Lap(n)
         /\ \A d \in Dims : Digit(k + 1, d) = IF d < m THEN 0 ELSE IF d = m THEN Digit(k, d) + 1 ELSE Digit(k, d)
<1> DEFINE Turns(n) == (k + 1) \div Lap(n) = IF n < m THEN (k \div Lap(n)) + 1 ELSE k \div Lap(n)
<1>0. N \in Nat
  BY DimAssumption
<1>1. ASSUME NEW d \in Dims, Turns(d - 1)
      PROVE  /\ Turns(d)
             /\ Digit(k + 1, d) = IF d < m THEN 0 ELSE IF d = m THEN Digit(k, d) + 1 ELSE Digit(k, d)
  <2>0. d \in Nat /\ d - 1 \in 0..N /\ d \in 0..N
    BY LapBefore
  <2>1. PICK a \in Nat \ {0}, b \in Nat \ {0} : a = Lap(d - 1) /\ b = Len(lists[d])
    BY LapBefore
  <2>2. Lap(d) = b * a
    BY <2>0, <2>1, LapStep, d # 0
  <2>3. PICK q \in Nat : q = k \div a
    BY <2>1, Quotient
  <2>4. k \div Lap(d) = q \div b /\ (k + 1) \div Lap(d) = ((k + 1) \div a) \div b
    <3>1. k + 1 \in Nat
      OBVIOUS
    <3>2. (k \div a) \div b = k \div (b * a)
      BY QuotientOfQuotient
    <3>3. ((k + 1) \div a) \div b = (k + 1) \div (b * a)
      BY <3>1, QuotientOfQuotient
    <3>4. QED
      BY <2>2, <2>3, <3>2, <3>3
  <2>5. Digit(k, d) = q % b /\ Digit(k + 1, d) = ((k + 1) \div a) % b
    BY <2>1, <2>3 DEF Digit
  <2>6. (k + 1) \div a = IF d =< m THEN q + 1 ELSE q
    BY <1>1, <2>0, <2>1, <2>3
  <2>7. CASE d < m
    <3>1. q % b = b - 1
      BY <2>1, <2>5, <2>7
    <3>2. (k + 1) \div a = q + 1
      BY <2>0, <2>6, <2>7
    <3>3. (q + 1) \div b = (q \div b) + 1 /\ (q + 1) % b = 0
      BY <3>1, OneOn
    <3>4. QED
      BY <2>4, <2>5, <2>7, <3>2, <3>3
  <2>8. CASE d = m
    <3>1. q % b # b - 1
      BY <2>1, <2>5, <2>8
    <3>2. (k + 1) \div a = q + 1
      BY <2>0, <2>6, <2>8
    <3>3. (q + 1) \div b = q \div b /\ (q + 1) % b = (q % b) + 1
      BY <3>1, OneOn
    <3>4. QED
      BY <2>0, <2>4, <2>5, <2>8, <3>2, <3>3
  <2>9. CASE d > m
    <3>1. (k + 1) \div a = q
      BY <2>0, <2>6, <2>9
    <3>2. QED
      BY <2>0, <2>4, <2>5, <2>9, <3>1
  <2>10. QED
    BY <2>0, <2>7, <2>8, <2>9
<1>2. ASSUME NEW n \in 0..N PROVE Turns(n)
  <2> DEFINE bad == {i \in 0..N : ~Turns(i)}
  <2>1. CASE bad # {}
    <3>1. PICK i \in bad : \A j \in bad : i =< j
      <4>1. bad \subseteq Nat
        OBVIOUS
      <4> HIDE DEF bad
      <4>2. QED
        BY <2>1, <4>1, MinExists
    <3>2. i # 0
      <4>1. Lap(0) = 1
        BY LapStep
      <4>2. (k + 1) \div 1 = k + 1 /\ k \div 1 = k
        OBVIOUS
      <4>3. QED
        BY <3>1, <4>1, <4>2
    <3>3. i \in Dims /\ i - 1 \in 0..N /\ i - 1 \notin bad
      BY <1>0, <3>1, <3>2 DEF Dims
    <3>4. Turns(i - 1)
      BY <3>3
    <3>5. Turns(i)
      BY <1>1, <3>3, <3>4
    <3>6. QED
      BY <3>1, <3>5
  <2>2. QED
    BY <2>1
<1>3. ASSUME NEW d \in Dims
      PROVE  Digit(k + 1, d) = IF d < m THEN 0 ELSE IF d = m THEN Digit(k, d) + 1 ELSE Digit(k, d)
  <2>1. Turns(d - 1)
    BY <1>2, LapBefore
  <2>2. QED
    BY <1>1, <2>1
<1>4. QED
  BY <1>2, <1>3

-----------------------------------------------------------------------------
(* The odometer of PathIterator. *)

\* What cells are among.
Vectors == [Dims -> Nat]

\* Of two paths that agree up to m, and of which one is nowhere above the other
\* behind it, the one precedes or is the other.
LEMMA AtMost ==
  ASSUME NEW p \in Vectors, NEW q \in Vectors, NEW m \in 0..N,
         \A d \in Dims : d =< m => p[d] = q[d],
         \A d \in Dims : d > m => p[d] =< q[d]
  PROVE  p = q \/ Precedes(p, q)
<1> DEFINE differs == {d \in Dims : p[d] # q[d]}
<1>0. N \in Nat /\ Dims = 1..N
  BY DimAssumption DEF Dims
<1>1. CASE differs = {}
  <2>1. \A d \in Dims : p[d] = q[d]
    BY <1>1
  <2>2. QED
    BY <2>1 DEF Vectors
<1>2. CASE differs # {}
  <2>1. PICK d \in differs : \A e \in differs : d =< e
    <3>1. differs \subseteq Nat
      BY <1>0
    <3> HIDE DEF differs
    <3>2. QED
      BY <1>2, <3>1, MinExists
  <2>2. d \in Dims /\ p[d] < q[d]
    BY <1>0, <2>1 DEF Vectors
  <2>3. \A c \in 1..(d - 1) : p[c] = q[c]
    BY <1>0, <2>1, <2>2
  <2>4. QED
    BY <2>2, <2>3 DEF Precedes
<1>3. QED
  BY <1>1, <1>2

\* What PathIterator runs over: the elements of each dimension in their order.
Listed ==
  /\ DOMAIN lists = Dims
  /\ \A d \in Dims :
       /\ area[d] \subseteq Nat /\ lists[d] \in Seq(area[d]) /\ lists[d] # << >>
       /\ \A i, j \in 1..Len(lists[d]) : i < j => lists[d][i] < lists[d][j]
       /\ \A x \in area[d] : \E i \in 1..Len(lists[d]) : lists[d][i] = x

\* Every counter stands on an element of its list.
Standing == counter \in [Dims -> Nat \ {0}] /\ \A d \in Dims : counter[d] \in 1..Len(lists[d])

\* A list read at a position, for all positions.
LEMMA InList ==
  ASSUME Listed, NEW d \in Dims
  PROVE  /\ Len(lists[d]) \in Nat \ {0}
         /\ \A i \in 1..Len(lists[d]) : lists[d][i] \in area[d] /\ lists[d][i] \in Nat
         /\ \A i, j \in 1..Len(lists[d]) : i < j => lists[d][i] < lists[d][j]
         /\ \A x \in area[d] : \E i \in 1..Len(lists[d]) : lists[d][i] = x
<1> DEFINE list == lists[d]
<1>1. /\ area[d] \subseteq Nat /\ list \in Seq(area[d]) /\ list # << >>
      /\ \A i, j \in 1..Len(list) : i < j => list[i] < list[j]
      /\ \A x \in area[d] : \E i \in 1..Len(list) : list[i] = x
  BY DEF Listed
<1> HIDE DEF list
<1>2. Len(list) \in Nat /\ \A i \in 1..Len(list) : list[i] \in area[d]
  <2>1. PICK S : S = area[d]
    OBVIOUS
  <2>2. list \in Seq(S)
    BY <1>1, <2>1
  <2>3. Len(list) \in Nat /\ \A i \in 1..Len(list) : list[i] \in S
    BY <2>2
  <2>4. QED
    BY <2>1, <2>3
<1>3. Len(list) # 0
  BY <1>1, EmptySeq
<1>4. \A i \in 1..Len(list) : list[i] \in Nat
  BY <1>1, <1>2
<1>5. Len(list) \in Nat \ {0}
  BY <1>2, <1>3
<1>6. QED
  BY <1>1, <1>2, <1>4, <1>5 DEF list

\* The coordinates of a cell.
LEMMA CellVectors ==
  ASSUME \A d \in Dims : area[d] \subseteq Nat, NEW p \in Cells(area)
  PROVE  p \in Vectors /\ \A d \in Dims : p[d] \in area[d]
BY DEF Cells, Vectors

\* The odometer stands on a cell.
LEMMA HereIsCell ==
  ASSUME Listed, Standing
  PROVE  PathHere \in Cells(area) /\ \A d \in Dims : PathHere[d] = lists[d][counter[d]]
<1>1. \A d \in Dims : PathHere[d] = lists[d][counter[d]] /\ lists[d][counter[d]] \in area[d]
  BY DEF PathHere, Listed, Standing
<1>2. PathHere \in [Dims -> UNION {area[d] : d \in Dims}]
  <2>1. \A d \in Dims : lists[d][counter[d]] \in UNION {area[e] : e \in Dims}
    BY <1>1
  <2>2. QED
    BY <2>1 DEF PathHere
<1>3. QED
  BY <1>1, <1>2 DEF Cells

\* No element of a dimension lies between one of its list and the next.
LEMMA NextInList ==
  ASSUME Listed, NEW d \in Dims, NEW i \in 1..Len(lists[d]), NEW x \in area[d], lists[d][i] < x
  PROVE  i + 1 \in 1..Len(lists[d]) /\ lists[d][i + 1] =< x
<1>1. PICK j \in 1..Len(lists[d]) : lists[d][j] = x
  BY InList
<1>2. i < j
  <2>1. j < i => lists[d][j] < lists[d][i]
    BY InList
  <2>2. lists[d][i] \in Nat /\ lists[d][j] \in Nat
    BY InList
  <2>3. QED
    BY <1>1, <2>1, <2>2
<1>3. i + 1 \in 1..Len(lists[d]) /\ (i + 1 = j \/ i + 1 < j)
  BY <1>2, InList
<1>4. i + 1 < j => lists[d][i + 1] < lists[d][j]
  BY <1>3, InList
<1>5. lists[d][i + 1] \in Nat /\ lists[d][j] \in Nat
  BY <1>3, InList
<1>6. QED
  BY <1>1, <1>3, <1>4, <1>5

\* Turning the last wheel that can be turned passes over no cell.
LEMMA WalkStep ==
  ASSUME Listed, Standing, Open # {}, NEW turned, turned = WalkTurned,
         NEW q, q = [d \in Dims |-> lists[d][turned[d]]]
  PROVE  /\ turned \in [Dims -> Nat \ {0}] /\ \A d \in Dims : turned[d] \in 1..Len(lists[d])
         /\ \A p \in Cells(area) : Precedes(p, q) <=> p = PathHere \/ Precedes(p, PathHere)
<1>0. N \in Nat /\ Dims = 1..N /\ \A d \in Dims : Len(lists[d]) \in Nat \ {0}
  BY DimAssumption DEF Dims, Listed
<1>1. PICK m \in Open : m = Greatest(Open) /\ \A d \in Open : d =< m
  <2> DEFINE back == {N - d : d \in Open}
  <2>1. back \subseteq Nat /\ back # {}
    BY <1>0 DEF Open
  <2>2. PICK b \in back : \A c \in back : b =< c
    <3> HIDE DEF back
    <3>1. QED
      BY <2>1, MinExists
  <2>3. PICK e \in Open : b = N - e
    BY <2>2
  <2>4. ASSUME NEW d \in Open PROVE d =< e
    <3>1. N - d \in back /\ d \in Nat /\ e \in Nat
      BY <1>0 DEF Open
    <3>2. b =< N - d
      BY <2>2, <3>1
    <3>3. QED
      BY <1>0, <2>3, <3>1, <3>2
  <2>5. QED
    <3>1. Greatest(Open) \in Open /\ \A d \in Open : Greatest(Open) >= d
      <4>1. \A d \in Open : e >= d
        BY <1>0, <2>4 DEF Open
      <4>2. QED
        BY <4>1 DEF Greatest
    <3>2. QED
      BY <1>0, <3>1 DEF Open
<1>2. m \in Dims /\ counter[m] < Len(lists[m]) /\ \A d \in Dims : d > m => counter[d] = Len(lists[d])
  <2>1. \A d \in Dims : counter[d] \in Nat /\ counter[d] =< Len(lists[d])
    BY <1>0 DEF Standing
  <2>2. \A d \in Dims : d > m => d \notin Open
    BY <1>0, <1>1 DEF Open
  <2>3. m \in Dims /\ counter[m] < Len(lists[m])
    BY <1>1 DEF Open
  <2>4. \A d \in Dims : d \notin Open => ~(counter[d] < Len(lists[d]))
    BY DEF Open
  <2>5. ASSUME NEW d \in Dims, d > m PROVE counter[d] = Len(lists[d])
    <3>1. counter[d] \in Nat /\ counter[d] =< Len(lists[d]) /\ ~(counter[d] < Len(lists[d]))
      BY <2>1, <2>2, <2>4, <2>5
    <3>2. Len(lists[d]) \in Nat
      BY <1>0
    <3>3. QED
      BY <3>1, <3>2
  <2>6. QED
    BY <2>3, <2>5
<1>3. /\ DOMAIN turned = Dims
      /\ \A d \in Dims : turned[d] = IF d > m THEN 1 ELSE IF d = m THEN counter[d] + 1 ELSE counter[d]
  BY <1>1 DEF WalkTurned
<1>4. \A d \in Dims : turned[d] \in Nat \ {0} /\ turned[d] \in 1..Len(lists[d])
  <2> TAKE d \in Dims
  <2>1. PICK c \in Nat \ {0}, l \in Nat \ {0} : c = counter[d] /\ l = Len(lists[d]) /\ c =< l
    BY <1>0 DEF Standing
  <2>2. turned[d] = IF d > m THEN 1 ELSE IF d = m THEN c + 1 ELSE c
    BY <1>3, <2>1
  <2>3. d = m => c < l
    BY <1>2, <2>1
  <2>4. turned[d] \in 1..l
    <3>1. d \in Nat /\ m \in Nat
      BY <1>0, <1>2
    <3>2. QED
      BY <2>1, <2>2, <2>3, <3>1
  <2>5. QED
    BY <2>1, <2>4
<1>5. turned \in [Dims -> Nat \ {0}]
  <2>1. turned = [d \in Dims |-> IF d > m THEN 1 ELSE IF d = m THEN counter[d] + 1 ELSE counter[d]]
    BY <1>1 DEF WalkTurned
  <2>2. QED
    BY <1>3, <1>4, <2>1
<1> DEFINE h == PathHere
<1>6. h \in Vectors /\ \A d \in Dims : h[d] = lists[d][counter[d]] /\ h[d] \in area[d]
  BY HereIsCell, CellVectors DEF Listed
<1>7. q \in Vectors /\ \A d \in Dims : q[d] = lists[d][turned[d]] /\ q[d] \in area[d]
  <2>1. \A d \in Dims : lists[d][turned[d]] \in area[d] /\ lists[d][turned[d]] \in Nat
    BY <1>4, InList
  <2>2. QED
    BY <2>1 DEF Vectors
<1> HIDE DEF h
<1>8. \A c \in Dims : c < m => q[c] = h[c]
  <2>1. \A c \in Dims : c < m => turned[c] = counter[c]
    BY <1>0, <1>2, <1>3
  <2>2. QED
    BY <1>6, <1>7, <2>1
<1>9. h[m] < q[m]
  <2>1. turned[m] = counter[m] + 1 /\ counter[m] \in 1..Len(lists[m]) /\ turned[m] \in 1..Len(lists[m])
    BY <1>0, <1>2, <1>3, <1>4 DEF Standing
  <2>2. counter[m] < turned[m]
    BY <2>1
  <2>3. lists[m][counter[m]] < lists[m][turned[m]]
    BY <1>2, <2>1, <2>2, InList
  <2>4. QED
    BY <1>2, <1>6, <1>7, <2>3
<1>10. ASSUME NEW p \in Cells(area), Precedes(p, q)
       PROVE  p = h \/ Precedes(p, h)
  <2>1. PICK d \in Dims : p[d] < q[d] /\ \A c \in 1..(d - 1) : p[c] = q[c]
    BY <1>10 DEF Precedes
  <2>2. p \in Vectors /\ \A c \in Dims : p[c] \in area[c]
    BY CellVectors DEF Listed
  <2>3. CASE d < m
    <3>1. \A c \in 1..(d - 1) : p[c] = h[c]
      <4> TAKE c \in 1..(d - 1)
      <4>1. c \in Dims /\ c < m
        BY <1>0, <1>2, <2>3
      <4>2. QED
        BY <1>8, <2>1, <4>1
    <3>2. p[d] < h[d]
      BY <1>8, <2>1, <2>3
    <3>3. QED
      BY <3>1, <3>2 DEF Precedes
  <2>4. CASE d = m
    <3>1. \A c \in 1..(m - 1) : p[c] = h[c]
      <4> TAKE c \in 1..(m - 1)
      <4>1. c \in Dims /\ c < m
        BY <1>0, <1>2
      <4>2. QED
        BY <1>8, <2>1, <2>4, <4>1
    <3>2. p[m] =< h[m]
      <4>1. CASE h[m] < p[m]
        <5>1. counter[m] \in 1..Len(lists[m]) /\ lists[m][counter[m]] < p[m] /\ p[m] \in area[m]
          BY <1>2, <1>6, <2>2, <4>1 DEF Standing
        <5>2. lists[m][counter[m] + 1] =< p[m]
          BY <1>2, <5>1, NextInList
        <5>3. q[m] =< p[m]
          BY <1>0, <1>2, <1>3, <1>7, <5>2
        <5>4. QED
          BY <1>2, <1>7, <2>1, <2>2, <2>4, <5>3 DEF Vectors
      <4>2. QED
        BY <1>2, <1>6, <2>2, <4>1 DEF Vectors
    <3>3. CASE p[m] < h[m]
      BY <1>2, <3>1, <3>3 DEF Precedes
    <3>4. CASE p[m] = h[m]
      <4>1. \A c \in Dims : c =< m => p[c] = h[c]
        BY <1>0, <1>2, <3>1, <3>4
      <4>2. ASSUME NEW c \in Dims, c > m PROVE p[c] =< h[c]
        <5>1. counter[c] = Len(lists[c]) /\ counter[c] \in 1..Len(lists[c])
          BY <1>2, <4>2 DEF Standing
        <5>2. ASSUME lists[c][counter[c]] < p[c] PROVE FALSE
          BY <1>0, <2>2, <5>1, <5>2, NextInList
        <5>3. QED
          BY <1>6, <2>2, <5>2 DEF Vectors
      <4>3. m \in 0..N
        BY <1>0, <1>2
      <4>4. QED
        BY <1>6, <2>2, <4>1, <4>2, <4>3, AtMost
    <3>5. QED
      BY <1>2, <1>6, <2>2, <3>2, <3>3, <3>4 DEF Vectors
  <2>5. CASE d > m
    <3>1. q[d] = lists[d][1]
      BY <1>3, <1>7, <2>5
    <3>2. PICK i \in 1..Len(lists[d]) : lists[d][i] = p[d]
      BY <2>2 DEF Listed
    <3>3. i = 1 \/ 1 < i
      BY <1>0
    <3>4. lists[d][1] \in Nat /\ lists[d][1] =< p[d]
      <4>1. 1 \in 1..Len(lists[d]) /\ lists[d][1] \in Nat
        BY <1>0, InList
      <4>2. 1 < i => lists[d][1] < lists[d][i]
        BY <4>1, InList
      <4>3. lists[d][i] \in Nat
        BY InList
      <4>4. QED
        BY <3>2, <3>3, <4>1, <4>2, <4>3
    <3>5. QED
      BY <2>1, <2>2, <3>1, <3>4 DEF Vectors
  <2>6. QED
    BY <1>0, <1>2, <2>3, <2>4, <2>5
<1>11. Precedes(h, q)
  <2>1. \A c \in 1..(m - 1) : h[c] = q[c]
    BY <1>0, <1>2, <1>8
  <2>2. QED
    BY <1>2, <1>9, <2>1 DEF Precedes
<1>12. ASSUME NEW p \in Cells(area), Precedes(p, h)
       PROVE  Precedes(p, q)
  <2>1. PICK d \in Dims : p[d] < h[d] /\ \A c \in 1..(d - 1) : p[c] = h[c]
    BY <1>12 DEF Precedes
  <2>2. p \in Vectors
    BY CellVectors DEF Listed
  <2>3. CASE d < m
    <3>1. p[d] < q[d] /\ \A c \in 1..(d - 1) : p[c] = q[c]
      BY <1>0, <1>2, <1>8, <2>1, <2>3
    <3>2. QED
      BY <3>1 DEF Precedes
  <2>4. CASE ~(d < m)
    <3>1. \A c \in 1..(m - 1) : p[c] = q[c]
      BY <1>0, <1>2, <1>8, <2>1, <2>4
    <3>2. p[m] =< h[m]
      BY <1>0, <1>2, <1>6, <2>1, <2>2, <2>4 DEF Vectors
    <3>3. p[m] < q[m]
      BY <1>2, <1>6, <1>7, <1>9, <2>2, <3>2 DEF Vectors
    <3>4. QED
      BY <1>2, <3>1, <3>3 DEF Precedes
  <2>5. QED
    BY <2>3, <2>4
<1>13. QED
  BY <1>4, <1>5, <1>10, <1>11, <1>12 DEF h

\* When no wheel can be turned, no cell is left.
LEMMA WalkEnd ==
  ASSUME Listed, Standing, Open = {}, NEW p \in Cells(area)
  PROVE  p = PathHere \/ Precedes(p, PathHere)
<1>0. N \in Nat /\ Dims = 1..N /\ \A d \in Dims : Len(lists[d]) \in Nat \ {0}
  BY DimAssumption DEF Dims, Listed
<1>1. p \in Vectors /\ \A d \in Dims : p[d] \in area[d]
  BY CellVectors DEF Listed
<1>2. PICK h \in Vectors : h = PathHere /\ \A d \in Dims : h[d] = lists[d][counter[d]]
  BY HereIsCell, CellVectors DEF Listed
<1>3. ASSUME NEW d \in Dims PROVE p[d] =< h[d]
  <2>1. counter[d] = Len(lists[d]) /\ counter[d] \in 1..Len(lists[d])
    BY <1>0 DEF Open, Standing
  <2>2. ASSUME lists[d][counter[d]] < p[d] PROVE FALSE
    BY <1>0, <1>1, <2>1, <2>2, NextInList
  <2>3. QED
    BY <1>1, <1>2, <2>2 DEF Vectors
<1>4. 0 \in 0..N /\ \A d \in Dims : d =< 0 => p[d] = h[d]
  BY <1>0
<1>5. QED
  BY <1>1, <1>2, <1>3, <1>4, AtMost

-----------------------------------------------------------------------------
(* What the checks let through. *)

\* The requests that name their cells one by one.
CellKinds == {"/cell/values", "getCell"}

\* What InputsAssumption says of a single request.
LEMMA FieldsAreLists ==
  ASSUME NEW r \in Inputs
  PROVE  /\ r.kind \in {"/cell/values", "/cell/area", "getCell", "getArea", "unsupported"}
         /\ Len(r.fields) \in Nat /\ DOMAIN r.fields = 1..Len(r.fields)
         /\ r.kind # "getArea" => r.fields \in Seq(Seq(Nat \cup {Text}))
         /\ r.kind = "getCell" => Len(r.fields) = 1
<1>1. /\ r.kind \in {"/cell/values", "/cell/area", "getCell", "getArea", "unsupported"}
      /\ r.kind # "getArea" => r.fields \in Seq(Seq(Nat \cup {Text}))
      /\ r.kind = "getArea" => r.fields \in Seq(Seq((Nat \X Nat) \cup {Text, Malformed}))
      /\ r.kind = "getCell" => Len(r.fields) = 1
  BY InputsAssumption
<1>2. \E S : r.fields \in Seq(S)
  BY <1>1, Zenon
<1>3. PICK S : r.fields \in Seq(S)
  BY <1>2
<1>4. Len(r.fields) \in Nat /\ DOMAIN r.fields = 1..Len(r.fields)
  BY <1>3
<1>5. QED
  BY <1>1, <1>4

\* Smallest is what its name says.
LEMMA SmallestIs ==
  ASSUME NEW S \in SUBSET Nat, S # {}
  PROVE  Smallest(S) \in S /\ \A i \in S : Smallest(S) =< i
<1>1. \E i \in S : \A j \in S : i =< j
  BY MinExists
<1>2. QED
  BY <1>1 DEF Smallest

\* An accepted request has passed every check.
LEMMA Accepted ==
  ASSUME NEW r \in Inputs, Verdict(r) = "ok"
  PROVE  /\ r.kind \in {"/cell/values", "/cell/area", "getCell", "getArea"}
         /\ r.fields # << >> /\ (r.kind \in {"/cell/area", "getArea"} => Len(r.fields) = N)
         /\ \A i \in DOMAIN r.fields : FieldVerdict(r.kind, i, r.fields[i]) = "ok"
<1> DEFINE bad == {i \in DOMAIN r.fields : FieldVerdict(r.kind, i, r.fields[i]) # "ok"}
           refused == \/ r.kind = "unsupported" \/ r.cube \notin {<< >>, <<CubeId>>} \/ r.fields = << >>
                      \/ r.kind \in {"/cell/area", "getArea"} /\ Len(r.fields) # N
<1>1. Verdict(r) = IF r.kind # "unsupported" /\ r.cube = <<Text>> THEN "terminated"
                   ELSE IF refused THEN "error"
                   ELSE IF bad = {} THEN "ok"
                   ELSE FieldVerdict(r.kind, Smallest(bad), r.fields[Smallest(bad)])
  BY Zenon DEF Verdict
<1>2. bad # {} => Smallest(bad) \in bad
  <2>1. bad \in SUBSET Nat
    BY FieldsAreLists
  <2> HIDE DEF bad
  <2>2. QED
    BY <2>1, SmallestIs
<1>3. ASSUME bad # {} PROVE FieldVerdict(r.kind, Smallest(bad), r.fields[Smallest(bad)]) # "ok"
  BY <1>2, <1>3
<1> HIDE DEF bad
<1>4. ~refused /\ bad = {}
  <2> HIDE DEF refused
  <2>1. QED
    BY <1>1, <1>3
<1>5. \A i \in DOMAIN r.fields : FieldVerdict(r.kind, i, r.fields[i]) = "ok"
  BY <1>4 DEF bad
<1>6. QED
  BY <1>4, <1>5, FieldsAreLists

\* A failure is no acceptance.
LEMMA FailureIsNone == \A token : Failure(token) # "ok"
BY DEF Failure

\* The identifiers of a dimension are finitely many numbers.
LEMMA KnownSets ==
  ASSUME NEW d \in Dims
  PROVE  Known[d] \subseteq Nat /\ IsFiniteSet(Known[d])
BY KnownAssumption

\* A path that fits is one of the dimension's elements everywhere.
LEMMA PathFits ==
  ASSUME NEW S, NEW path \in Seq(S), PathVerdict(path) = "ok"
  PROVE  path \in Paths /\ path \in Vectors /\ \A d \in Dims : path[d] \in Known[d]
<1> DEFINE bad == {d \in DOMAIN path : ~Fits(d, path[d])}
<1>1. Len(path) = N /\ bad = {}
  <2>1. PathVerdict(path) = CASE Len(path) # N -> "error"
                              [] Len(path) = N /\ bad = {} -> "ok"
                              [] OTHER -> Failure(path[Smallest(bad)])
    BY Zenon DEF PathVerdict
  <2> HIDE DEF bad
  <2>2. QED
    BY <2>1, FailureIsNone
<1>2. DOMAIN path = Dims /\ path = [d \in Dims |-> path[d]]
  BY <1>1 DEF Dims
<1>3. \A d \in Dims : path[d] \in Known[d]
  BY <1>1, <1>2 DEF Fits
<1>4. \A d \in Dims : path[d] \in UNION {Known[e] : e \in Dims}
  BY <1>3
<1>5. \A d \in Dims : path[d] \in Nat
  BY <1>3, KnownSets
<1>6. QED
  BY <1>2, <1>3, <1>4, <1>5 DEF Paths, Vectors

\* The paths of an accepted request are paths of the cube.
LEMMA CellsFit ==
  ASSUME NEW r \in Inputs, Verdict(r) = "ok", r.kind \in CellKinds
  PROVE  r.fields \in Seq(Paths) /\ \A i \in DOMAIN r.fields : \A d \in Dims : r.fields[i][d] \in Known[d]
<1>1. ASSUME NEW i \in DOMAIN r.fields PROVE PathVerdict(r.fields[i]) = "ok"
  <2>1. FieldVerdict(r.kind, i, r.fields[i]) = "ok"
    BY Accepted
  <2>2. QED
    BY <2>1 DEF FieldVerdict, CellKinds
<1>2. r.fields \in Seq(Seq(Nat \cup {Text}))
  BY FieldsAreLists DEF CellKinds
<1>3. PICK S : S = Nat \cup {Text}
  OBVIOUS
<1>4. \A i \in DOMAIN r.fields : r.fields[i] \in Seq(S)
  BY <1>2, <1>3
<1>5. \A i \in DOMAIN r.fields : r.fields[i] \in Paths /\ \A d \in Dims : r.fields[i][d] \in Known[d]
  BY <1>1, <1>4, PathFits
<1>6. r.fields \in Seq(Paths)
  <2>1. PICK f, T : f = r.fields /\ f \in Seq(T)
    BY <1>2, Zenon
  <2>2. f = [i \in 1..Len(f) |-> f[i]] /\ DOMAIN f = 1..Len(f) /\ Len(f) \in Nat
    BY <2>1
  <2>3. \A i \in 1..Len(f) : f[i] \in Paths
    BY <1>5, <2>1, <2>2
  <2>4. f \in Seq(Paths)
    BY <2>2, <2>3
  <2>5. QED
    BY <2>1, <2>4
<1>7. QED
  BY <1>5, <1>6

\* The element sets of an accepted request are sets of known elements, and none is empty.
LEMMA SetsFit ==
  ASSUME NEW r \in Inputs, Verdict(r) = "ok", r.kind = "/cell/area"
  PROVE  /\ DOMAIN r.fields = Dims
         /\ \A d \in Dims : r.fields[d] \in Seq(Known[d]) /\ Len(r.fields[d]) \in Nat \ {0}
<1>1. DOMAIN r.fields = Dims
  BY Accepted, FieldsAreLists DEF Dims
<1>2. r.fields \in Seq(Seq(Nat \cup {Text}))
  BY FieldsAreLists
<1>3. ASSUME NEW d \in Dims PROVE r.fields[d] \in Seq(Known[d]) /\ Len(r.fields[d]) \in Nat \ {0}
  <2>1. PICK list : list = r.fields[d]
    OBVIOUS
  <2>2. PICK S : S = Nat \cup {Text}
    OBVIOUS
  <2>3. list \in Seq(S)
    BY <1>1, <1>2, <2>1, <2>2
  <2> DEFINE bad == {i \in DOMAIN list : ~Fits(d, list[i])}
  <2>4. list # << >> /\ bad = {}
    <3>1. SetVerdict(d, list) = "ok"
      <4>1. FieldVerdict(r.kind, d, list) = "ok"
        BY <1>1, <2>1, Accepted
      <4>2. QED
        BY <4>1 DEF FieldVerdict
    <3>2. SetVerdict(d, list) = CASE list = << >> -> "error"
                                  [] list # << >> /\ bad = {} -> "ok"
                                  [] OTHER -> Failure(list[Smallest(bad)])
      BY Zenon DEF SetVerdict
    <3> HIDE DEF bad
    <3>3. QED
      BY <3>1, <3>2, FailureIsNone
  <2>5. \A i \in 1..Len(list) : list[i] \in Known[d]
    BY <2>3, <2>4 DEF Fits
  <2>6. Len(list) \in Nat /\ list = [i \in 1..Len(list) |-> list[i]]
    BY <2>3
  <2>7. Len(list) # 0
    BY <2>3, <2>4, EmptySeq
  <2>8. list \in Seq(Known[d])
    BY <2>5, <2>6
  <2>9. QED
    BY <2>1, <2>6, <2>7, <2>8
<1>4. QED
  BY <1>1, <1>3

-----------------------------------------------------------------------------
(* The invariant. *)

\* Where a request can stand; those answered by result(), those by print().
Places == {"check", "dot", "aggregate", "result", "walk", "answered", "error", "terminated"}
PathKinds == {"/cell/values", "/cell/area"}
WalkKinds == {"getCell", "getArea"}

\* The types.
Typed ==
  /\ request \in Inputs /\ pc \in Places
  /\ area \in [Dims -> SUBSET Nat] /\ \A d \in Dims : area[d] \subseteq Known[d]
  /\ DOMAIN lists = Dims /\ \A d \in Dims : lists[d] \in Seq(Known[d])
  /\ counter \in [Dims -> Nat \ {0}] /\ \A d \in Dims : counter[d] = 1 \/ counter[d] \in 1..Len(lists[d])
  /\ paths \in Seq(Paths) /\ DOMAIN results \subseteq Paths
  /\ lines \in Seq({TrueLine(p) : p \in Paths})

\* What the area and the lists are once the request is accepted.
Made ==
  pc \notin {"check", "error", "terminated"} =>
    /\ Verdict(request) = "ok" /\ area = AreaOf(request)
    /\ IF request.kind = "/cell/area"
       THEN lists = request.fields /\ Wheels /\ \A d \in Dims : area[d] = Range(lists[d])
       ELSE \A d \in Dims : lists[d] = Ascending(area[d])

\* The path that dotPaths makes after k others.
DotAt(k) == [d \in Dims |-> lists[d][Digit(k, d) + 1]]
Dotted == \A i \in 1..Len(paths) : paths[i] = DotAt(i - 1)

\* The paths of dotPaths so far.
Dotting ==
  /\ pc = "check" => paths = << >> /\ \A d \in Dims : counter[d] = 1
  /\ pc = "dot" =>
       /\ request.kind = "/cell/area" /\ Dotted /\ Len(paths) < Lap(N)
       /\ \A d \in Dims : counter[d] = Digit(Len(paths), d) + 1
  /\ pc \in {"aggregate", "result", "answered"} =>
       /\ request.kind = "/cell/area" => Dotted /\ Len(paths) = Lap(N)
       /\ request.kind = "/cell/values" => paths = request.fields

\* The lines of result() so far.
Answering ==
  /\ pc \in {"check", "dot", "aggregate"} => lines = << >>
  /\ pc = "result" => request.kind \in PathKinds /\ Len(lines) < Len(paths)
  /\ pc \in {"aggregate", "result"} /\ request.kind \in PathKinds =>
       paths # << >> /\ \A i \in 1..Len(paths) : paths[i] \in Cells(area)
  /\ pc \in {"result", "answered"} /\ request.kind \in PathKinds =>
       Len(lines) =< Len(paths) /\ \A i \in 1..Len(lines) : lines[i] = TrueLine(paths[i])
  /\ pc = "answered" /\ request.kind \in PathKinds => Len(lines) = Len(paths)

\* With the result made, every cell of the area has its true line.
Aggregated == pc \in {"result", "walk"} => \A p \in Cells(area) : Line(p) = TrueLine(p)

\* The lines are those of S, in order.
Walked(S) ==
  /\ \A i \in 1..Len(lines) : \E p \in S : lines[i] = TrueLine(p)
  /\ \A p \in S : \E i \in 1..Len(lines) : lines[i] = TrueLine(p)
  /\ \A i, j \in 1..Len(lines) : i < j => Precedes(lines[i].path, lines[j].path)

\* The lines of print() so far.
Walking ==
  /\ pc = "walk" => request.kind \in WalkKinds /\ Listed /\ Standing
                    /\ Walked({p \in Cells(area) : Precedes(p, PathHere)})
  /\ pc = "answered" /\ request.kind \in WalkKinds => Walked(Cells(area))

\* The inductive invariant.
RequestIInv == Typed /\ Made /\ Dotting /\ Answering /\ Aggregated /\ Walking

\* The initial states satisfy it.
LEMMA RequestInitIInv == RequestInit => RequestIInv
<1> SUFFICES ASSUME RequestInit PROVE RequestIInv
  OBVIOUS
<1> USE DEF RequestInit
<1>1. Typed
  <2>1. \A d \in Dims : area[d] = {} /\ lists[d] = << >> /\ counter[d] = 1
    OBVIOUS
  <2>2. area \in [Dims -> SUBSET Nat] /\ counter \in [Dims -> Nat \ {0}]
    OBVIOUS
  <2>3. DOMAIN results \subseteq Paths /\ paths \in Seq(Paths) /\ lines \in Seq({TrueLine(p) : p \in Paths})
    OBVIOUS
  <2>4. DOMAIN lists = Dims /\ \A d \in Dims : lists[d] \in Seq(Known[d])
    BY <2>1
  <2>5. pc \in Places
    BY DEF Places
  <2>6. QED
    BY <2>1, <2>2, <2>3, <2>4, <2>5 DEF Typed
<1>2. QED
  BY <1>1 DEF RequestIInv, Made, Dotting, Answering, Aggregated, Walking

\* What the checks can come to.
Verdicts == {"ok", "error", "terminated"}

\* They come to nothing else.
LEMMA VerdictType == \A r \in Inputs : Verdict(r) \in Verdicts
<1>0. \A token : Failure(token) \in Verdicts
  BY DEF Failure, Verdicts
<1>1. \A path : PathVerdict(path) \in Verdicts
  <2> TAKE path
  <2> DEFINE bad == {d \in DOMAIN path : ~Fits(d, path[d])}
  <2>1. PathVerdict(path) = CASE Len(path) # N -> "error"
                              [] Len(path) = N /\ bad = {} -> "ok"
                              [] OTHER -> Failure(path[Smallest(bad)])
    BY Zenon DEF PathVerdict
  <2> HIDE DEF bad
  <2>2. QED
    BY <1>0, <2>1 DEF Verdicts
<1>2. \A d, list : SetVerdict(d, list) \in Verdicts
  <2> TAKE d, list
  <2> DEFINE bad == {i \in DOMAIN list : ~Fits(d, list[i])}
  <2>1. SetVerdict(d, list) = CASE list = << >> -> "error"
                                [] list # << >> /\ bad = {} -> "ok"
                                [] OTHER -> Failure(list[Smallest(bad)])
    BY Zenon DEF SetVerdict
  <2> HIDE DEF bad
  <2>2. QED
    BY <1>0, <2>1 DEF Verdicts
<1>3. \A ranges : RangesVerdict(ranges) \in Verdicts
  BY <1>0, Zenon DEF RangesVerdict, Verdicts
<1>4. ASSUME NEW kind \in {"/cell/values", "/cell/area", "getCell", "getArea"}
      PROVE  \A i, field : FieldVerdict(kind, i, field) \in Verdicts
  <2> TAKE i, field
  <2>1. PICK p, s, r : p = PathVerdict(field) /\ s = SetVerdict(i, field) /\ r = RangesVerdict(field)
    OBVIOUS
  <2>2. p \in Verdicts /\ s \in Verdicts /\ r \in Verdicts
    BY <1>1, <1>2, <1>3, <2>1
  <2>3. FieldVerdict(kind, i, field) = CASE kind = "/cell/values" -> p
                                         [] kind = "/cell/area" -> s
                                         [] kind = "getCell" -> IF p = "ok" THEN "ok" ELSE "error"
                                         [] kind = "getArea" -> r
    BY <2>1, Zenon DEF FieldVerdict
  <2>4. QED
    BY <2>2, <2>3 DEF Verdicts
<1>5. ASSUME NEW r \in Inputs PROVE Verdict(r) \in Verdicts
  <2> DEFINE bad == {i \in DOMAIN r.fields : FieldVerdict(r.kind, i, r.fields[i]) # "ok"}
  <2>1. Verdict(r) = IF r.kind # "unsupported" /\ r.cube = <<Text>> THEN "terminated"
                     ELSE IF \/ r.kind = "unsupported" \/ r.cube \notin {<< >>, <<CubeId>>} \/ r.fields = << >>
                             \/ r.kind \in {"/cell/area", "getArea"} /\ Len(r.fields) # N THEN "error"
                     ELSE IF bad = {} THEN "ok"
                     ELSE FieldVerdict(r.kind, Smallest(bad), r.fields[Smallest(bad)])
    BY Zenon DEF Verdict
  <2>2. r.kind # "unsupported" => FieldVerdict(r.kind, Smallest(bad), r.fields[Smallest(bad)]) \in Verdicts
    BY <1>4, FieldsAreLists
  <2> HIDE DEF bad
  <2>3. QED
    BY <2>1, <2>2 DEF Verdicts
<1>6. QED
  BY <1>5

\* A refusal keeps the invariant.
LEMMA RefuseStep ==
  ASSUME RequestIInv, Refuse
  PROVE  RequestIInv'
<1> USE DEF Refuse
<1>1. pc' \in {"error", "terminated"}
  BY VerdictType DEF RequestIInv, Typed, Verdicts
<1>2. Typed'
  BY <1>1, Zenon DEF RequestIInv, Typed, Places, TrueLine, Paths
<1>3. QED
  BY <1>1, <1>2 DEF RequestIInv, Made, Dotting, Answering, Aggregated, Walking

\* The list of an area made of ranges or paths.
LEMMA AscendingArea ==
  ASSUME NEW A, A \subseteq Nat, IsFiniteSet(A)
  PROVE  /\ Ascending(A) \in Seq(A) /\ Len(Ascending(A)) = Cardinality(A) /\ Cardinality(A) \in Nat
         /\ A # {} => Ascending(A) # << >>
         /\ \A i, j \in 1..Len(Ascending(A)) : i < j => Ascending(A)[i] < Ascending(A)[j]
         /\ \A x \in A : \E i \in 1..Len(Ascending(A)) : Ascending(A)[i] = x
<1>1. /\ Ascending(A) \in Seq(A) /\ Len(Ascending(A)) = Cardinality(A) /\ Cardinality(A) \in Nat
      /\ \A x \in A : \E i \in 1..Cardinality(A) : Ascending(A)[i] = x
  BY AscendingLists
<1>2. \A i, j \in 1..Len(Ascending(A)) : i < j => Ascending(A)[i] < Ascending(A)[j]
  BY <1>1, AscendingOrder
<1>3. A # {} => Ascending(A) # << >>
  <2>1. CASE A # {}
    <3>1. PICK x \in A : TRUE
      BY <2>1
    <3>2. \E i \in 1..Cardinality(A) : Ascending(A)[i] = x
      BY <1>1
    <3>3. Len(Ascending(A)) # 0
      BY <1>1, <3>2
    <3>4. QED
      BY <3>3
  <2>2. QED
    BY <2>1
<1>4. QED
  BY <1>1, <1>2, <1>3

\* The area of an accepted request has known elements only.
LEMMA AreaIsKnown ==
  ASSUME NEW r \in Inputs, Verdict(r) = "ok"
  PROVE  /\ AreaOf(r) \in [Dims -> SUBSET Nat]
         /\ \A d \in Dims : AreaOf(r)[d] \subseteq Known[d] /\ IsFiniteSet(AreaOf(r)[d])
         /\ r.kind \in CellKinds => \A d \in Dims : AreaOf(r)[d] = {path[d] : path \in Range(r.fields)}
         /\ r.kind = "/cell/area" => \A d \in Dims : AreaOf(r)[d] = Range(r.fields[d])
         /\ DOMAIN AreaOf(r) = Dims
<1>1. r.kind \in {"/cell/values", "/cell/area", "getCell", "getArea"}
  BY Accepted
<1>2. CASE r.kind \in CellKinds
  <2>1. AreaOf(r) = [d \in Dims |-> {path[d] : path \in Range(r.fields)}]
    BY <1>2 DEF AreaOf, Box, CellKinds
  <2>2. \A d \in Dims : {path[d] : path \in Range(r.fields)} \subseteq Known[d]
    BY <1>2, CellsFit DEF Range
  <2>3. QED
    BY <1>2, <2>1, <2>2, KnownSets, FS_Subset DEF CellKinds
<1>3. CASE r.kind = "/cell/area"
  <2>1. AreaOf(r) = [d \in Dims |-> Range(r.fields[d])]
    BY <1>3 DEF AreaOf
  <2>2. ASSUME NEW d \in Dims PROVE Range(r.fields[d]) \subseteq Known[d]
    <3>1. PICK f : f = r.fields[d]
      OBVIOUS
    <3>2. f \in Seq(Known[d])
      BY <1>3, <3>1, SetsFit
    <3>3. \A i \in DOMAIN f : f[i] \in Known[d]
      BY <3>2
    <3>4. QED
      BY <3>1, <3>3 DEF Range
  <2>3. QED
    BY <1>3, <2>1, <2>2, KnownSets, FS_Subset DEF CellKinds
<1>4. CASE r.kind = "getArea"
  <2>1. AreaOf(r) = [d \in Dims |-> Existing(d, r.fields[d])]
    BY <1>4 DEF AreaOf
  <2>2. \A d \in Dims : Existing(d, r.fields[d]) \subseteq Known[d]
    BY DEF Existing
  <2>3. QED
    BY <1>4, <2>1, <2>2, KnownSets, FS_Subset DEF CellKinds
<1>5. QED
  BY <1>1, <1>2, <1>3, <1>4 DEF CellKinds

\* dotPaths begins with at least one path to make and all wheels at 0.
LEMMA LapsPositive == Wheels => Lap(N) \in Nat \ {0} /\ \A d \in Dims : Digit(0, d) = 0
<1> SUFFICES ASSUME Wheels PROVE Lap(N) \in Nat \ {0} /\ \A d \in Dims : Digit(0, d) = 0
  OBVIOUS
<1>1. Lap(N) \in Nat \ {0}
  BY LapPositive, DimAssumption
<1>2. ASSUME NEW d \in Dims PROVE Digit(0, d) = 0
  <2>1. PICK a \in Nat \ {0}, b \in Nat \ {0} : a = Lap(d - 1) /\ b = Len(lists[d])
    BY LapBefore
  <2>2. 0 \div a = 0
    <3>1. 0 * a = 0 /\ (0 + 1) * a = a
      OBVIOUS
    <3>2. QED
      BY <3>1, OneQuotient
  <2>3. 0 % b = 0
    <3>1. 0 * b = 0 /\ (0 + 1) * b = b /\ b * 0 = 0
      OBVIOUS
    <3>2. 0 \div b = 0
      BY <3>1, OneQuotient
    <3>3. 0 = b * (0 \div b) + (0 % b) /\ 0 % b \in Int
      OBVIOUS
    <3>4. QED
      BY <3>1, <3>2, <3>3
  <2>4. QED
    BY <2>1, <2>2, <2>3 DEF Digit
<1>3. QED
  BY <1>1, <1>2

\* Lap as a product over the lengths, in this state and in the next.
Lengths == [d \in Dims |-> Len(lists[d])]

LEMMA LapIs == \A n \in Int : Lap(n) = ProductOver(Lengths, 1..n)
BY DEF Lap, ProductOver, Lengths

\* The same in the next state.
LEMMA LapIsNext == (\A n \in Int : Lap(n) = ProductOver(Lengths, 1..n))'
BY LapIs, PTL

\* The same in the next state.
LEMMA LapsPositiveNext == Wheels' => (Lap(N) \in Nat \ {0} /\ \A d \in Dims : Digit(0, d) = 0)'
BY LapsPositive, PTL

\* Cells of known elements are paths of the cube.
LEMMA CellsAreKnown ==
  ASSUME NEW A, \A d \in Dims : A[d] \subseteq Known[d], NEW p \in Cells(A)
  PROVE  p \in Paths /\ p \in Vectors /\ \A d \in Dims : p[d] \in A[d]
<1>1. p \in [Dims -> UNION {A[d] : d \in Dims}] /\ \A d \in Dims : p[d] \in A[d]
  BY DEF Cells
<1>2. \A d \in Dims : p[d] \in UNION {Known[e] : e \in Dims} /\ p[d] \in Nat
  BY <1>1, KnownSets
<1>3. QED
  BY <1>1, <1>2 DEF Paths, Vectors

\* A vector with its coordinates in the area is a cell.
LEMMA CellIs ==
  ASSUME NEW A, NEW p, DOMAIN p = Dims, p = [d \in Dims |-> p[d]], \A d \in Dims : p[d] \in A[d]
  PROVE  p \in Cells(A)
<1>1. \A d \in Dims : p[d] \in UNION {A[e] : e \in Dims}
  OBVIOUS
<1>2. QED
  BY <1>1 DEF Cells

\* An acceptance keeps the invariant.
LEMMA AcceptStep ==
  ASSUME RequestIInv, Accept
  PROVE  RequestIInv'
<1> USE DEF Accept
<1>0. /\ request \in Inputs /\ pc = "check" /\ Verdict(request) = "ok" /\ paths = << >> /\ lines = << >>
      /\ counter \in [Dims -> Nat \ {0}] /\ \A d \in Dims : counter[d] = 1
      /\ DOMAIN results \subseteq Paths
  BY DEF RequestIInv, Typed, Dotting, Answering
<1>1. /\ area' \in [Dims -> SUBSET Nat] /\ DOMAIN area' = Dims
      /\ \A d \in Dims : area'[d] \subseteq Known[d] /\ area'[d] \subseteq Nat /\ IsFiniteSet(area'[d])
  BY <1>0, AreaIsKnown, KnownSets
<1>2. request.kind \in {"/cell/values", "/cell/area", "getCell", "getArea"} /\ request.fields # << >>
  BY <1>0, Accepted
<1>3. DOMAIN lists' = Dims /\ \A d \in Dims : lists'[d] \in Seq(Known[d])
  <2>1. CASE request.kind = "/cell/area"
    BY <1>0, <2>1, SetsFit
  <2>2. CASE request.kind # "/cell/area"
    <3>1. lists' = [d \in Dims |-> Ascending(area'[d])]
      BY <2>2
    <3>2. ASSUME NEW d \in Dims PROVE Ascending(area'[d]) \in Seq(Known[d])
      <4>1. PICK A : A = area'[d] /\ A \subseteq Known[d] /\ A \subseteq Nat /\ IsFiniteSet(A)
        BY <1>1
      <4>2. Ascending(A) \in Seq(A)
        BY <4>1, AscendingArea
      <4>3. Ascending(A) \in Seq(Known[d])
        BY <4>1, <4>2
      <4>4. QED
        BY <4>1, <4>3
    <3>3. QED
      BY <3>1, <3>2
  <2>3. QED
    BY <2>1, <2>2
<1>4. paths' \in Seq(Paths)
  BY <1>0, CellsFit DEF CellKinds
<1>5. Typed'
  <2>1. pc' \in Places /\ lines' = << >>
    BY <1>0 DEF Places
  <2>2. lines' \in Seq({TrueLine(p) : p \in Paths})'
    BY <2>1
  <2>3. (counter \in [Dims -> Nat \ {0}] /\ \A d \in Dims : counter[d] = 1)'
    BY <1>0
  <2>4. QED
    BY <1>0, <1>1, <1>3, <1>4, <2>1, <2>2, <2>3 DEF Typed
<1>6. request.kind = "/cell/area" => lists' = request.fields /\ Wheels' /\ \A d \in Dims : area'[d] = Range(lists'[d])
  BY <1>0, AreaIsKnown, SetsFit DEF Wheels
<1>7. Made'
  BY <1>0, <1>6 DEF Made
<1>8. Dotting'
  <2>1. request.kind = "/cell/area" => 0 < (Lap(N))' /\ \A d \in Dims : (Digit(0, d))' = 0
    BY <1>6, LapsPositiveNext
  <2>2. CASE request.kind = "/cell/area"
    <3>1. pc' = "dot" /\ paths' = << >> /\ request' = request /\ counter' = counter
      BY <2>2
    <3>2. Dotted'
      BY <3>1 DEF Dotted
    <3>3. Len(paths') = 0
      BY <3>1
    <3>4. (\A d \in Dims : counter[d] = Digit(Len(paths), d) + 1)'
      BY <1>0, <2>1, <2>2, <3>1, <3>3
    <3>5. QED
      BY <2>1, <2>2, <3>1, <3>2, <3>3, <3>4 DEF Dotting
  <2>3. CASE request.kind # "/cell/area"
    BY <2>3 DEF Dotting
  <2>4. QED
    BY <2>2, <2>3
<1>9. Answering'
  <2>1. CASE request.kind = "/cell/values"
    <3>1. ASSUME NEW i \in 1..Len(paths') PROVE paths'[i] \in Cells(area')
      <4>1. i \in DOMAIN request.fields /\ paths' = request.fields
        BY <2>1, <1>0, FieldsAreLists
      <4>2. PICK p : p = request.fields[i] /\ p \in Paths
        BY <1>0, <2>1, <4>1, CellsFit DEF CellKinds
      <4>3. p \in Range(request.fields)
        BY <4>1, <4>2 DEF Range
      <4>4. \A d \in Dims : p[d] \in area'[d]
        BY <1>0, <2>1, <4>3, AreaIsKnown DEF CellKinds
      <4>5. DOMAIN p = Dims /\ p = [d \in Dims |-> p[d]]
        BY <4>2 DEF Paths
      <4>6. QED
        BY <4>1, <4>2, <4>4, <4>5, CellIs
    <3>2. (\A i \in 1..Len(paths) : paths[i] \in Cells(area))'
      BY <3>1 DEF Cells
    <3>3. QED
      BY <1>0, <1>2, <2>1, <3>2 DEF Answering
  <2>2. CASE request.kind # "/cell/values"
    BY <1>0, <2>2 DEF Answering, PathKinds
  <2>3. QED
    BY <2>1, <2>2
<1>10. Aggregated' /\ Walking'
  BY DEF Aggregated, Walking
<1>11. QED
  BY <1>5, <1>7, <1>8, <1>9, <1>10 DEF RequestIInv

\* What dotPaths makes are cells of the area.
LEMMA DotIsCell ==
  ASSUME Wheels, DOMAIN lists = Dims, \A d \in Dims : lists[d] \in Seq(Known[d]),
         \A d \in Dims : area[d] = Range(lists[d]), NEW k \in Nat
  PROVE  DotAt(k) \in Cells(area)
<1>1. ASSUME NEW d \in Dims PROVE DotAt(k)[d] \in area[d]
  <2>1. PICK a \in Nat \ {0}, list \in Seq(Known[d]) :
          a = Lap(d - 1) /\ list = lists[d] /\ Len(list) \in Nat \ {0}
    BY LapBefore
  <2>2. Digit(k, d) \in 0..(Len(list) - 1)
    BY <2>1, Quotient, OneOn DEF Digit
  <2>3. Digit(k, d) + 1 \in DOMAIN list
    BY <2>1, <2>2
  <2>4. QED
    BY <2>1, <2>3 DEF DotAt, Range
<1>2. DOMAIN DotAt(k) = Dims /\ DotAt(k) = [d \in Dims |-> DotAt(k)[d]]
  BY DEF DotAt
<1>3. QED
  BY <1>1, <1>2, CellIs

\* One path of dotPaths keeps the invariant.
LEMMA DotPathStep ==
  ASSUME RequestIInv, DotPath
  PROVE  RequestIInv'
<1> USE DEF DotPath
<1> DEFINE k == Len(paths)
<1>0. /\ pc = "dot" /\ request.kind = "/cell/area" /\ paths \in Seq(Paths) /\ k \in Nat
      /\ Dotted /\ k < Lap(N) /\ lines = << >>
      /\ \A d \in Dims : counter[d] = Digit(k, d) + 1
      /\ counter \in [Dims -> Nat \ {0}] /\ N \in Nat /\ Dims = 1..N
  BY DimAssumption DEF RequestIInv, Typed, Dotting, Answering, Dims
<1>1. Wheels /\ DOMAIN lists = Dims /\ \A d \in Dims : area[d] = Range(lists[d]) /\ lists[d] \in Seq(Known[d])
  BY <1>0 DEF RequestIInv, Typed, Made
<1>2. PathHere = DotAt(k) /\ DotAt(k) \in Cells(area) /\ DotAt(k) \in Paths
  <2>1. DotAt(k) \in Cells(area)
    BY <1>0, <1>1, DotIsCell
  <2>2. PathHere = DotAt(k)
    BY <1>0 DEF PathHere, DotAt
  <2>3. DotAt(k) \in Paths
    BY <2>1, CellsAreKnown DEF RequestIInv, Typed
  <2>4. QED
    BY <2>1, <2>2, <2>3
<1>3. paths' \in Seq(Paths) /\ Len(paths') = k + 1 /\ paths'[k + 1] = DotAt(k) /\ \A i \in 1..k : paths'[i] = paths[i]
  BY <1>0, <1>2
<1>4. \A i \in 1..Len(paths') : paths'[i] = DotAt(i - 1)
  <2> TAKE i \in 1..Len(paths')
  <2>1. CASE i = k + 1
    BY <1>0, <1>3, <2>1
  <2>2. CASE i \in 1..k
    BY <1>0, <1>3, <2>2 DEF Dotted
  <2>3. QED
    BY <1>0, <1>3, <2>1, <2>2
<1>5. Lap(N) \in Nat \ {0} /\ k \div Lap(N) = 0
  <2>1. PICK a \in Nat \ {0} : a = Lap(N)
    BY <1>1, LapsPositive
  <2>2. 0 * a = 0 /\ (0 + 1) * a = a
    OBVIOUS
  <2>3. k \div a = 0
    <3>1. 0 * a =< k /\ k < (0 + 1) * a
      BY <1>0, <2>1, <2>2
    <3> HIDE DEF k
    <3>2. QED
      BY <1>0, <3>1, OneQuotient
  <2>4. QED
    BY <2>1, <2>3
<1> HIDE DEF k
<1>6. lists' = lists /\ area' = area /\ request' = request /\ lines' = << >> /\ results' = results
  BY <1>0
<1>7. /\ \A n \in Int : Lap(n)' = Lap(n)
      /\ \A n \in Nat, d \in Dims : Digit(n, d)' = Digit(n, d)
      /\ \A n \in Nat : DotAt(n)' = DotAt(n)
  <2>1. \A n \in Int : Lap(n)' = Lap(n)
    <3>1. Lengths' = Lengths
      BY <1>6 DEF Lengths
    <3>2. QED
      BY <3>1, LapIs, LapIsNext
  <2>2. \A n \in Nat, d \in Dims : Digit(n, d)' = Digit(n, d)
    BY <1>0, <1>6, <2>1 DEF Digit
  <2>3. ASSUME NEW n \in Nat PROVE DotAt(n)' = DotAt(n)
    <3>1. \A d \in Dims : lists'[d][Digit(n, d)' + 1] = lists[d][Digit(n, d) + 1]
      BY <1>6, <2>2
    <3>2. QED
      BY <3>1, Zenon DEF DotAt
  <2>4. QED
    BY <2>1, <2>2, <2>3
<1>8. Dotted'
  <2>1. \A i \in 1..Len(paths') : i - 1 \in Nat
    BY <1>0, <1>3
  <2>2. QED
    BY <1>4, <1>7, <2>1 DEF Dotted
<1>9. \A i \in 1..Len(paths') : paths'[i] \in Cells(area)
  <2>1. \A i \in 1..Len(paths') : i - 1 \in Nat
    BY <1>0, <1>3
  <2>2. \A n \in Nat : DotAt(n) \in Cells(area)
    BY <1>1, DotIsCell
  <2>3. QED
    BY <1>4, <2>1, <2>2
<1>10. \A d \in Dims : Digit(k, d) \in 0..(Len(lists[d]) - 1) /\ Len(lists[d]) \in Nat \ {0}
  <2> TAKE d \in Dims
  <2>1. PICK a \in Nat \ {0}, b \in Nat \ {0} : a = Lap(d - 1) /\ b = Len(lists[d])
    BY <1>1, LapBefore
  <2>2. k \div a \in Nat
    BY <1>0, <2>1, Quotient
  <2>3. (k \div a) % b \in 0..(b - 1)
    BY <2>1, <2>2, OneOn
  <2>4. QED
    BY <2>1, <2>3 DEF Digit
<1>11. Made'
  BY <1>0, <1>6, Zenon DEF RequestIInv, Made, Wheels
<1>12. ASSUME Open # {}, counter' = DotTurned, pc' = pc
       PROVE  RequestIInv'
  <2>1. PICK m : m = Smallest(Open)
    OBVIOUS
  <2>2. m \in Open /\ \A d \in Open : m =< d
    <3>1. Open \in SUBSET Nat
      BY <1>0 DEF Open
    <3>2. QED
      BY <1>12, <2>1, <3>1, SmallestIs
  <2>3. m \in Dims /\ m \in Nat \ {0} /\ Digit(k, m) # Len(lists[m]) - 1
    <3>1. m \in Dims /\ counter[m] < Len(lists[m])
      BY <2>2 DEF Open
    <3>2. QED
      BY <1>0, <1>10, <3>1, SMTT(30)
  <2>4. ASSUME NEW d \in Dims, d < m PROVE Digit(k, d) = Len(lists[d]) - 1
    <3>1. d \notin Open
      BY <1>0, <2>2, <2>3, <2>4
    <3>2. ~(counter[d] < Len(lists[d]))
      BY <3>1 DEF Open
    <3>3. PICK x \in Nat, l \in Nat : x = Digit(k, d) /\ l = Len(lists[d]) /\ x =< l - 1
      BY <1>10
    <3>4. counter[d] = x + 1
      BY <1>0, <3>3
    <3>5. QED
      BY <3>2, <3>3, <3>4
  <2>5. /\ \A n \in 0..N : (k + 1) \div Lap(n) = IF n < m THEN (k \div Lap(n)) + 1 ELSE k \div Lap(n)
        /\ \A d \in Dims : Digit(k + 1, d) = IF d < m THEN 0 ELSE IF d = m THEN Digit(k, d) + 1 ELSE Digit(k, d)
    BY <1>0, <1>1, <2>3, <2>4, OneTurn
  <2>6. k + 1 < Lap(N)
    <3>1. (k + 1) \div Lap(N) = 0
      BY <1>0, <1>5, <2>3, <2>5
    <3>2. PICK a \in Nat \ {0}, x \in Nat : a = Lap(N) /\ x = k + 1
      BY <1>0, <1>5
    <3>3. x \div a = 0 /\ x < (x \div a + 1) * a
      BY <3>1, <3>2, Quotient
    <3>4. (0 + 1) * a = a
      OBVIOUS
    <3>5. QED
      BY <3>2, <3>3, <3>4
  <2>7. counter' = [d \in Dims |-> IF d < m THEN 1 ELSE IF d = m THEN counter[d] + 1 ELSE counter[d]]
    BY <1>12, <2>1, Zenon DEF DotTurned
  <2>8. ASSUME NEW d \in Dims
        PROVE  counter'[d] = Digit(k + 1, d) + 1 /\ counter'[d] \in Nat \ {0} /\ counter'[d] \in 1..Len(lists[d])
    <3>0. d \in Nat /\ m \in Nat
      BY <1>0, <2>3
    <3>1. CASE d < m
      BY <1>10, <2>5, <2>7, <3>1
    <3>2. CASE d = m
      <4>1. counter'[d] = Digit(k, d) + 1 + 1 /\ Digit(k + 1, d) = Digit(k, d) + 1
        BY <1>0, <2>5, <2>7, <3>0, <3>2
      <4>2. Digit(k, d) # Len(lists[d]) - 1 /\ Digit(k, d) \in 0..(Len(lists[d]) - 1) /\ Len(lists[d]) \in Nat
        BY <1>10, <2>3, <3>2
      <4>3. QED
        BY <4>1, <4>2
    <3>3. CASE d > m
      <4>1. counter'[d] = Digit(k, d) + 1 /\ Digit(k + 1, d) = Digit(k, d)
        BY <1>0, <2>5, <2>7, <3>0, <3>3
      <4>2. Digit(k, d) \in 0..(Len(lists[d]) - 1) /\ Len(lists[d]) \in Nat
        BY <1>10
      <4>3. QED
        BY <4>1, <4>2
    <3>4. QED
      BY <3>0, <3>1, <3>2, <3>3
  <2>9. Typed'
    <3>1. counter' \in [Dims -> Nat \ {0}]
      BY <2>7, <2>8
    <3>2. (\A d \in Dims : counter[d] = 1 \/ counter[d] \in 1..Len(lists[d]))'
      BY <1>6, <2>8
    <3>3. QED
      BY <1>0, <1>3, <1>6, <1>12, <3>1, <3>2 DEF RequestIInv, Typed
  <2>10. Dotting'
    <3>1. (\A d \in Dims : counter[d] = Digit(Len(paths), d) + 1)'
      BY <1>0, <1>3, <1>7, <2>8
    <3>2. (Len(paths) < Lap(N))'
      BY <1>0, <1>3, <1>7, <2>6
    <3>3. QED
      BY <1>0, <1>6, <1>8, <1>12, <3>1, <3>2 DEF Dotting
  <2>11. Answering' /\ Aggregated' /\ Walking'
    BY <1>0, <1>6, <1>12 DEF Answering, Aggregated, Walking
  <2>12. QED
    BY <1>11, <2>9, <2>10, <2>11 DEF RequestIInv
<1>13. ASSUME Open = {}, pc' = "aggregate", counter' = counter
       PROVE  RequestIInv'
  <2>1. N + 1 \in Nat \ {0} /\ N + 1 \notin Dims
    BY <1>0
  <2>2. ASSUME NEW d \in Dims PROVE Digit(k, d) = Len(lists[d]) - 1
    <3>1. ~(counter[d] < Len(lists[d]))
      BY <1>13 DEF Open
    <3>2. PICK x \in Nat, l \in Nat : x = Digit(k, d) /\ l = Len(lists[d]) /\ x =< l - 1
      BY <1>10
    <3>3. counter[d] = x + 1
      BY <1>0, <3>2
    <3>4. QED
      BY <3>1, <3>2, <3>3
  <2>3. k + 1 = Lap(N)
    <3>0. PICK m \in Nat \ {0} : m = N + 1
      BY <2>1
    <3>1. \A n \in 0..N : (k + 1) \div Lap(n) = IF n < m THEN (k \div Lap(n)) + 1 ELSE k \div Lap(n)
      <4>1. m \notin Dims /\ \A d \in Dims : d < m => Digit(k, d) = Len(lists[d]) - 1
        BY <2>1, <2>2, <3>0
      <4>2. QED
        BY <1>0, <1>1, <4>1, OneTurn
    <3>2. (k + 1) \div Lap(N) = 1
      BY <1>0, <1>5, <3>0, <3>1
    <3>3. PICK a \in Nat \ {0}, x \in Nat : a = Lap(N) /\ x = k + 1
      BY <1>0, <1>5
    <3>4. x \div a = 1 /\ (x \div a) * a =< x
      BY <3>2, <3>3, Quotient
    <3>5. 1 * a = a
      OBVIOUS
    <3>6. QED
      BY <1>0, <3>3, <3>4, <3>5
  <2>4. Typed'
    BY <1>3, <1>6, <1>13 DEF RequestIInv, Typed, Places
  <2>5. Dotting'
    <3>1. (Len(paths) = Lap(N))'
      BY <1>0, <1>3, <1>7, <2>3
    <3>2. QED
      BY <1>0, <1>6, <1>8, <1>13, <3>1 DEF Dotting
  <2>6. Answering'
    <3>1. paths' # << >>
      BY <1>0, <1>3
    <3>2. (\A i \in 1..Len(paths) : paths[i] \in Cells(area))'
      BY <1>6, <1>9, SMTT(30) DEF Cells
    <3>3. QED
      BY <1>6, <1>13, <3>1, <3>2 DEF Answering
  <2>7. Aggregated' /\ Walking'
    BY <1>0, <1>6, <1>13 DEF Aggregated, Walking
  <2>8. QED
    BY <1>11, <2>4, <2>5, <2>6, <2>7 DEF RequestIInv
<1>14. QED
  BY <1>12, <1>13

\* With the shortcut for a base cell or without, a cell's line is the true one.
LEMMA LineIsTrue ==
  ASSUME NEW p \in Cells(area),
         results = IF Cardinality(Cells(area)) = 1 /\ \A path \in Cells(area) : IsBase(path)
                   THEN << >> ELSE Restrict(Value, Cells(area) \cap DOMAIN Value)
  PROVE  Line(p) = TrueLine(p)
<1>1. CASE IsBase(p)
  BY <1>1 DEF Line, TrueLine
<1>2. CASE ~IsBase(p)
  <2>1. results = [x \in Cells(area) \cap DOMAIN Value |-> Value[x]]
    BY <1>2 DEF Restrict
  <2>2. /\ p \in DOMAIN results <=> p \in DOMAIN Value
        /\ p \in DOMAIN Value => results[p] = Value[p]
    BY <2>1
  <2>3. Line(p) = [path |-> p, value |-> IF p \in DOMAIN results THEN {results[p]} ELSE {}]
    BY <1>2 DEF Line
  <2>4. QED
    BY <2>2, <2>3 DEF TrueLine
<1>3. QED
  BY <1>1, <1>2

\* So after the aggregation every cell has its true line.
LEMMA LinesAreTrue ==
  (results = IF Cardinality(Cells(area)) = 1 /\ \A path \in Cells(area) : IsBase(path)
             THEN << >> ELSE Restrict(Value, Cells(area) \cap DOMAIN Value))
  => \A p \in Cells(area) : Line(p) = TrueLine(p)
BY LineIsTrue

\* The same in the next state.
LEMMA LinesAreTrueNext ==
  ((results = IF Cardinality(Cells(area)) = 1 /\ \A path \in Cells(area) : IsBase(path)
              THEN << >> ELSE Restrict(Value, Cells(area) \cap DOMAIN Value))
   => \A p \in Cells(area) : Line(p) = TrueLine(p))'
BY LinesAreTrue, PTL

\* The aggregation keeps the invariant.
LEMMA AggregateStep ==
  ASSUME RequestIInv, Aggregate
  PROVE  RequestIInv'
<1> USE DEF Aggregate
<1>0. /\ pc = "aggregate" /\ lines = << >> /\ Typed /\ Made
      /\ counter' = [d \in Dims |-> 1]
      /\ lists' = lists /\ area' = area /\ request' = request /\ lines' = lines /\ paths' = paths
  BY DEF RequestIInv, Answering
<1>1. request \in Inputs /\ Verdict(request) = "ok" /\ area = AreaOf(request)
  BY <1>0 DEF Typed, Made
<1>2. request.kind \in {"/cell/values", "/cell/area", "getCell", "getArea"}
  BY <1>1, Accepted
<1>3. Cells(area)' = Cells(area)
  BY <1>0 DEF Cells
<1>4. DOMAIN results' \subseteq Paths
  <2>1. Cells(area) \subseteq Paths
    BY <1>0, CellsAreKnown DEF Typed
  <2>2. CASE results' = << >>
    BY <2>2
  <2>3. CASE results' = Restrict(Value, Cells(area) \cap DOMAIN Value)
    BY <2>1, <2>3 DEF Restrict
  <2>4. QED
    BY <2>2, <2>3
<1>5. pc' \in {"result", "walk", "answered"}
  BY DEF BeginWalk
<1>6. Typed'
  <2>1. counter' \in [Dims -> Nat \ {0}] /\ \A d \in Dims : counter'[d] = 1
    BY <1>0
  <2>2. pc' \in Places
    BY <1>5 DEF Places
  <2>3. (\A d \in Dims : counter[d] = 1 \/ counter[d] \in 1..Len(lists[d]))'
    BY <2>1
  <2>4. QED
    BY <1>0, <1>4, <2>1, <2>2, <2>3 DEF Typed
<1>7. Made'
  BY <1>0, <1>5, Zenon DEF Made, Wheels
<1>8. Aggregated'
  <2>1. (results = IF Cardinality(Cells(area)) = 1 /\ \A path \in Cells(area) : IsBase(path)
                   THEN << >> ELSE Restrict(Value, Cells(area) \cap DOMAIN Value))'
    BY <1>0
  <2>2. (\A p \in Cells(area) : Line(p) = TrueLine(p))'
    BY <2>1, LinesAreTrueNext
  <2>3. QED
    BY <2>2 DEF Aggregated
<1>9. CASE request.kind \in PathKinds
  <2>1. pc' = "result" /\ request.kind \notin WalkKinds
    BY <1>9 DEF PathKinds, WalkKinds
  <2>2. paths # << >> /\ paths \in Seq(Paths) /\ \A i \in 1..Len(paths) : paths[i] \in Cells(area)
    BY <1>0, <1>9 DEF RequestIInv, Answering, Typed
  <2>3. Len(paths) \in Nat /\ 0 < Len(paths)
    <3>1. Len(paths) \in Nat /\ Len(paths) # 0
      BY <2>2, EmptySeq
    <3>2. QED
      BY <3>1
  <2>4. Answering'
    <3>1. (\A i \in 1..Len(paths) : paths[i] \in Cells(area))'
      BY <1>0, <1>3, <2>2
    <3>2. lines' = << >> /\ Len(lines') = 0
      BY <1>0
    <3>3. QED
      BY <1>0, <1>9, <2>1, <2>2, <2>3, <3>1, <3>2 DEF Answering
  <2>5. Dotting'
    <3>1. \A n \in Int : Lap(n)' = Lap(n)
      <4>1. Lengths' = Lengths
        BY <1>0 DEF Lengths
      <4>2. QED
        BY <4>1, LapIs, LapIsNext
    <3>2. N \in Int
      BY DimAssumption
    <3>3. request.kind = "/cell/area" => Dotted' /\ Len(paths') = (Lap(N))'
      <4>1. CASE request.kind = "/cell/area"
        <5>1. Dotted /\ Len(paths) = Lap(N)
          BY <1>0, <4>1 DEF RequestIInv, Dotting
        <5>2. Dotted'
          <6>1. \A n \in Int, d \in Dims : Digit(n, d)' = Digit(n, d)
            <7>1. \A d \in Dims : d - 1 \in Int
              BY DimAssumption DEF Dims
            <7>2. QED
              BY <1>0, <3>1, <7>1 DEF Digit
          <6>2. ASSUME NEW n \in Int PROVE DotAt(n)' = DotAt(n)
            <7>1. \A d \in Dims : lists'[d][Digit(n, d)' + 1] = lists[d][Digit(n, d) + 1]
              BY <1>0, <6>1
            <7>2. QED
              BY <7>1, Zenon DEF DotAt
          <6>3. \A i \in 1..Len(paths) : i - 1 \in Int
            BY <2>3
          <6>4. QED
            BY <1>0, <5>1, <6>2, <6>3 DEF Dotted
        <5>3. QED
          BY <1>0, <3>1, <3>2, <5>1, <5>2
      <4>2. QED
        BY <4>1
    <3>4. request.kind = "/cell/values" => paths' = request'.fields
      BY <1>0 DEF RequestIInv, Dotting
    <3>5. QED
      BY <1>0, <2>1, <3>3, <3>4 DEF Dotting
  <2>6. Walking'
    BY <1>0, <2>1 DEF Walking
  <2>7. QED
    BY <1>6, <1>7, <1>8, <2>4, <2>5, <2>6 DEF RequestIInv
<1>10. CASE request.kind \in WalkKinds
  <2>1. request.kind \notin PathKinds /\ pc' = BeginWalk /\ pc' \in {"walk", "answered"}
    BY <1>10 DEF PathKinds, WalkKinds, BeginWalk
  <2>2. Answering' /\ Dotting'
    BY <1>0, <2>1 DEF Answering, Dotting, PathKinds
  <2>3. CASE Cells(area) = {}
    <3>1. pc' = "answered" /\ Cells(area') = {} /\ lines' = << >> /\ Len(lines') = 0
      BY <1>0, <1>3, <2>1, <2>3 DEF BeginWalk
    <3>2. Walking'
      BY <3>1 DEF Walking, Walked
    <3>3. QED
      BY <1>6, <1>7, <1>8, <2>2, <3>2 DEF RequestIInv
  <2>4. CASE Cells(area) # {}
    <3>1. pc' = "walk"
      BY <2>1, <2>4 DEF BeginWalk
    <3>2. PICK p \in Cells(area) : TRUE
      BY <2>4
    <3>3. Listed
      <4>1. DOMAIN lists = Dims
        BY <1>0 DEF Typed
      <4>2. ASSUME NEW d \in Dims
            PROVE  /\ area[d] \subseteq Nat /\ lists[d] \in Seq(area[d]) /\ lists[d] # << >>
                   /\ \A i, j \in 1..Len(lists[d]) : i < j => lists[d][i] < lists[d][j]
                   /\ \A x \in area[d] : \E i \in 1..Len(lists[d]) : lists[d][i] = x
        <5>1. PICK A : A = area[d]
          OBVIOUS
        <5>2. A \subseteq Nat /\ IsFiniteSet(A)
          BY <1>1, <5>1, AreaIsKnown, KnownSets
        <5>3. A # {}
          BY <3>2, <5>1 DEF Cells
        <5>4. lists[d] = Ascending(A)
          BY <1>0, <1>2, <1>10, <5>1 DEF Made, WalkKinds
        <5>5. PICK list : list = Ascending(A)
          OBVIOUS
        <5>6. /\ list \in Seq(A) /\ list # << >>
              /\ \A i, j \in 1..Len(list) : i < j => list[i] < list[j]
              /\ \A x \in A : \E i \in 1..Len(list) : list[i] = x
          BY <5>2, <5>3, <5>5, AscendingArea, Zenon
        <5>7. QED
          BY <5>1, <5>2, <5>4, <5>5, <5>6
      <4>3. QED
        BY <4>1, <4>2 DEF Listed
    <3>4. Listed'
      BY <1>0, <3>3, SMTT(30) DEF Listed
    <3>5. Standing'
      <4>1. \A d \in Dims : 1 \in 1..Len(lists[d])
        BY <3>3, InList
      <4>2. QED
        BY <1>0, <4>1 DEF Standing
    <3>6. ASSUME NEW q \in Cells(area), Precedes(q, PathHere') PROVE FALSE
      <4>1. PICK d \in Dims : q[d] < PathHere'[d]
        BY <3>6 DEF Precedes
      <4>2. PathHere'[d] = lists[d][1]
        BY <1>0 DEF PathHere
      <4>3. q[d] \in area[d]
        BY DEF Cells
      <4>4. PICK i \in 1..Len(lists[d]) : lists[d][i] = q[d]
        BY <3>3, <4>3, InList
      <4>5. /\ 1 \in 1..Len(lists[d]) /\ lists[d][1] \in Nat /\ lists[d][i] \in Nat
            /\ 1 < i => lists[d][1] < lists[d][i]
        <5>1. Len(lists[d]) \in Nat \ {0}
          BY <3>3, InList
        <5>2. 1 \in 1..Len(lists[d])
          BY <5>1
        <5>3. QED
          BY <3>3, <5>2, InList
      <4>6. QED
        BY <4>1, <4>2, <4>4, <4>5
    <3>7. (Walked({q \in Cells(area) : Precedes(q, PathHere)}))'
      <4>1. {q \in Cells(area') : Precedes(q, PathHere')} = {}
        BY <1>0, <3>6
      <4>2. lines' = << >> /\ Len(lines') = 0
        BY <1>0
      <4>3. QED
        BY <4>1, <4>2 DEF Walked
    <3>8. Walking'
      BY <1>0, <1>10, <3>1, <3>4, <3>5, <3>7 DEF Walking
    <3>9. QED
      BY <1>6, <1>7, <1>8, <2>2, <3>8 DEF RequestIInv
  <2>5. QED
    BY <2>3, <2>4
<1>11. QED
  BY <1>2, <1>9, <1>10 DEF PathKinds, WalkKinds

\* With the lists, the number of paths stays,
LEMMA LapsStay ==
  ASSUME lists' = lists
  PROVE  Lap(N)' = Lap(N)
<1>1. Lengths' = Lengths /\ N \in Int
  BY DimAssumption DEF Lengths
<1>2. QED
  BY <1>1, LapIs, LapIsNext

\* and where the wheels stand.
LEMMA DigitsStay ==
  ASSUME lists' = lists, paths' = paths, paths \in Seq(Paths)
  PROVE  \A d \in Dims : Digit(Len(paths), d)' = Digit(Len(paths), d)
<1>1. Lengths' = Lengths
  BY DEF Lengths
<1>2. \A d \in Dims : d - 1 \in Int
  BY DimAssumption DEF Dims
<1>3. \A d \in Dims : Lap(d - 1)' = Lap(d - 1)
  BY <1>1, <1>2, LapIs, LapIsNext
<1>4. QED
  BY <1>3 DEF Digit

\* The paths of dotPaths are those of its lists, whatever else is done.
LEMMA DottedStays ==
  ASSUME lists' = lists, paths' = paths, paths \in Seq(Paths), Dotted
  PROVE  Dotted'
<1>1. \A n \in Int : Lap(n)' = Lap(n)
  <2>1. Lengths' = Lengths
    BY DEF Lengths
  <2>2. QED
    BY <2>1, LapIs, LapIsNext
<1>2. \A n \in Int, d \in Dims : Digit(n, d)' = Digit(n, d)
  <2>1. \A d \in Dims : d - 1 \in Int
    BY DimAssumption DEF Dims
  <2>2. QED
    BY <1>1, <2>1 DEF Digit
<1>3. ASSUME NEW n \in Int PROVE DotAt(n)' = DotAt(n)
  <2>1. \A d \in Dims : lists'[d][Digit(n, d)' + 1] = lists[d][Digit(n, d) + 1]
    BY <1>2
  <2>2. QED
    BY <2>1, Zenon DEF DotAt
<1>4. \A i \in 1..Len(paths) : i - 1 \in Int
  OBVIOUS
<1>5. QED
  BY <1>3, <1>4 DEF Dotted

\* And what the lines of the cells say.
LEMMA LinesStay ==
  ASSUME area' = area, results' = results, \A p \in Cells(area) : Line(p) = TrueLine(p)
  PROVE  (\A p \in Cells(area) : Line(p) = TrueLine(p))'
<1>1. Cells(area)' = Cells(area)
  BY DEF Cells
<1>2. \A p \in Cells(area) : Line(p)' = Line(p) /\ TrueLine(p)' = TrueLine(p)
  BY Zenon DEF Line, TrueLine, IsBase
<1>3. QED
  BY <1>1, <1>2, Zenon

\* And what PathIterator runs over.
LEMMA ListedStays ==
  ASSUME Listed, lists' = lists, area' = area
  PROVE  Listed'
<1>1. DOMAIN lists' = Dims
  BY DEF Listed
<1>2. ASSUME NEW d \in Dims
      PROVE  /\ area'[d] \subseteq Nat /\ lists'[d] \in Seq(area'[d]) /\ lists'[d] # << >>
             /\ \A i, j \in 1..Len(lists'[d]) : i < j => lists'[d][i] < lists'[d][j]
             /\ \A x \in area'[d] : \E i \in 1..Len(lists'[d]) : lists'[d][i] = x
  BY Zenon DEF Listed
<1>3. QED
  BY <1>1, <1>2, Zenon DEF Listed

\* One line of result() keeps the invariant.
LEMMA ResultLineStep ==
  ASSUME RequestIInv, ResultLine
  PROVE  RequestIInv'
<1> USE DEF ResultLine
<1> DEFINE n == Len(lines)
<1>0. /\ pc = "result" /\ Typed /\ Made /\ request.kind \in PathKinds /\ n < Len(paths)
      /\ paths # << >> /\ \A i \in 1..Len(paths) : paths[i] \in Cells(area)
      /\ \A i \in 1..n : lines[i] = TrueLine(paths[i])
      /\ \A p \in Cells(area) : Line(p) = TrueLine(p)
      /\ counter' = counter /\ lists' = lists /\ area' = area /\ request' = request /\ paths' = paths
      /\ results' = results
  BY DEF RequestIInv, Answering, Aggregated
<1>1. paths \in Seq(Paths) /\ lines \in Seq({TrueLine(p) : p \in Paths})
  BY <1>0 DEF Typed
<1>2. n \in Nat /\ Len(paths) \in Nat
  BY <1>1
<1>3. n + 1 \in 1..Len(paths)
  BY <1>0, <1>2
<1>4. lines' = Append(lines, TrueLine(paths[n + 1])) /\ paths[n + 1] \in Paths
  BY <1>0, <1>1, <1>3
<1>5. lines' \in Seq({TrueLine(p) : p \in Paths}) /\ Len(lines') = n + 1
  BY <1>1, <1>4
<1>6. \A i \in 1..Len(lines') : lines'[i] = TrueLine(paths[i])
  <2> TAKE i \in 1..Len(lines')
  <2>1. CASE i = n + 1
    BY <1>1, <1>4, <2>1
  <2>2. CASE i \in 1..n
    BY <1>0, <1>1, <1>4, <2>2
  <2>3. QED
    BY <1>2, <1>5, <2>1, <2>2
<1> HIDE DEF n
<1>7. pc' \in {"result", "answered"} /\ request.kind \notin WalkKinds
  BY <1>0 DEF PathKinds, WalkKinds
<1>8. Typed'
  <2>1. (lines \in Seq({TrueLine(p) : p \in Paths}))'
    BY <1>5 DEF TrueLine, Paths
  <2>2. QED
    BY <1>0, <1>7, <2>1 DEF Typed, Places
<1>9. Made'
  BY <1>0, <1>7, Zenon DEF Made, Wheels
<1>10. Dotting'
  <2>1. (Lap(N))' = Lap(N)
    BY <1>0, LapsStay
  <2>2. request.kind = "/cell/area" => Dotted' /\ Len(paths') = (Lap(N))'
    BY <1>0, <1>1, <2>1, DottedStays DEF RequestIInv, Dotting
  <2>3. request.kind = "/cell/values" => paths' = request'.fields
    BY <1>0 DEF RequestIInv, Dotting
  <2>4. QED
    BY <1>0, <1>7, <2>2, <2>3 DEF Dotting
<1>11. Answering'
  <2>1. (\A i \in 1..Len(paths) : paths[i] \in Cells(area))'
    BY <1>0 DEF Cells
  <2>2. (\A i \in 1..Len(lines) : lines[i] = TrueLine(paths[i]))'
    BY <1>0, <1>6 DEF TrueLine
  <2>3. n + 1 =< Len(paths)
    BY <1>3
  <2>4. pc' = "answered" => n + 1 = Len(paths)
    BY <1>5
  <2>5. pc' = "result" => n + 1 < Len(paths)
    BY <1>2, <1>5, <2>3
  <2>6. QED
    BY <1>0, <1>5, <1>7, <2>1, <2>2, <2>3, <2>4, <2>5 DEF Answering
<1>12. Aggregated'
  BY <1>0, LinesStay DEF Aggregated
<1>13. Walking'
  BY <1>0, <1>7 DEF Walking
<1>14. QED
  BY <1>8, <1>9, <1>10, <1>11, <1>12, <1>13 DEF RequestIInv

\* One line of print() keeps the invariant: the cell it is for was the next one.
LEMMA PrintLineStep ==
  ASSUME RequestIInv, PrintLine
  PROVE  RequestIInv'
<1> USE DEF PrintLine
<1> DEFINE n == Len(lines)
           h == PathHere
<1>0. /\ pc = "walk" /\ Typed /\ Made /\ request.kind \in WalkKinds /\ Listed /\ Standing
      /\ Walked({p \in Cells(area) : Precedes(p, h)})
      /\ \A p \in Cells(area) : Line(p) = TrueLine(p)
      /\ lists' = lists /\ area' = area /\ request' = request /\ paths' = paths /\ results' = results
  BY DEF RequestIInv, Walking, Aggregated
<1>1. h \in Cells(area) /\ h \in Paths
  BY <1>0, HereIsCell, CellsAreKnown DEF Typed
<1>2. lines \in Seq({TrueLine(p) : p \in Paths}) /\ n \in Nat
  BY <1>0 DEF Typed
<1>3. lines' = Append(lines, TrueLine(h))
  BY <1>0, <1>1
<1> HIDE DEF h
<1>4. /\ lines' \in Seq({TrueLine(p) : p \in Paths}) /\ Len(lines') = n + 1
      /\ lines'[n + 1] = TrueLine(h) /\ \A i \in 1..n : lines'[i] = lines[i]
  BY <1>1, <1>2, <1>3
<1> HIDE DEF n
\* The lines are those of the cells before this one, and its own.
<1>5. ASSUME NEW S, \A p \in Cells(area) : p \in S <=> p = h \/ Precedes(p, h), S \subseteq Cells(area)
      PROVE  /\ \A i \in 1..Len(lines') : \E p \in S : lines'[i] = TrueLine(p)
             /\ \A p \in S : \E i \in 1..Len(lines') : lines'[i] = TrueLine(p)
             /\ \A i, j \in 1..Len(lines') : i < j => Precedes(lines'[i].path, lines'[j].path)
  <2>1. \A i \in 1..n : \E p \in Cells(area) : Precedes(p, h) /\ lines[i] = TrueLine(p)
    BY <1>0 DEF Walked, n
  <2>2. \A p \in Cells(area) : Precedes(p, h) => \E i \in 1..n : lines[i] = TrueLine(p)
    BY <1>0 DEF Walked, n
  <2>3. \A i, j \in 1..n : i < j => Precedes(lines[i].path, lines[j].path)
    BY <1>0 DEF Walked, n
  <2>4. \A i \in 1..Len(lines') : i = n + 1 \/ i \in 1..n
    BY <1>2, <1>4
  <2>5. ASSUME NEW i \in 1..Len(lines') PROVE \E p \in S : lines'[i] = TrueLine(p)
    <3>1. CASE i = n + 1
      BY <1>1, <1>4, <1>5, <3>1
    <3>2. CASE i \in 1..n
      BY <1>4, <1>5, <2>1, <3>2
    <3>3. QED
      BY <2>4, <3>1, <3>2
  <2>6. ASSUME NEW p \in S PROVE \E i \in 1..Len(lines') : lines'[i] = TrueLine(p)
    <3>1. p \in Cells(area) /\ (p = h \/ Precedes(p, h))
      BY <1>5
    <3>2. n + 1 \in 1..Len(lines') /\ \A i \in 1..n : i \in 1..Len(lines')
      BY <1>2, <1>4
    <3>3. CASE p = h
      BY <1>4, <3>2, <3>3
    <3>4. CASE Precedes(p, h)
      BY <1>4, <2>2, <3>1, <3>2, <3>4
    <3>5. QED
      BY <3>1, <3>3, <3>4
  <2>7. ASSUME NEW i \in 1..Len(lines'), NEW j \in 1..Len(lines'), i < j
        PROVE  Precedes(lines'[i].path, lines'[j].path)
    <3>1. i \in 1..n
      BY <1>2, <1>4, <2>7
    <3>2. CASE j \in 1..n
      BY <1>4, <2>3, <2>7, <3>1, <3>2
    <3>3. CASE j = n + 1
      <4>1. PICK p \in Cells(area) : Precedes(p, h) /\ lines'[i] = TrueLine(p)
        BY <1>4, <2>1, <3>1
      <4>2. lines'[i].path = p /\ lines'[j].path = h
        BY <1>4, <3>3, <4>1 DEF TrueLine
      <4>3. QED
        BY <4>1, <4>2
    <3>4. QED
      BY <2>4, <3>2, <3>3
  <2>8. QED
    BY <2>5, <2>6, <2>7
<1>6. pc' \in {"walk", "answered"} /\ request.kind \notin PathKinds
  BY <1>0 DEF PathKinds, WalkKinds
<1>7. Made' /\ Aggregated'
  <2>1. Made'
    BY <1>0, <1>6, Zenon DEF Made, Wheels
  <2>2. Aggregated'
    BY <1>0, LinesStay DEF Aggregated
  <2>3. QED
    BY <2>1, <2>2
<1>8. Dotting' /\ Answering'
  BY <1>0, <1>6 DEF Dotting, Answering, PathKinds
<1>9. (lines \in Seq({TrueLine(p) : p \in Paths}))'
  BY <1>4
<1>10. Listed'
  <2>1. Listed /\ lists' = lists /\ area' = area
    BY <1>0
  <2>2. QED
    BY <2>1, ListedStays
<1>11. ASSUME Open # {}, counter' = WalkTurned, pc' = pc
       PROVE  RequestIInv'
  <2>1. PICK turned : turned = WalkTurned
    OBVIOUS
  <2>2. PICK q : q = [d \in Dims |-> lists[d][turned[d]]]
    OBVIOUS
  <2>3. /\ turned \in [Dims -> Nat \ {0}] /\ \A d \in Dims : turned[d] \in 1..Len(lists[d])
        /\ \A p \in Cells(area) : Precedes(p, q) <=> p = h \/ Precedes(p, h)
    BY <1>0, <1>11, <2>1, <2>2, WalkStep DEF h
  <2>4. PathHere' = q /\ Standing' /\ counter' = turned
    BY <1>0, <1>11, <2>1, <2>2, <2>3 DEF PathHere, Standing
  <2>5. Typed'
    <3>1. (\A d \in Dims : counter[d] = 1 \/ counter[d] \in 1..Len(lists[d]))'
      BY <1>0, <2>3, <2>4
    <3>2. counter' \in [Dims -> Nat \ {0}]
      BY <2>3, <2>4
    <3>3. QED
      BY <1>0, <1>6, <1>9, <3>1, <3>2 DEF Typed, Places
  <2>6. (Walked({p \in Cells(area) : Precedes(p, PathHere)}))'
    <3>1. PICK S : S = {p \in Cells(area) : Precedes(p, q)}
      OBVIOUS
    <3>2. /\ \A i \in 1..Len(lines') : \E p \in S : lines'[i] = TrueLine(p)
          /\ \A p \in S : \E i \in 1..Len(lines') : lines'[i] = TrueLine(p)
          /\ \A i, j \in 1..Len(lines') : i < j => Precedes(lines'[i].path, lines'[j].path)
      <4>1. (\A p \in Cells(area) : p \in S <=> p = h \/ Precedes(p, h)) /\ S \subseteq Cells(area)
        BY <2>3, <3>1
      <4>2. QED
        BY <1>5, <4>1
    <3>3. {p \in Cells(area') : Precedes(p, PathHere')} = S
      BY <1>0, <2>4, <3>1
    <3>4. QED
      BY <3>2, <3>3 DEF Walked, Cells
  <2>7. Walking'
    BY <1>0, <1>10, <1>11, <2>4, <2>6 DEF Walking
  <2>8. QED
    BY <1>7, <1>8, <2>5, <2>7 DEF RequestIInv
<1>12. ASSUME Open = {}, pc' = "answered", counter' = counter
       PROVE  RequestIInv'
  <2>1. Typed'
    BY <1>0, <1>9, <1>12 DEF Typed, Places
  <2>2. Walked(Cells(area))'
    <3>1. PICK S : S = Cells(area)
      OBVIOUS
    <3>2. /\ \A i \in 1..Len(lines') : \E p \in S : lines'[i] = TrueLine(p)
          /\ \A p \in S : \E i \in 1..Len(lines') : lines'[i] = TrueLine(p)
          /\ \A i, j \in 1..Len(lines') : i < j => Precedes(lines'[i].path, lines'[j].path)
      <4>1. \A p \in Cells(area) : p = h \/ Precedes(p, h)
        BY <1>0, <1>12, WalkEnd DEF h
      <4>2. (\A p \in Cells(area) : p \in S <=> p = h \/ Precedes(p, h)) /\ S \subseteq Cells(area)
        BY <3>1, <4>1
      <4>3. QED
        BY <1>5, <4>2
    <3>3. Cells(area') = S
      BY <1>0, <3>1
    <3>4. QED
      BY <3>2, <3>3 DEF Walked
  <2>3. Walking'
    BY <1>0, <1>12, <2>2 DEF Walking
  <2>4. QED
    BY <1>7, <1>8, <2>1, <2>3 DEF RequestIInv
<1>13. QED
  BY <1>11, <1>12

\* So does a step that changes nothing.
LEMMA RequestStutters ==
  ASSUME RequestIInv, UNCHANGED requestVars
  PROVE  RequestIInv'
<1>1. /\ request' = request /\ area' = area /\ lists' = lists /\ counter' = counter
      /\ paths' = paths /\ results' = results /\ lines' = lines /\ pc' = pc
  BY DEF requestVars
<1>2. Typed'
  <2>1. (lines \in Seq({TrueLine(p) : p \in Paths}))'
    BY <1>1, Zenon DEF RequestIInv, Typed, TrueLine, Paths
  <2>2. QED
    BY <1>1, <2>1 DEF RequestIInv, Typed, Places
<1>3. Made'
  BY <1>1, Zenon DEF RequestIInv, Made, Wheels
<1>4. Dotting'
  <2>1. Lap(N)' = Lap(N)
    BY <1>1, LapsStay
  <2>2. Dotted => Dotted'
    BY <1>1, DottedStays DEF RequestIInv, Typed
  <2>3. pc = "dot" => \A d \in Dims : Digit(Len(paths), d)' = Digit(Len(paths), d)
    BY <1>1, DigitsStay DEF RequestIInv, Typed
  <2>4. QED
    BY <1>1, <2>1, <2>2, <2>3 DEF RequestIInv, Dotting
<1>5. Answering' /\ Walking'
  <2>1. Cells(area)' = Cells(area) /\ PathHere' = PathHere
    BY <1>1 DEF Cells, PathHere
  <2>2. Answering'
    BY <1>1, <2>1, Zenon DEF RequestIInv, Answering, TrueLine
  <2>3. (Listed => Listed') /\ (Standing => Standing')
    BY <1>1, ZenonT(30) DEF Listed, Standing
  <2>4. ASSUME NEW S, Walked(S) PROVE Walked(S)'
    BY <1>1, <2>4, Zenon DEF Walked, TrueLine
  <2>5. {p \in Cells(area) : Precedes(p, PathHere)}' = {p \in Cells(area) : Precedes(p, PathHere)}
    BY <2>1, Zenon DEF Precedes
  <2>6. Walked(Cells(area)) => Walked(Cells(area))'
    BY <1>1, <2>1, Zenon DEF Walked, TrueLine
  <2>7. Walked({p \in Cells(area) : Precedes(p, PathHere)})
          => Walked({p \in Cells(area) : Precedes(p, PathHere)})'
    BY <1>1, <2>5, Zenon DEF Walked, TrueLine
  <2>8. Walking'
    BY <1>1, <2>3, <2>6, <2>7, Zenon DEF RequestIInv, Walking
  <2>9. QED
    BY <2>2, <2>8
<1>6. Aggregated'
  BY <1>1, LinesStay DEF RequestIInv, Aggregated
<1>7. QED
  BY <1>2, <1>3, <1>4, <1>5, <1>6 DEF RequestIInv

\* The invariant always holds.
LEMMA RequestIInvAlways == RequestSpec => []RequestIInv
<1>1. ASSUME RequestIInv, [RequestNext]_requestVars
      PROVE  RequestIInv'
  <2>1. CASE Refuse
    BY <1>1, <2>1, RefuseStep
  <2>2. CASE Accept
    BY <1>1, <2>2, AcceptStep
  <2>3. CASE DotPath
    BY <1>1, <2>3, DotPathStep
  <2>4. CASE Aggregate
    BY <1>1, <2>4, AggregateStep
  <2>5. CASE ResultLine
    BY <1>1, <2>5, ResultLineStep
  <2>6. CASE PrintLine
    BY <1>1, <2>6, PrintLineStep
  <2>7. CASE UNCHANGED requestVars
    BY <1>1, <2>7, RequestStutters
  <2>8. QED
    BY <1>1, <2>1, <2>2, <2>3, <2>4, <2>5, <2>6, <2>7 DEF RequestNext
<1>2. QED
  BY <1>1, RequestInitIInv, PTL DEF RequestSpec

-----------------------------------------------------------------------------
(* What an answer then says. *)

\* The answer is a list of lines.
LEMMA LinesTyped ==
  ASSUME RequestIInv
  PROVE  /\ lines \in Seq({TrueLine(p) : p \in Paths}) /\ Len(lines) \in Nat
         /\ DOMAIN lines = 1..Len(lines) /\ lines = [i \in 1..Len(lines) |-> lines[i]]
<1>1. PICK S : S = {TrueLine(p) : p \in Paths}
  OBVIOUS
<1>2. lines \in Seq(S)
  BY <1>1 DEF RequestIInv, Typed
<1>3. Len(lines) \in Nat /\ DOMAIN lines = 1..Len(lines) /\ lines = [i \in 1..Len(lines) |-> lines[i]]
  BY <1>2
<1>4. QED
  BY <1>1, <1>2, <1>3

\* The types of the invariant are those of RequestTypeOK.
LEMMA TypedIsOK ==
  ASSUME RequestIInv
  PROVE  RequestTypeOK
<1>1. Typed
  BY DEF RequestIInv
<1>2. \A d \in Dims : counter[d] = 1 \/ counter[d] \in DOMAIN lists[d]
  BY <1>1 DEF Typed
<1>3. \A i \in DOMAIN lines : lines[i].path \in Paths
  <2>1. \A i \in DOMAIN lines : \E p \in Paths : lines[i] = TrueLine(p)
    BY LinesTyped
  <2>2. QED
    BY <2>1 DEF TrueLine
<1>4. QED
  BY <1>1, <1>2, <1>3 DEF RequestTypeOK, Typed, Places

\* The box around one path has one cell.
LEMMA BoxOfOne ==
  ASSUME NEW r \in Inputs, r.kind = "getCell", Verdict(r) = "ok"
  PROVE  r.fields[1] \in Paths /\ Cells(AreaOf(r)) = {r.fields[1]}
<1>1. Len(r.fields) = 1 /\ DOMAIN r.fields = 1..1
  BY FieldsAreLists
<1>2. r.fields[1] \in Paths
  BY <1>1, CellsFit DEF CellKinds
<1>3. PICK p \in Paths : p = r.fields[1]
  BY <1>2
<1>4. Range(r.fields) = {p}
  BY <1>1, <1>3 DEF Range
<1>5. AreaOf(r) = [d \in Dims |-> {p[d]}]
  <2>1. AreaOf(r) = Box(r.fields)
    BY DEF AreaOf
  <2>2. Box(r.fields) = [d \in Dims |-> {p[d]}]
    BY <1>4 DEF Box
  <2>3. QED
    BY <2>1, <2>2
<1>6. p = [d \in Dims |-> p[d]]
  BY <1>3 DEF Paths
<1>7. p \in Cells(AreaOf(r))
  BY <1>5, <1>6, CellIs
<1>8. ASSUME NEW q \in Cells(AreaOf(r)) PROVE q = p
  <2>1. q = [d \in Dims |-> q[d]] /\ \A d \in Dims : q[d] = p[d]
    BY <1>5 DEF Cells
  <2>2. QED
    BY <1>6, <2>1
<1>9. QED
  BY <1>3, <1>7, <1>8

\* Cell requests are answered path by path.
LEMMA CellsAnswered ==
  ASSUME RequestIInv
  PROVE  CellsAsAsked
<1> SUFFICES ASSUME IsAnswered(CellKinds)
             PROVE  lines = [i \in DOMAIN request.fields |-> TrueLine(request.fields[i])]
  BY DEF CellsAsAsked, CellKinds
<1>1. /\ pc = "answered" /\ request.kind \in CellKinds /\ request \in Inputs
      /\ Verdict(request) = "ok" /\ area = AreaOf(request)
  BY DEF IsAnswered, RequestIInv, Typed, Made
<1>2. DOMAIN request.fields = 1..Len(request.fields) /\ Len(request.fields) \in Nat
  BY <1>1, FieldsAreLists
<1>3. CASE request.kind = "/cell/values"
  <2>1. paths = request.fields
    BY <1>1, <1>3 DEF RequestIInv, Dotting
  <2>2. Len(lines) = Len(paths) /\ \A i \in 1..Len(lines) : lines[i] = TrueLine(paths[i])
    BY <1>1, <1>3 DEF RequestIInv, Answering, PathKinds
  <2>3. lines = [i \in 1..Len(lines) |-> lines[i]]
    BY LinesTyped
  <2>4. QED
    BY <1>2, <2>1, <2>2, <2>3
<1>4. CASE request.kind = "getCell"
  <2>1. Walked(Cells(area))
    BY <1>1, <1>4 DEF RequestIInv, Walking, WalkKinds
  <2>2. PICK p \in Paths : p = request.fields[1] /\ Cells(area) = {p}
    BY <1>1, <1>4, BoxOfOne
  <2>3. Len(request.fields) = 1
    BY <1>1, <1>4, FieldsAreLists
  <2>4. /\ \A i \in 1..Len(lines) : lines[i] = TrueLine(p)
        /\ \E i \in 1..Len(lines) : lines[i] = TrueLine(p)
        /\ \A i, j \in 1..Len(lines) : i < j => Precedes(lines[i].path, lines[j].path)
    BY <2>1, <2>2 DEF Walked
  <2>5. ~Precedes(p, p)
    <3>1. \A d \in Dims : p[d] \in Nat
      BY <1>1, <2>2, KnownSets, CellsAreKnown DEF RequestIInv, Typed, Cells
    <3>2. QED
      BY <3>1 DEF Precedes
  <2>6. TrueLine(p).path = p
    BY DEF TrueLine
  <2>7. Len(lines) = 1
    <3>1. Len(lines) \in Nat /\ 1 =< Len(lines)
      BY <2>4, LinesTyped
    <3>2. ASSUME 2 =< Len(lines) PROVE FALSE
      <4>1. 1 \in 1..Len(lines) /\ 2 \in 1..Len(lines) /\ 1 < 2
        BY <3>1, <3>2
      <4>2. QED
        BY <2>4, <2>5, <2>6, <4>1
    <3>3. PICK n \in Nat : n = Len(lines)
      BY <3>1
    <3>4. 1 =< n /\ ~(2 =< n)
      BY <3>1, <3>2, <3>3
    <3>5. QED
      BY <3>3, <3>4
  <2>8. lines[1] = TrueLine(p)
    BY <2>4, <2>7
  <2>9. lines = [i \in 1..1 |-> lines[i]]
    BY <2>7, LinesTyped
  <2>10. QED
    BY <1>2, <2>2, <2>3, <2>8, <2>9
<1>5. QED
  BY <1>1, <1>3, <1>4 DEF CellKinds

\* Area requests are answered in the order of dotPaths.
LEMMA AreaAnswered ==
  ASSUME RequestIInv
  PROVE  AreaInOrder
<1> SUFFICES ASSUME IsAnswered({"/cell/area"})
             PROVE  lines = [k \in 1..Lap(N) |->
                               TrueLine([d \in Dims |->
                                 LET list == request.fields[d]
                                 IN list[(((k - 1) \div Lap(d - 1)) % Len(list)) + 1]])]
  BY DEF AreaInOrder
<1>1. pc = "answered" /\ request.kind = "/cell/area" /\ lists = request.fields
  BY DEF IsAnswered, RequestIInv, Made
<1>2. Dotted /\ Len(paths) = Lap(N)
  BY <1>1 DEF RequestIInv, Dotting
<1>3. Len(lines) = Len(paths) /\ \A i \in 1..Len(lines) : lines[i] = TrueLine(paths[i])
  BY <1>1 DEF RequestIInv, Answering, PathKinds
<1>4. lines = [k \in 1..Lap(N) |-> lines[k]]
  BY <1>2, <1>3, LinesTyped
<1>5. ASSUME NEW k \in 1..Lap(N)
      PROVE  lines[k] = TrueLine([d \in Dims |->
                          LET list == request.fields[d]
                          IN list[(((k - 1) \div Lap(d - 1)) % Len(list)) + 1]])
  <2>1. lines[k] = TrueLine(DotAt(k - 1))
    BY <1>2, <1>3 DEF Dotted
  <2>2. DotAt(k - 1) = [d \in Dims |->
                          LET list == request.fields[d]
                          IN list[(((k - 1) \div Lap(d - 1)) % Len(list)) + 1]]
    BY <1>1, Zenon DEF DotAt, Digit
  <2>3. QED
    BY <2>1, <2>2
<1> DEFINE Right(k) == TrueLine([d \in Dims |->
                         LET list == request.fields[d]
                         IN list[(((k - 1) \div Lap(d - 1)) % Len(list)) + 1]])
<1>6. \A k \in 1..Lap(N) : lines[k] = Right(k)
  BY <1>5
<1> HIDE DEF Right
<1>7. lines = [k \in 1..Lap(N) |-> Right(k)]
  BY <1>4, <1>6
<1>8. QED
  BY <1>7 DEF Right

\* getArea prints the cells of its area in the order of PathIterator.
LEMMA WalkAnswered ==
  ASSUME RequestIInv
  PROVE  WalkInOrder
<1> SUFFICES ASSUME IsAnswered({"getArea"})
             PROVE  /\ {lines[i] : i \in DOMAIN lines} = {TrueLine(path) : path \in Cells(AreaOf(request))}
                    /\ \A i, j \in DOMAIN lines : i < j => Precedes(lines[i].path, lines[j].path)
  BY DEF WalkInOrder
<1>1. Walked(Cells(area)) /\ area = AreaOf(request)
  BY DEF IsAnswered, RequestIInv, Walking, Made, WalkKinds
<1>2. DOMAIN lines = 1..Len(lines)
  BY LinesTyped
<1>3. /\ \A i \in DOMAIN lines : \E p \in Cells(area) : lines[i] = TrueLine(p)
      /\ \A p \in Cells(area) : \E i \in DOMAIN lines : lines[i] = TrueLine(p)
      /\ \A i, j \in DOMAIN lines : i < j => Precedes(lines[i].path, lines[j].path)
  BY <1>1, <1>2 DEF Walked
<1>4. {lines[i] : i \in DOMAIN lines} = {TrueLine(path) : path \in Cells(area)}
  BY <1>3, Zenon
<1>5. QED
  BY <1>1, <1>3, <1>4

\* Every kind of request is answered with the cells it names, each with its own
\* value, in the order and as often as it names them: handleRequest, dotPaths,
\* result, printCellValue, printAreaValues and PathIterator.
THEOREM RequestsAreAnswered == RequestSpec => []AnsweredAsAsked
<1>1. RequestIInv => AnsweredAsAsked
  BY TypedIsOK, CellsAnswered, AreaAnswered, WalkAnswered DEF AnsweredAsAsked
<1>2. QED
  BY <1>1, RequestIInvAlways, PTL
=============================================================================
