----------------------------- MODULE HttpServer -----------------------------
(***************************************************************************)
(* multithread_http_server_loopback_interface.c: the main thread accepts   *)
(* connections, records each descriptor in the global vector               *)
(* http_client_fd_list and starts a detached handler thread for it; the    *)
(* handler answers requests until read returns 0 or less, then takes the   *)
(* descriptor off the vector and closes it.                                *)
(*                                                                         *)
(* The vector is shared without a lock, the kernel hands a closed          *)
(* descriptor's number to the next connection, and the main thread         *)
(* ignores the result of pthread_create.                                   *)
(***************************************************************************)
EXTENDS Naturals, Sequences, FiniteSets, SequencesExt

CONSTANTS
  Clients,
  Requests,     \* the kinds of requests the clients send
  NoClient,
  MaxFd,        \* client descriptors the process may hold open: 1 .. MaxFd
  MAXPENDING,   \* length of the queue of connections not yet accepted
  MaxSegments   \* bound on the unread pieces of requests of a connection

ASSUME RequestsAssumption == Requests \subseteq {"GET /", "GET /favicon.ico", "GET other", "POST"}
ASSUME BoundsAssumption ==
  MaxFd \in Nat \ {0} /\ MAXPENDING \in Nat \ {0} /\ MaxSegments \in Nat \ {0}
ASSUME NoClientAssumption == NoClient \notin Clients

VARIABLES
  peer,      \* a client's side: "away", "open", or "closed" once it hung up
  inbox,     \* what read will return next on the client's connection
  waiting,   \* the client waits for the end of an answer
  backlog,   \* connections waiting for accept
  owner,     \* the client behind each descriptor, or NoClient
  mpc,       \* the main thread: "accept", "push_back", "pushing", "pthread_create"
  mfd,       \* its http_client_fd
  hpc,       \* a descriptor's handler: "none", "read", "find", "erasing", "close"
  list,      \* http_client_fd_list
  raced,     \* two threads were in the vector at once: its content is undefined
  crashed    \* the process died, of that or of SIGPIPE

clientVars == <<peer, inbox, waiting, backlog>>
mainVars == <<mpc, mfd>>
vars == <<clientVars, owner, mainVars, hpc, list, raced, crashed>>

Fds == 1 .. MaxFd

TypeOK ==
  /\ peer \in [Clients -> {"away", "open", "closed"}]
  /\ inbox \in [Clients -> Seq(Requests \cup {"rest"})]
  /\ waiting \in [Clients -> BOOLEAN]
  /\ backlog \in Seq(Clients) /\ Len(backlog) <= MAXPENDING
  /\ owner \in [Fds -> Clients \cup {NoClient}]
  /\ mpc \in {"accept", "push_back", "pushing", "pthread_create"} /\ mfd \in Fds \cup {0}
  /\ hpc \in [Fds -> {"none", "read", "find", "erasing", "close"}]
  /\ list \in Seq(Fds)
  /\ raced \in BOOLEAN /\ crashed \in BOOLEAN

Init ==
  /\ peer = [c \in Clients |-> "away"]
  /\ inbox = [c \in Clients |-> <<>>]
  /\ waiting = [c \in Clients |-> FALSE]
  /\ backlog = <<>>
  /\ owner = [fd \in Fds |-> NoClient]
  /\ mpc = "accept" /\ mfd = 0
  /\ hpc = [fd \in Fds |-> "none"]
  /\ list = <<>>
  /\ raced = FALSE /\ crashed = FALSE

-----------------------------------------------------------------------------
(***************************************************************************)
(* The clients.  A request longer than BUFFSIZE, or cut by TCP after its   *)
(* URI, reaches the handler as two reads.                                  *)
(***************************************************************************)
Connect(c) ==
  /\ peer[c] = "away" /\ Len(backlog) < MAXPENDING
  /\ peer' = [peer EXCEPT ![c] = "open"]
  /\ backlog' = Append(backlog, c)
  /\ UNCHANGED <<inbox, waiting, owner, mainVars, hpc, list, raced, crashed>>

SendRequest(c, r) ==
  /\ peer[c] = "open" /\ ~waiting[c] /\ Len(inbox[c]) < MaxSegments
  /\ \E pieces \in {<<r>>, <<r, "rest">>} :
       inbox' = [inbox EXCEPT ![c] = @ \o pieces]
  /\ waiting' = [waiting EXCEPT ![c] = TRUE]
  /\ UNCHANGED <<peer, backlog, owner, mainVars, hpc, list, raced, crashed>>

HangUp(c) ==
  /\ peer[c] = "open"
  /\ peer' = [peer EXCEPT ![c] = "closed"]
  /\ UNCHANGED <<inbox, waiting, backlog, owner, mainVars, hpc, list, raced, crashed>>

-----------------------------------------------------------------------------
(***************************************************************************)
(* The vector.  push_back and find/erase are not atomic; a thread that     *)
(* enters while another is inside makes the vector undefined for good: any *)
(* later operation on it may kill the process.  Nothing but the vector     *)
(* itself depends on its content, so the undefined one is written <<>>.    *)
(***************************************************************************)
Inside == mpc = "pushing" \/ \E fd \in Fds : hpc[fd] = "erasing"

Enter == raced' = (raced \/ Inside)

Leave(result) ==
  IF raced THEN list' = <<>> /\ crashed' \in BOOLEAN
           ELSE list' = result /\ UNCHANGED crashed

\* accept returns the lowest free number.
FreeFd == CHOOSE fd \in Fds : owner[fd] = NoClient /\ \A g \in 1 .. fd - 1 : owner[g] # NoClient

\* Mutant: the result of accept is not tested.
AcceptUnchecked ==
  /\ mpc = "accept" /\ backlog # <<>>
  /\ mpc' = "push_back"
  /\ IF \E fd \in Fds : owner[fd] = NoClient
       THEN /\ mfd' = FreeFd
            /\ owner' = [owner EXCEPT ![FreeFd] = Head(backlog)]
            /\ backlog' = Tail(backlog)
       ELSE mfd' = 0 /\ UNCHANGED <<owner, backlog>>
  /\ UNCHANGED <<peer, inbox, waiting, hpc, list, raced, crashed>>

\* The main thread.  With no free descriptor accept fails and main tries again.
Accept ==
  /\ mpc = "accept" /\ backlog # <<>>
  /\ \E fd \in Fds : owner[fd] = NoClient
  /\ mfd' = FreeFd
  /\ owner' = [owner EXCEPT ![FreeFd] = Head(backlog)]
  /\ backlog' = Tail(backlog)
  /\ mpc' = "push_back"
  /\ UNCHANGED <<peer, inbox, waiting, hpc, list, raced, crashed>>

PushBackBegin ==
  /\ mpc = "push_back"
  /\ mpc' = "pushing"
  /\ Enter
  /\ UNCHANGED <<clientVars, owner, mfd, hpc, list, crashed>>

PushBackEnd ==
  /\ mpc = "pushing"
  /\ mpc' = "pthread_create"
  /\ Leave(Append(list, mfd))
  /\ UNCHANGED <<clientVars, owner, mfd, hpc, raced>>

\* Mutant: the threads share one http_client_fd instead of a copy each.
PthreadCreateShared ==
  /\ mpc = "pthread_create"
  /\ mpc' = "accept"
  /\ hpc' \in {[hpc EXCEPT ![fd] = "read"] : fd \in Fds}
  /\ UNCHANGED <<clientVars, owner, mfd, list, raced, crashed>>

\* The result of pthread_create is ignored: without a thread the descriptor
\* stays open and listed for ever.
PthreadCreate ==
  /\ mpc = "pthread_create"
  /\ mpc' = "accept"
  /\ hpc' \in {[hpc EXCEPT ![mfd] = "read"], hpc}
  /\ UNCHANGED <<clientVars, owner, mfd, list, raced, crashed>>

-----------------------------------------------------------------------------
(***************************************************************************)
(* A handler thread.                                                       *)
(***************************************************************************)
\* Answers that carry at least as many bytes as their Content-Length says.
\* The others announce the size of the whole response as that of its body, so
\* that the client goes on waiting; a POST, and the rest of a request that did
\* not fit one read, get no answer at all.
Complete(request, haveIndex) ==
  request = "GET other" \/ (request = "GET /" /\ ~haveIndex)

\* Mutant: the loop ends after the first request that is not a GET.
HandlerReadStops(fd) ==
  /\ hpc[fd] = "read"
  /\ inbox[owner[fd]] # <<>> /\ Head(inbox[owner[fd]]) \notin {"POST", "rest"}
  /\ inbox' = [inbox EXCEPT ![owner[fd]] = Tail(@)]
  /\ UNCHANGED <<peer, waiting, backlog, owner, mainVars, hpc, list, raced, crashed>>

\* One read and its answer.  Writing to a client that hung up may raise
\* SIGPIPE, which nobody handles.
HandlerRead(fd) ==
  /\ hpc[fd] = "read"
  /\ LET c == owner[fd]
     IN /\ inbox[c] # <<>>
        /\ inbox' = [inbox EXCEPT ![c] = Tail(@)]
        /\ \E haveIndex \in BOOLEAN :
             waiting' = [waiting EXCEPT ![c] = @ /\ ~Complete(Head(inbox[c]), haveIndex)]
        /\ crashed' \in IF peer[c] = "closed" /\ Head(inbox[c]) \notin {"POST", "rest"}
                          THEN BOOLEAN ELSE {FALSE}
  /\ UNCHANGED <<peer, backlog, owner, mainVars, hpc, list, raced>>

\* Mutant: the descriptor is closed before it is taken off the vector.
HandlerEofCloses(fd) ==
  /\ hpc[fd] = "read"
  /\ inbox[owner[fd]] = <<>> /\ peer[owner[fd]] = "closed"
  /\ hpc' = [hpc EXCEPT ![fd] = "find"]
  /\ owner' = [owner EXCEPT ![fd] = NoClient]
  /\ peer' = [peer EXCEPT ![owner[fd]] = "away"]
  /\ waiting' = [waiting EXCEPT ![owner[fd]] = FALSE]
  /\ UNCHANGED <<inbox, backlog, mainVars, list, raced, crashed>>

\* Mutant: only errors end the loop, not the end of the stream.
HandlerEofIgnored(fd) ==
  /\ hpc[fd] = "read"
  /\ inbox[owner[fd]] = <<>> /\ peer[owner[fd]] = "closed"
  /\ UNCHANGED vars

\* read returns 0, or an error, only when everything the client sent was read.
HandlerEof(fd) ==
  /\ hpc[fd] = "read"
  /\ inbox[owner[fd]] = <<>> /\ peer[owner[fd]] = "closed"
  /\ hpc' = [hpc EXCEPT ![fd] = "find"]
  /\ UNCHANGED <<clientVars, owner, mainVars, list, raced, crashed>>

FindBegin(fd) ==
  /\ hpc[fd] = "find"
  /\ hpc' = [hpc EXCEPT ![fd] = "erasing"]
  /\ Enter
  /\ UNCHANGED <<clientVars, owner, mainVars, list, crashed>>

\* find and erase: the first element equal to fd, if there is one.
EraseEnd(fd) ==
  /\ hpc[fd] = "erasing"
  /\ hpc' = [hpc EXCEPT ![fd] = "close"]
  /\ Leave(IF fd \in Range(list) THEN RemoveFirst(list, fd) ELSE list)
  /\ UNCHANGED <<clientVars, owner, mainVars, raced>>

CloseFd(fd) ==
  /\ hpc[fd] = "close"
  /\ hpc' = [hpc EXCEPT ![fd] = "none"]
  /\ owner' = [owner EXCEPT ![fd] = NoClient]
  /\ LET c == owner[fd]
     IN /\ peer' = [peer EXCEPT ![c] = "away"]
        /\ waiting' = [waiting EXCEPT ![c] = FALSE]
  /\ UNCHANGED <<inbox, backlog, mainVars, list, raced, crashed>>

Main == ~crashed /\ (Accept \/ PushBackBegin \/ PushBackEnd \/ PthreadCreate)
Handler(fd) ==
  /\ ~crashed
  /\ HandlerRead(fd) \/ HandlerEof(fd) \/ FindBegin(fd) \/ EraseEnd(fd) \/ CloseFd(fd)
Client(c) == ~crashed /\ (Connect(c) \/ HangUp(c) \/ \E r \in Requests : SendRequest(c, r))

Next == Main \/ (\E fd \in Fds : Handler(fd)) \/ (\E c \in Clients : Client(c))

\* Every thread of the process is scheduled; clients owe nothing.
Spec == Init /\ [][Next]_vars /\ WF_vars(Main) /\ \A fd \in Fds : WF_vars(Handler(fd))

-----------------------------------------------------------------------------
(***************************************************************************)
(* Properties.                                                             *)
(***************************************************************************)
\* The descriptors between push_back and erase.
Connected ==
  {fd \in Fds : /\ owner[fd] # NoClient
                /\ hpc[fd] # "close"
                /\ ~(mfd = fd /\ mpc \in {"push_back", "pushing"})}

\* As long as no two threads met in the vector it holds exactly the connected
\* descriptors, each once: a number that the kernel hands out again is never
\* already there, and a handler never takes another connection off the list.
ListExact ==
  ~raced => Range(list) = Connected /\ Len(list) = Cardinality(Connected)

\* No two descriptors serve the same client, and a handler always has a
\* client behind its descriptor.
HandlersHaveClients ==
  /\ \A fd \in Fds : hpc[fd] # "none" => owner[fd] # NoClient
  /\ \A fd, g \in Fds : owner[fd] = owner[g] /\ owner[fd] # NoClient => fd = g

\* A handler reads everything its client sent.
RequestsAreRead ==
  \A fd \in Fds :
    (hpc[fd] = "read" /\ inbox[owner[fd]] # <<>>)
      ~> (crashed \/ (hpc[fd] = "read" /\ inbox[owner[fd]] = <<>>))

\* After a client hung up its handler takes it off the list and gives its
\* descriptor back.
DescriptorsComeBack ==
  \A fd \in Fds :
    (hpc[fd] = "read" /\ peer[owner[fd]] = "closed") ~> (crashed \/ owner[fd] = NoClient)
=============================================================================
