---------------------------- MODULE HttpProcPool ----------------------------
(***************************************************************************)
(* The HTTP adapter's worker pool (httpAdapter.c).  The adapter process    *)
(* accepts a connection and forks a request processor for it.  Two System  *)
(* V semaphore sets bound and number the processors: httpProcSem[0] counts *)
(* the free places (hMax at start), httpProcSem[i] is 1 while processor i  *)
(* lives, and httpWorkSem (1 at start) keeps the adapter from accepting    *)
(* again before the new child has taken its place.  The child takes its    *)
(* place with SEM_UNDO, so the kernel gives it back when the child exits,  *)
(* normally or not.  The SIGCHLD handler reaps children and decrements     *)
(* running; SIGUSR1 stops accepting and starts stopProc, a thread that     *)
(* exits the adapter once running is 0.                                    *)
(*                                                                         *)
(* A child is named by the number of the connection it serves.  Each step  *)
(* of a child below is one semaphore call of the code.  The signal handler *)
(* runs to completion while the adapter's main thread is interrupted, so   *)
(* it is one step; running++ is one step of the main thread.               *)
(*                                                                         *)
(* A request processor serves its connection's requests in the keepalive  *)
(* loop.  The bytes the client writes are abstracted to tokens: a request *)
(* is a header token carrying its Content-Length n, then n payload       *)
(* tokens.  A commRead returns any number of the tokens on the wire, up   *)
(* to the buffer's size; getHdrs keeps what it read past the header, and  *)
(* getPayload takes it as the start of the payload.                      *)
(***************************************************************************)
EXTENDS Integers, FiniteSets, Sequences

CONSTANTS
    HMax,          \* hMax: the number of request processors
    MaxConns,      \* bound: connections accepted in a behaviour
    KeepaliveMax,  \* keepaliveMaxRequest
    KeepaliveTimeout, \* keepaliveTimeout (0: one request per connection)
    HdrBufsize,    \* hdrBufsize, in tokens: the most one commRead returns
    PayloadLens,   \* the Content-Lengths clients send, in tokens
    ReqsPerConn,   \* bound: requests a client writes on one connection
    Clients        \* the connections whose client writes requests; the
                   \* others connect and stay silent

VARIABLES
    sem0,          \* httpProcSem[0]: free places
    slot,          \* httpProcSem[1..hMax]
    work,          \* httpWorkSem[0]
    ipc,           \* the semaphore sets exist (remProcCtl removes them)
    ppc,           \* where the adapter's main thread is
    pidx,          \* httpProcIdX in the adapter
    conns,         \* connections accepted so far
    running,
    cpc,           \* connection -> where its request processor is
    cidx,          \* connection -> httpProcIdX of its processor
    nreq,          \* connection -> numRequest of its processor
    stopAccepting,
    stopper,       \* the stopProc thread has been started
    exited,        \* the adapter process has exited
    wire,          \* connection -> tokens written by the client, not yet read
    sent,          \* connection -> requests the client has written
    closed,        \* connection -> the client has shut its side down
    head,          \* connection -> the header token getHdrs read
    over           \* connection -> tokens getHdrs read past the header

vars == <<sem0, slot, work, ipc, ppc, pidx, conns, running, cpc, cidx, nreq,
          stopAccepting, stopper, exited, wire, sent, closed, head, over>>
parentVars == <<ppc, pidx, conns, running, stopAccepting, stopper, exited>>
childVars == <<cpc, cidx, nreq, head, over>>
clientVars == <<wire, sent, closed>>

Conns == 1..MaxConns
Slots == 1..HMax

\* Request k with Content-Length n: its header, then its n payload tokens.
Header(k, n) == [req |-> k, hd |-> TRUE, len |-> n]
Request(k, n) == <<Header(k, n)>> \o [i \in 1..n |-> [req |-> k, hd |-> FALSE, len |-> 0]]
NoToken == Header(0, 0)

Min(a, b) == IF a < b THEN a ELSE b
Max0(a) == IF a > 0 THEN a ELSE 0

\* A child that has re-taken its place on httpProcSem[0] with SEM_UNDO, and
\* one that has marked its slot with SEM_UNDO.
HoldsPlace(c) == cpc[c] \in {"taken", "marked", "serve", "body"}
HoldsSlot(c) == cpc[c] \in {"marked", "serve", "body"}
Alive(c) == cpc[c] \in {"forked", "released", "taken", "marked", "serve", "body"}

\* semop on a removed set fails and changes nothing.
SemAdd(v, d) == IF ipc THEN v + d ELSE v

\* initHttpProcCtl(hMax): httpProcSem[0] = p, the slots 0, httpWorkSem = 1.
Init ==
    /\ sem0 = HMax
    /\ slot = [i \in Slots |-> 0]
    /\ work = 1
    /\ ipc = TRUE
    /\ ppc = "select"
    /\ pidx = 0
    /\ conns = 0
    /\ running = 0
    /\ cpc = [c \in Conns |-> "none"]
    /\ cidx = [c \in Conns |-> 0]
    /\ nreq = [c \in Conns |-> 0]
    /\ stopAccepting = FALSE
    /\ stopper = FALSE
    /\ exited = FALSE
    /\ wire = [c \in Conns |-> <<>>]
    /\ sent = [c \in Conns |-> 0]
    /\ closed = [c \in Conns |-> FALSE]
    /\ head = [c \in Conns |-> NoToken]
    /\ over = [c \in Conns |-> 0]

-----------------------------------------------------------------------------
(* The adapter's main thread.                                               *)

\* The httpDaemon loop: select returns (a connection or a signal); if
\* stopAccepting is set the loop ends and remProcCtl removes the semaphore
\* sets, otherwise acceptRequest calls handleHttpRequest.
Select ==
    /\ ~exited /\ ppc = "select"
    /\ \/ /\ stopAccepting
          /\ ppc' = "stopped" /\ ipc' = FALSE
          /\ UNCHANGED conns
       \/ /\ ~stopAccepting /\ conns < MaxConns
          /\ conns' = conns + 1 /\ ppc' = "work"
          /\ UNCHANGED ipc
    /\ UNCHANGED <<sem0, slot, work, pidx, running, stopAccepting, stopper,
                   exited, childVars, clientVars>>

\* semAcquire(httpWorkSem, 0) and semAcquire(httpProcSem, 0) block while the
\* value is 0.
AcquireWork ==
    /\ ~exited /\ ppc = "work" /\ work > 0
    /\ work' = work - 1 /\ ppc' = "proc"
    /\ UNCHANGED <<sem0, slot, ipc, pidx, conns, running, stopAccepting,
                   stopper, exited, childVars, clientVars>>

AcquireProc ==
    /\ ~exited /\ ppc = "proc" /\ sem0 > 0
    /\ sem0' = sem0 - 1 /\ ppc' = "scan"
    /\ UNCHANGED <<slot, work, ipc, pidx, conns, running, stopAccepting,
                   stopper, exited, childVars, clientVars>>

\* semGetValue(httpProcSem, i) for i = 0 (the counter) and the slots.
SemValue(i) == IF i = 0 THEN sem0 ELSE slot[i]

\* The first index in lo..HMax whose semaphore is 0, or HMax + 1.
FirstFree(lo) ==
    LET free == {i \in lo..HMax : SemValue(i) = 0}
    IN  IF free = {} THEN HMax + 1
        ELSE CHOOSE i \in free : \A j \in free : i <= j

ScanFromZero ==
    /\ ~exited /\ ppc = "scan"
    /\ pidx' = FirstFree(0)
    /\ IF FirstFree(0) > HMax
       THEN /\ sem0' = sem0 + 1 /\ work' = work + 1 /\ ppc' = "select"
       ELSE /\ ppc' = "fork" /\ UNCHANGED <<sem0, work>>
    /\ UNCHANGED <<slot, ipc, conns, running, stopAccepting, stopper, exited,
                   childVars, clientVars>>

ScanFirstSlot ==
    /\ ~exited /\ ppc = "scan"
    /\ pidx' = 1 /\ ppc' = "fork"
    /\ UNCHANGED <<sem0, work, slot, ipc, conns, running, stopAccepting,
                   stopper, exited, childVars, clientVars>>

\* The loop for (httpProcIdX = 1; ...) with the "should not happen" exit,
\* which gives both semaphores back and returns.
Scan ==
    /\ ~exited /\ ppc = "scan"
    /\ pidx' = FirstFree(1)
    /\ IF FirstFree(1) > HMax
       THEN /\ sem0' = sem0 + 1 /\ work' = work + 1 /\ ppc' = "select"
       ELSE /\ ppc' = "fork" /\ UNCHANGED <<sem0, work>>
    /\ UNCHANGED <<slot, ipc, conns, running, stopAccepting, stopper, exited,
                   childVars, clientVars>>

\* fork(): the child serves connection conns with index httpProcIdX; the
\* parent goes on to running++.
\* Faulty variant of Fork: the main thread forks although the adapter
\* process has exited (stopProc ending only its own thread).
ForkUnguarded ==
    /\ ppc = "fork"
    /\ cpc' = [cpc EXCEPT ![conns] = "forked"]
    /\ cidx' = [cidx EXCEPT ![conns] = pidx]
    /\ ppc' = "inc"
    /\ UNCHANGED <<sem0, slot, work, ipc, pidx, conns, running, stopAccepting,
                   stopper, exited, nreq, head, over, clientVars>>

Fork ==
    /\ ~exited /\ ppc = "fork"
    /\ cpc' = [cpc EXCEPT ![conns] = "forked"]
    /\ cidx' = [cidx EXCEPT ![conns] = pidx]
    /\ ppc' = "inc"
    /\ UNCHANGED <<sem0, slot, work, ipc, pidx, conns, running, stopAccepting,
                   stopper, exited, nreq, head, over, clientVars>>

\* fork() failed: the adapter exits(1).
ForkFails ==
    /\ ~exited /\ ppc = "fork"
    /\ exited' = TRUE
    /\ UNCHANGED <<sem0, slot, work, ipc, ppc, pidx, conns, running,
                   stopAccepting, stopper, childVars, clientVars>>

\* running++ in the parent, then back to the accept loop.
CountChild ==
    /\ ~exited /\ ppc = "inc"
    /\ running' = running + 1 /\ ppc' = "select"
    /\ UNCHANGED <<sem0, slot, work, ipc, pidx, conns, stopAccepting, stopper,
                   exited, childVars, clientVars>>

-----------------------------------------------------------------------------
(* Signals and the stopProc thread.                                         *)

SigChldDecrementOnce ==
    LET zombies == {c \in Conns : cpc[c] = "zombie"}
    IN  /\ ~exited /\ zombies # {}
        /\ cpc' = [c \in Conns |-> IF c \in zombies THEN "reaped" ELSE cpc[c]]
        /\ running' = running - 1
        /\ UNCHANGED <<sem0, slot, work, ipc, ppc, pidx, conns, stopAccepting,
                       stopper, exited, cidx, nreq, head, over, clientVars>>

\* handleSigChld: wait4(WNOHANG) in a loop reaps every exited child and
\* decrements running once per child.
SigChld ==
    LET zombies == {c \in Conns : cpc[c] = "zombie"}
    IN  /\ ~exited /\ zombies # {}
        /\ cpc' = [c \in Conns |-> IF c \in zombies THEN "reaped" ELSE cpc[c]]
        /\ running' = running - Cardinality(zombies)
        /\ UNCHANGED <<sem0, slot, work, ipc, ppc, pidx, conns, stopAccepting,
                       stopper, exited, cidx, nreq, head, over, clientVars>>

\* handleSigUsr1: the first SIGUSR1 sets stopAccepting and starts stopProc.
SigUsr1 ==
    /\ ~exited /\ ~stopAccepting
    /\ stopAccepting' = TRUE /\ stopper' = TRUE
    /\ UNCHANGED <<sem0, slot, work, ipc, ppc, pidx, conns, running, exited,
                   childVars, clientVars>>

\* stopProc: once running is 0 the adapter exits.
StopProc ==
    /\ ~exited /\ stopper /\ running = 0
    /\ exited' = TRUE
    /\ UNCHANGED <<sem0, slot, work, ipc, ppc, pidx, conns, running,
                   stopAccepting, stopper, childVars, clientVars>>

-----------------------------------------------------------------------------
(* A request processor, from fork() to exit.                                *)

\* semRelease(httpProcSem, 0): the child gives back the parent's place.
ReleasePlace(c) ==
    /\ cpc[c] = "forked"
    /\ sem0' = SemAdd(sem0, 1) /\ cpc' = [cpc EXCEPT ![c] = "released"]
    /\ UNCHANGED <<slot, work, ipc, parentVars, cidx, nreq, head, over, clientVars>>

\* semAcquireUnDo(httpProcSem, 0): the child takes a place of its own.
TakePlaceSkipped(c) ==
    /\ cpc[c] = "released"
    /\ cpc' = [cpc EXCEPT ![c] = "taken"]
    /\ UNCHANGED <<sem0, slot, work, ipc, parentVars, cidx, nreq, head, over, clientVars>>

TakePlace(c) ==
    /\ cpc[c] = "released" /\ (ipc => sem0 > 0)
    /\ sem0' = SemAdd(sem0, -1) /\ cpc' = [cpc EXCEPT ![c] = "taken"]
    /\ UNCHANGED <<slot, work, ipc, parentVars, cidx, nreq, head, over, clientVars>>

\* semReleaseUnDo(httpProcSem, httpProcIdX): the child marks its slot.
MarkSlot(c) ==
    /\ cpc[c] = "taken"
    /\ slot' = IF ipc THEN [slot EXCEPT ![cidx[c]] = @ + 1] ELSE slot
    /\ cpc' = [cpc EXCEPT ![c] = "marked"]
    /\ UNCHANGED <<sem0, work, ipc, parentVars, cidx, nreq, head, over, clientVars>>

\* semRelease(httpWorkSem, 0): the adapter may accept again.
ReleaseWork(c) ==
    /\ cpc[c] = "marked"
    /\ work' = SemAdd(work, 1) /\ cpc' = [cpc EXCEPT ![c] = "serve"]
    /\ UNCHANGED <<sem0, slot, ipc, parentVars, cidx, nreq, head, over, clientVars>>

\* exit(): the kernel undoes the child's SEM_UNDO operations, and the child
\* becomes a zombie until the adapter reaps it.
ExitUndo(c) ==
    /\ sem0' = IF ipc /\ HoldsPlace(c) THEN sem0 + 1 ELSE sem0
    /\ slot' = IF ipc /\ HoldsSlot(c) THEN [slot EXCEPT ![cidx[c]] = @ - 1]
               ELSE slot
    /\ cpc' = [cpc EXCEPT ![c] = "zombie"]

\* exit(): the process ends in state "zombie", the wire untouched.
Exits(c) == ExitUndo(c) /\ UNCHANGED <<nreq, head, over>>

\* chkHttpVerb: the data read starts with the request line of a POST.
VerbAccepted(t) == t.hd

\* The keepalive loop waits for the next request: numRequest++, and
\* getHdrs's first commRead returns k tokens, the header among them.  When
\* the read does not start with a request line (a payload token, or a verb
\* other than POST) or the header is not accepted (too long, cut short,
\* timed out), genError answers and TERMINATE exits the process.
GetHdrs(c) ==
    /\ cpc[c] = "serve" /\ wire[c] # <<>>
    /\ \E k \in 1 .. Min(HdrBufsize, Len(wire[c])) :
         /\ wire' = [wire EXCEPT ![c] = SubSeq(@, k + 1, Len(@))]
         /\ \/ /\ VerbAccepted(wire[c][1])
               /\ cpc' = [cpc EXCEPT ![c] = "body"]
               /\ nreq' = [nreq EXCEPT ![c] = @ + 1]
               /\ head' = [head EXCEPT ![c] = wire[c][1]]
               /\ over' = [over EXCEPT ![c] = k - 1]
               /\ UNCHANGED <<sem0, slot>>
            \/ Exits(c)
    /\ UNCHANGED <<work, ipc, parentVars, cidx, sent, closed>>

\* Faulty variant of IdleEnd: the wait for the next request has no
\* timeout (select with a NULL timeval), so only EOF ends it.
IdleEndOnEof(c) ==
    /\ cpc[c] = "serve" /\ wire[c] = <<>> /\ closed[c]
    /\ Exits(c)
    /\ UNCHANGED <<work, ipc, parentVars, cidx, clientVars>>

\* Nothing on the wire: a client that has shut down is read as EOF
\* (inBuf.size 0: exit), otherwise the keepalive select, or getHdrs's,
\* times out and the process exits.
IdleEnd(c) ==
    /\ cpc[c] = "serve" /\ wire[c] = <<>>
    /\ Exits(c)
    /\ UNCHANGED <<work, ipc, parentVars, cidx, clientVars>>

\* doHttpRequest returned 0: the keepalive loop ends the process when
\* keepalive is off or keepaliveMaxRequest requests were served, and
\* otherwise waits for the next request.
KeepAlive(c) ==
    IF KeepaliveTimeout = 0 \/ nreq[c] >= KeepaliveMax
    THEN Exits(c)
    ELSE /\ cpc' = [cpc EXCEPT ![c] = "serve"]
         /\ UNCHANGED <<sem0, slot, nreq, head, over>>

\* getPayload: what getHdrs read past the header is the start of the
\* payload, and no more than Content-Length of it may have been read.
PayloadFits(c) == over[c] <= head[c].len

\* readData: the rest of the payload, Content-Length less what was read
\* ahead, is on the wire; otherwise its select times out or commRead hits
\* EOF first and getPayload fails.
Need(c) == head[c].len - over[c]
PayloadArrived(c) == Len(wire[c]) >= Need(c)

\* Faulty variant of ReadBody: the payload already read is not compared
\* with Content-Length.
ReadBodyUnchecked(c) ==
    /\ cpc[c] = "body"
    /\ \/ /\ PayloadArrived(c)
          /\ wire' = [wire EXCEPT ![c] = SubSeq(@, Max0(Need(c)) + 1, Len(@))]
          /\ KeepAlive(c)
       \/ /\ ~PayloadArrived(c)
          /\ Exits(c) /\ UNCHANGED wire
       \/ Exits(c) /\ UNCHANGED wire
    /\ UNCHANGED <<work, ipc, parentVars, cidx, sent, closed>>

\* The request line and the header lines after it: a request line without
\* a method, path and protocol is answered 400, and so is a rejected header
\* line (a negative, unconvertible or too large Content-Length, an
\* unreadable httpMaxContentLength, a bad Host, an Expect it cannot meet),
\* each with its own status; the child exits.
HeaderRejected(c) == Exits(c) /\ UNCHANGED wire

\* The rest of doHttpRequest once the header lines are accepted.  A
\* missing Content-Length answers 411 and exits.  getPayload rejects a
\* request of which getHdrs read more than Content-Length ("Content-Length
\* is lying"), and otherwise readData reads the rest; a timeout or EOF
\* before it is all there answers 400 and exits.  A request whose basic
\* authentication failed is answered 401 (500, 503) and its payload read
\* like any other before doHttpRequest returns 0, so the outcome of the
\* authentication leaves the stream alike.
ReadBody(c) ==
    /\ cpc[c] = "body"
    /\ \/ /\ ~PayloadFits(c)
          /\ Exits(c) /\ UNCHANGED wire
       \/ /\ PayloadFits(c) /\ PayloadArrived(c)
          /\ wire' = [wire EXCEPT ![c] = SubSeq(@, Need(c) + 1, Len(@))]
          /\ KeepAlive(c)
       \/ /\ PayloadFits(c) /\ ~PayloadArrived(c)
          /\ Exits(c) /\ UNCHANGED wire
       \/ HeaderRejected(c)   \* the 411 leaves the same way
    /\ UNCHANGED <<work, ipc, parentVars, cidx, sent, closed>>

-----------------------------------------------------------------------------
(* The client of a connection.                                              *)

\* It writes its next request, Content-Length n, whether or not the answer
\* to the previous one has arrived (HTTP/1.1 pipelining).
ClientSend(c) ==
    /\ c \in Clients /\ c <= conns /\ ~closed[c] /\ sent[c] < ReqsPerConn
    /\ \E n \in PayloadLens : wire' = [wire EXCEPT ![c] = @ \o Request(sent[c] + 1, n)]
    /\ sent' = [sent EXCEPT ![c] = @ + 1]
    /\ UNCHANGED <<sem0, slot, work, ipc, parentVars, childVars, closed>>

\* It shuts down its side of the connection.
ClientClose(c) ==
    /\ c \in Clients /\ c <= conns /\ ~closed[c]
    /\ closed' = [closed EXCEPT ![c] = TRUE]
    /\ UNCHANGED <<sem0, slot, work, ipc, parentVars, childVars, wire, sent>>

\* The child is killed (or crashes) at any point of its life.
Crash(c) ==
    /\ Alive(c)
    /\ ExitUndo(c)
    /\ UNCHANGED <<work, ipc, parentVars, cidx, nreq, head, over, clientVars>>

ChildStep(c) ==
    \/ ReleasePlace(c) \/ TakePlace(c) \/ MarkSlot(c) \/ ReleaseWork(c)
    \/ GetHdrs(c) \/ IdleEnd(c) \/ ReadBody(c)

-----------------------------------------------------------------------------
Next ==
    \/ Select \/ AcquireWork \/ AcquireProc \/ Scan \/ Fork \/ ForkFails
    \/ CountChild \/ SigChld \/ SigUsr1 \/ StopProc
    \/ \E c \in Conns : ChildStep(c) \/ Crash(c) \/ ClientSend(c) \/ ClientClose(c)

\* The kernel runs every runnable process and delivers a pending SIGCHLD;
\* stopProc polls every second; clients, kills and SIGUSR1 are not forced.
Fairness ==
    /\ \A c \in Conns : WF_vars(ChildStep(c))
    /\ WF_vars(SigChld) /\ WF_vars(CountChild) /\ WF_vars(StopProc)

Spec == Init /\ [][Next]_vars /\ Fairness

-----------------------------------------------------------------------------
TypeOK ==
    /\ sem0 \in 0..HMax /\ work \in 0..1 /\ ipc \in BOOLEAN
    /\ slot \in [Slots -> 0..1]
    /\ ppc \in {"select", "work", "proc", "scan", "fork", "inc", "stopped"}
    /\ pidx \in 0..HMax + 1 /\ conns \in 0..MaxConns
    /\ running \in -MaxConns..MaxConns
    /\ cpc \in [Conns -> {"none", "forked", "released", "taken", "marked",
                          "serve", "body", "zombie", "reaped"}]
    /\ \A c \in Conns : cpc[c] # "none" => cidx[c] \in Slots
    /\ nreq \in [Conns -> 0..KeepaliveMax]
    /\ stopAccepting \in BOOLEAN /\ stopper \in BOOLEAN /\ exited \in BOOLEAN
    /\ sent \in [Conns -> 0..ReqsPerConn] /\ closed \in [Conns -> BOOLEAN]
    /\ over \in [Conns -> 0..HdrBufsize]

\* While the semaphore sets exist, each slot semaphore counts exactly the
\* living request processors that hold that httpProcIdX, and no two hold
\* the same one: the scan in handleHttpRequest and the child's
\* semReleaseUnDo are kept apart by httpWorkSem.
DistinctSlots ==
    ipc => \A i \in Slots :
              /\ slot[i] = Cardinality({c \in Conns : HoldsSlot(c) /\ cidx[c] = i})
              /\ slot[i] <= 1

\* Having taken a place on httpProcSem[0], the adapter always finds a free
\* slot: the "should not happen" return of handleHttpRequest is never
\* taken, whatever children exit or are killed meanwhile.
NeverOutOfSlots == ppc = "scan" => FirstFree(1) <= HMax

\* Every request a processor starts reading begins at a request boundary:
\* whenever it waits for the next request of its connection, the first
\* byte on the wire is the first byte of a request line.  getHdrs reads in
\* chunks that may run past the header, into the payload and beyond it;
\* getPayload must count what was read ahead against Content-Length and
\* read exactly the rest, whatever the authentication's outcome, or the
\* next request is parsed from the middle of another.
RequestsInSync ==
    \A c \in Conns : cpc[c] = "serve" /\ wire[c] # <<>> => wire[c][1].hd

\* stopProc drains the pool: the adapter exits on running == 0 only when
\* no request processor it forked is alive.  The stopProc thread reads
\* running while the main thread may be between fork() and running++, so
\* the count must cover a child from the moment it exists.
DrainedAtStop == [][StopProc => \A c \in Conns : ~Alive(c)]_vars

\* After SIGUSR1 the adapter eventually exits: the SIGCHLD handler brings
\* running back to 0 once every child has ended, and stopProc sees it.
DrainTerminates == stopAccepting ~> exited

\* Every request processor eventually exits, even on a connection whose
\* client stays open and silent or keeps pipelining: its keepalive loop
\* waits at most keepaliveTimeout for the next request, each read of
\* getHdrs and getPayload has its select timeout, and numRequest stops it
\* at keepaliveMaxRequest.  A processor waiting in semAcquireUnDo for a
\* place gets one: the places it waits for are held by processors that
\* end, and the adapter cannot take one meanwhile (it waits on
\* httpWorkSem for this child).
ProcessorsEnd == \A c \in Conns : cpc[c] = "forked" ~> cpc[c] \in {"zombie", "reaped"}

-----------------------------------------------------------------------------
(* The refinement mapping: a connection is busy while its request         *)
(* processor lives (from fork() to its exit), served once it was forked,  *)
(* and the adapter accepts until its process exits (fork failure or       *)
(* stopProc).                                                              *)

Pool == INSTANCE ProcPool WITH
            Capacity  <- HMax,
            Conns     <- Conns,
            busy      <- {c \in Conns : Alive(c)},
            served    <- {c \in Conns : cpc[c] # "none"},
            accepting <- ~exited

\* The pool keeps the adapter's promise: fork() starts a processor only
\* while fewer than hMax are alive, for a connection that never had one,
\* and not after the adapter exited, whatever children are killed or
\* exit at any point of the httpProcSem/httpWorkSem handshake; every
\* other step of the adapter and its children leaves the pool alone or
\* ends one processor.
PoolRefinement == Pool!Spec

=============================================================================
