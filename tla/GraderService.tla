----------------------------- MODULE GraderService -----------------------------
(***************************************************************************)
(* Qualitative grading by the isolated service: CodexRunner.grade in the   *)
(* worker and CodexProcess.invoke in the service (codex.py), the endpoint  *)
(* between them (grader.py) and the command that runs it (cli.py).         *)
(*                                                                         *)
(* A call records an invocation, posts its prompt on the Unix socket and   *)
(* closes the invocation with what came back. The endpoint is a coroutine  *)
(* that runs Codex in a blocking call, so the service has one Codex at a   *)
(* time and the other requests wait, abandoned ones among them: whether a  *)
(* request of a lost client still runs is up to the server. Time is        *)
(* counted in ticks and nothing else takes time. The two limits are set    *)
(* apart: the service kills Codex after its own --timeout-seconds, a       *)
(* client gives up Grace (five seconds) after codex.timeout_seconds of its *)
(* worker's configuration, and either may be the longer. One service runs  *)
(* at a time, as its unit has it; it may be stopped or killed, and be      *)
(* started again with another limit.                                       *)
(***************************************************************************)
EXTENDS Integers, SequencesExt

CONSTANTS
  Invocation,   \* identifiers of model_invocations
  Callers,      \* calls at a time
  Timeouts,     \* what either timeout_seconds may be set to
  Grace,        \* what the client adds to its own
  MaxRestarts   \* bound: times the service goes down

ASSUME GraderAssumption ==
  /\ Callers \in Nat /\ MaxRestarts \in Nat
  /\ Timeouts \subseteq Nat \ {0} /\ Grace \in Nat \ {0}

VARIABLES
  row,      \* [Invocation -> status of its row]
  call,     \* [Invocation -> [pc, limit, age, queued, gaveUp, result]]
  waiting,  \* requests the server has accepted, in order
  running,  \* [request: sequence of at most one, age] of the Codex process
  server    \* [up, limit, socket, downs]: socket is the file at the path
graderVars == <<row, call, waiting, running, server>>

Result == {"none", "evaluation", "schema_failure", "model_failure"}
NotCalled == [pc |-> "idle", limit |-> 0, age |-> 0,
              queued |-> FALSE, gaveUp |-> FALSE, result |-> "none"]
InFlight == {"recorded", "posted", "answered"}

GraderTypeOK ==
  /\ row \in [Invocation -> {"absent", "running", "succeeded", "failed"}]
  /\ call \in [Invocation -> [pc : {"idle", "returned", "lost"} \cup InFlight,
                              limit : Timeouts \cup {0}, age : Nat, queued : BOOLEAN,
                              gaveUp : BOOLEAN, result : Result]]
  /\ \A i \in Invocation : call[i].age <= call[i].limit + Grace
  /\ waiting \in Seq(Invocation) /\ Len(waiting) <= Cardinality(Invocation)
  /\ running.request \in {<<>>} \cup {<<i>> : i \in Invocation} /\ running.age \in 0..server.limit
  /\ server \in [up : BOOLEAN, limit : Timeouts \cup {0}, socket : BOOLEAN, downs : 0..MaxRestarts]

Free == [request |-> <<>>, age |-> 0]
GraderInit ==
  /\ row = [i \in Invocation |-> "absent"] /\ call = [i \in Invocation |-> NotCalled]
  /\ waiting = <<>> /\ running = Free
  /\ server = [up |-> FALSE, limit |-> 0, socket |-> FALSE, downs |-> 0]

-----------------------------------------------------------------------------
(* The worker *)

Record(i) ==
  /\ call[i].pc = "idle" /\ Cardinality({k \in Invocation : call[k].pc \in InFlight}) < Callers
  /\ row' = [row EXCEPT ![i] = "running"]
  /\ \E limit \in Timeouts :
       call' = [call EXCEPT ![i].pc = "recorded", ![i].limit = limit]
  /\ UNCHANGED <<waiting, running, server>>

\* Without a socket, or with a stale one that nobody listens on, the call fails.
Post(i) ==
  /\ call[i].pc = "recorded"
  /\ IF server.up /\ server.socket
     THEN /\ waiting' = Append(waiting, i)
          /\ call' = [call EXCEPT ![i].pc = "posted",
                                  ![i].queued = running.request # <<>> \/ waiting # <<>>]
     ELSE /\ call' = [call EXCEPT ![i].pc = "answered", ![i].result = "model_failure"]
          /\ UNCHANGED waiting
  /\ UNCHANGED <<row, running, server>>

\* Mutant: nothing is added to the client's own limit.
GiveUpAtLimit(i) ==
  /\ call[i].pc = "posted" /\ call[i].age >= call[i].limit
  /\ call' = [call EXCEPT ![i].pc = "answered", ![i].result = "model_failure", ![i].gaveUp = TRUE]
  /\ UNCHANGED <<row, waiting, running, server>>
GiveUp(i) ==
  /\ call[i].pc = "posted" /\ call[i].age = call[i].limit + Grace
  /\ call' = [call EXCEPT ![i].pc = "answered", ![i].result = "model_failure", ![i].gaveUp = TRUE]
  /\ UNCHANGED <<row, waiting, running, server>>

CloseInvocation(i) ==
  /\ call[i].pc = "answered"
  /\ row' = [row EXCEPT ![i] = IF call[i].result = "evaluation" THEN "succeeded" ELSE "failed"]
  /\ call' = [call EXCEPT ![i].pc = "returned"]
  /\ UNCHANGED <<waiting, running, server>>

\* The worker dies: its connection closes, its row stays as it is.
LoseWorker(i) ==
  /\ call[i].pc \in InFlight
  /\ call' = [call EXCEPT ![i].pc = "lost"]
  /\ UNCHANGED <<row, waiting, running, server>>

-----------------------------------------------------------------------------
(* The service *)

\* A socket file left behind is replaced.
StartServer ==
  /\ ~server.up
  /\ \E limit \in Timeouts :
       server' = [up |-> TRUE, limit |-> limit, socket |-> TRUE, downs |-> server.downs]
  /\ UNCHANGED <<row, call, waiting, running>>

\* Whoever still waits loses the connection. A stop removes the service's own
\* socket, a kill leaves it.
EndServer(stopped) ==
  /\ server.up /\ server.downs < MaxRestarts
  /\ server' = [up |-> FALSE, limit |-> 0, socket |-> ~stopped, downs |-> server.downs + 1]
  /\ waiting' = <<>> /\ running' = Free
  /\ call' = [i \in Invocation |->
                IF call[i].pc = "posted"
                THEN [call[i] EXCEPT !.pc = "answered", !.result = "model_failure"] ELSE call[i]]
  /\ UNCHANGED row

Take ==
  /\ running.request = <<>> /\ waiting # <<>>
  /\ \/ running' = [request |-> <<Head(waiting)>>, age |-> 0]
     \/ call[Head(waiting)].pc # "posted" /\ UNCHANGED running
  /\ waiting' = Tail(waiting)
  /\ UNCHANGED <<row, call, server>>

\* An evaluation, an invalid request or output, a failed or a timed out process.
CodexEnds(i, result) ==
  /\ running.request = <<i>>
  /\ result \in Result \ {"none"}
  /\ running' = Free
  /\ call' = IF call[i].pc = "posted"
             THEN [call EXCEPT ![i].pc = "answered", ![i].result = result] ELSE call
  /\ UNCHANGED <<row, waiting, server>>

\* The server takes the next request, and each side sees its limit, in time.
GraderTick ==
  /\ \E i \in Invocation : call[i].pc = "posted"
  /\ running.request # <<>> \/ waiting = <<>>
  /\ running.age < server.limit
  /\ \A i \in Invocation : call[i].pc = "posted" => call[i].age < call[i].limit + Grace
  /\ running' = IF running.request = <<>> THEN running ELSE [running EXCEPT !.age = @ + 1]
  /\ call' = [i \in Invocation |->
                IF call[i].pc = "posted" THEN [call[i] EXCEPT !.age = @ + 1] ELSE call[i]]
  /\ UNCHANGED <<row, waiting, server>>

GraderNext ==
  \/ \E i \in Invocation : Record(i) \/ Post(i) \/ GiveUp(i) \/ CloseInvocation(i) \/ LoseWorker(i)
  \/ StartServer \/ \E stopped \in BOOLEAN : EndServer(stopped)
  \/ Take \/ \E i \in Invocation, result \in Result : CodexEnds(i, result)
  \/ GraderTick
GraderSpec == GraderInit /\ [][GraderNext]_graderVars

-----------------------------------------------------------------------------
(* Properties *)

GivesUp(i) == ~call[i].gaveUp /\ call'[i].gaveUp

\* When the service ends Codex before a client ends its wait, that client gives up
\* only if its request had to wait for another one, possibly of a client that is
\* gone: alone at the service, the answer to a call comes before the client's
\* limit, even the one that Codex was too slow. The limit is that of the service
\* that serves the call, after any restarts.
AloneIsAnsweredInTime ==
  [][\A i \in Invocation :
       GivesUp(i) /\ server.limit < call[i].limit + Grace => call[i].queued]_graderVars
=============================================================================
