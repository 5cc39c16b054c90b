------------------------------ MODULE LoginVerify -----------------------------
(***************************************************************************)
(* LoginVerifyService: the HTTPS edge in front of the account check.  The  *)
(* dispatcher hands a verification to a BoundedWorkPool under the token of *)
(* its response and answers 503 when the pool is full; everything else is  *)
(* answered at once.  tick polls the server and completes what the pool    *)
(* has finished.                                                           *)
(***************************************************************************)
EXTENDS HttpServer

CONSTANTS
    Workers,   \* verify_workers
    Capacity   \* verify_capacity

VARIABLES
    queue, running, done, cancelled, inFlight   \* the pool, by token

pool == <<queue, running, done, cancelled, inFlight>>
vars == <<http, pool>>

Pool == INSTANCE BoundedWorkPool WITH stopped <- FALSE

Init ==
    /\ HttpInit
    /\ queue = <<>> /\ running = {} /\ done = <<>> /\ cancelled = {} /\ inFlight = 0

(* LoginVerifyDispatcher::dispatch.                                        *)
dispatch(kind, token, status) ==
    \/ kind = "none" /\ UNCHANGED pool
    \/ kind = "plain" /\ status = "200" /\ UNCHANGED pool
    \/ kind = "verify" /\ status = "deferred" /\ Pool!Accept(token)
    \/ kind = "verify" /\ status = "503" /\ inFlight >= Capacity /\ UNCHANGED pool

Parse == ParseStep(dispatch)

(* tick: a result that was drained is completed; if its connection is gone *)
(* the answer is dropped.                                                  *)
Drain ==
    /\ done # <<>>
    /\ complete(Head(done))
    /\ Pool!TakeResults(1)

ClientStep ==
    /\ \E c \in Clients :
         \/ Connect(c) \/ ShutsWrite(c) \/ Breaks(c)
         \/ \E n \in 1..UnitsTo(c, Len(Script[c])) : Sends(c, n)
    /\ UNCHANGED pool

ClientReads(c) == Reads(c) /\ UNCHANGED pool
Accepts(c)     == Accept(c) /\ UNCHANGED pool
Serves(h)      == service_connection(h) /\ UNCHANGED pool
Flush          == FlushStep /\ UNCHANGED pool
Expire         == (\E h \in Descriptors : Sweep(h)) /\ UNCHANGED pool
TakeJob        == Pool!Take /\ UNCHANGED http
FinishJob      == (\E t \in running : Pool!Finish(t)) /\ UNCHANGED http

Next ==
    \/ ClientStep \/ Expire \/ Parse \/ Flush \/ Drain \/ TakeJob \/ FinishJob
    \/ \E c \in Clients : ClientReads(c) \/ Accepts(c)
    \/ \E h \in Descriptors : Serves(h)

(* The service ticks for ever and serves every ready descriptor, the       *)
(* workers work, and a client reads what has arrived.                      *)
Fairness ==
    /\ WF_vars(Parse) /\ WF_vars(Flush) /\ WF_vars(Drain)
    /\ WF_vars(TakeJob) /\ WF_vars(FinishJob)
    /\ \A c \in Clients : WF_vars(ClientReads(c)) /\ SF_vars(Accepts(c))
    /\ \A h \in Descriptors : SF_vars(Serves(h))

Spec == Init /\ [][Next]_vars /\ Fairness

-----------------------------------------------------------------------------
(* reject_and_close: an answer after which no request is answered; the     *)
(* connection still reads, so that one refusal may follow another.         *)
Refusal(answer) == answer.status \in {"400", "431"}
Refused(answers) == \E i \in 1..Len(answers) : Refusal(answers[i])

(* Every answer is for c: to its requests in their order, then refusals.   *)
InOrder(answers, c) ==
    \A i \in 1..Len(answers) :
        /\ answers[i].to = c
        /\ \/ answers[i].n = i
           \/ Refusal(answers[i]) /\ \E j \in 1..(i - 1) : Refusal(answers[j])

(* A client gets the answers to its own requests, in their order, though   *)
(* answers are deferred, descriptors are used again and tokens outlive     *)
(* their connections (close_connection, complete); and nothing but         *)
(* refusals follow a refusal.                                              *)
OwnAnswers ==
    \A c \in Clients :
        /\ InOrder(client[c].got, c)
        /\ \A i, j \in 1..Len(client[c].got) :
               i < j /\ Refusal(client[c].got[i]) => Refusal(client[c].got[j])

(* The requests of a client that must be answered: all up to the first     *)
(* that asks for the connection to be closed, and those before one that    *)
(* cannot be parsed (whose refusal is dropped if the output is full).      *)
Due(c) ==
    Max({0} \cup {n \in 1..Len(Script[c]) :
          /\ \A i \in 1..n : Script[c][i].kind # "bad"
          /\ \A i \in 1..(n - 1) : Script[c][i].keep})

(* A request that was sent is answered, also when the client has closed    *)
(* its writing side meanwhile, unless the connection broke, expired or     *)
(* overran a limit (flush_and_settle, update_interest).                    *)
EventuallyAnswered ==
    \A c \in Clients : \A n \in 1..Due(c) :
        (client[c].stage = "linked" /\ client[c].sent >= UnitsTo(c, n))
          ~> \/ Len(client[c].got) >= n
             \/ \E i \in 1..Len(client[c].got) : client[c].got[i].status = "431"
             \/ client[c].ended \in {"broken", "expired", "overflow", "handshake"}
=============================================================================
