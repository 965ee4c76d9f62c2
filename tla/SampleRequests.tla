--------------------------- MODULE SampleRequests ----------------------------
(***************************************************************************)
(* The requests that sample-projects/src/main.rs serves at the same time:  *)
(* what each asks, where its handler is, what the handler has read and     *)
(* answered. Handlers run as tasks of their own and interleave at every    *)
(* await: at each call to MySQL, to Redis or to a provider.                *)
(*                                                                         *)
(* A payload has an `op` and the fields that the handler of that op looks  *)
(* at. `valid` says whether they pass the normalisations (normalize_...,   *)
(* validate_..., parse_order_detail_projection).                           *)
(***************************************************************************)
EXTENDS Naturals

CONSTANTS
    Requests,   \* the requests of a behaviour
    Absent      \* what is not there

VARIABLES
    database,   \* state.database is configured
    redis,      \* state.redis is configured
    asked,      \* asked[r]: the payload of request r
    stage,      \* stage[r]: where its handler is
    seen,       \* seen[r]: what the handler has read and still uses
    answer      \* answer[r]: [status, body]

reqVars == <<asked, stage, seen, answer>>

OrderOps == {"create", "get", "update", "list"}

Needed(op) ==
    [database |-> op \in {"get", "update", "list", "register", "login", "me"},
     redis |-> op \in {"login", "me", "sms", "pay", "callback"}]

Available(op) ==
    (Needed(op).database => database) /\ (Needed(op).redis => redis)

RequestsInit ==
    /\ asked = [r \in Requests |-> Absent]
    /\ stage = [r \in Requests |-> "idle"]
    /\ seen = [r \in Requests |-> Absent]
    /\ answer = [r \in Requests |-> Absent]

\* A request comes in and its handler is entered.
Ask(r, payload) ==
    /\ stage[r] = "idle"
    /\ asked' = [asked EXCEPT ![r] = payload]
    /\ stage' = [stage EXCEPT ![r] = "asked"]
    /\ UNCHANGED <<seen, answer>>

\* The handler goes on to its next await with what it knows.
GoTo(r, next, known) ==
    /\ stage' = [stage EXCEPT ![r] = next]
    /\ seen' = [seen EXCEPT ![r] = known]
    /\ UNCHANGED <<asked, answer>>

Reply(r, status, body) ==
    /\ stage' = [stage EXCEPT ![r] = "answered"]
    /\ seen' = [seen EXCEPT ![r] = Absent]
    /\ answer' = [answer EXCEPT ![r] = [status |-> status, body |-> body]]
    /\ UNCHANGED asked

Refuse(r, status) == Reply(r, status, Absent)

\* A call to MySQL or Redis that fails: ApiError::internal.
Breaks(r) == Refuse(r, 500)

At(r, op, where) == stage[r] = where /\ asked[r].op = op

\* The handler is past what it checks before its first await.
Accepted(r, op) == At(r, op, "asked") /\ Available(op) /\ asked[r].valid

\* The guards at the head of the handlers: 503, and 400 for a bad field.
Unavailable(r) ==
    /\ stage[r] = "asked"
    /\ ~Available(asked[r].op)
    /\ Refuse(r, 503)

BadRequest(r) ==
    /\ stage[r] = "asked"
    /\ Available(asked[r].op)
    /\ ~asked[r].valid
    /\ Refuse(r, 400)
=============================================================================
