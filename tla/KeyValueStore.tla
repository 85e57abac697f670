---------------------------- MODULE KeyValueStore ----------------------------
(***************************************************************************)
(* What a client of ConcurrentHashTable may rely on: a linearizable map.   *)
(* Every get() and put() takes effect at one instant between its call and  *)
(* its return (README.md: "Strongly consistent, writes take effect as      *)
(* immediately as possible").  put() may fail, and then changes nothing;   *)
(* get() of a key never stored answers the empty string.                   *)
(***************************************************************************)
CONSTANTS Threads, Keys, Values,
          Empty          \* the empty string: hash_table.hpp:69

VARIABLES store,         \* [Keys -> value]: what an instantaneous get() answers
          status,        \* "idle", "called" or, once it took effect, "done"
          request,       \* the call each thread is inside, or NoRequest
          answer         \* what it will return; Empty until it took effect

kvVars == <<store, status, request, answer>>

NoRequest == [op |-> "none"]
Requests  == [op : {"get"}, key : Keys] \cup [op : {"put"}, key : Keys, value : Values]

Init ==
    /\ store   = [k \in Keys |-> Empty]
    /\ status  = [t \in Threads |-> "idle"]
    /\ request = [t \in Threads |-> NoRequest]
    /\ answer  = [t \in Threads |-> Empty]

Invoke(t, r) ==
    /\ status[t] = "idle"
    /\ status'  = [status EXCEPT ![t] = "called"]
    /\ request' = [request EXCEPT ![t] = r]
    /\ UNCHANGED <<store, answer>>

\* The call of thread t takes effect now, and a is what it answers.
TakesEffect(t, op, a) ==
    /\ status[t] = "called" /\ request[t].op = op
    /\ status' = [status EXCEPT ![t] = "done"]
    /\ answer' = [answer EXCEPT ![t] = a]
    /\ UNCHANGED request

Read(t) ==
    /\ TakesEffect(t, "get", store[request[t].key])
    /\ UNCHANGED store

Write(t) ==
    /\ TakesEffect(t, "put", "stored")
    /\ store' = [store EXCEPT ![request[t].key] = request[t].value]

\* No block is large enough: put() answers false and the map is as it was.
Refuse(t) ==
    /\ TakesEffect(t, "put", "refused")
    /\ UNCHANGED store

Return(t) ==
    /\ status[t] = "done"
    /\ status'  = [status EXCEPT ![t] = "idle"]
    /\ request' = [request EXCEPT ![t] = NoRequest]
    /\ answer'  = [answer EXCEPT ![t] = Empty]
    /\ UNCHANGED store

Next ==
    \E t \in Threads :
        \/ \E r \in Requests : Invoke(t, r)
        \/ Read(t) \/ Write(t) \/ Refuse(t) \/ Return(t)

Spec == Init /\ [][Next]_kvVars
=============================================================================
