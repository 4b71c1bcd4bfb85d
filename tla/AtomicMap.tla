----------------------------- MODULE AtomicMap -----------------------------
(***************************************************************************)
(* What src/COCURRENTHASHMAP.c promises to the threads that share a map:   *)
(* between its call and its return, every operation takes effect in one    *)
(* step on one map from keys to values.                                    *)
(***************************************************************************)
CONSTANTS Threads, Keys, Values,
          NoValue      \* no value for a key, no answer, no request

VARIABLES map,       \* map[k]: the value of k, or NoValue
          status,    \* status[t]: "idle", "called" or "returning"
          request,   \* request[t]: the operation t has called
          answer     \* answer[t]: what it is going to return

mapVars == <<map, status, request, answer>>

Requests == [op : {"insert", "get", "remove"}, key : Keys, value : Values]

Init ==
    /\ map = [k \in Keys |-> NoValue]
    /\ status = [t \in Threads |-> "idle"]
    /\ request = [t \in Threads |-> NoValue]
    /\ answer = [t \in Threads |-> NoValue]

Call(t) ==
    /\ status[t] = "idle"
    /\ status' = [status EXCEPT ![t] = "called"]
    /\ \E r \in Requests : request' = [request EXCEPT ![t] = r]
    /\ UNCHANGED <<map, answer>>

\* All three answer with the value that the key had until now.
Effect(t) ==
    /\ status[t] = "called"
    /\ status' = [status EXCEPT ![t] = "returning"]
    /\ answer' = [answer EXCEPT ![t] = map[request[t].key]]
    /\ map' = CASE request[t].op = "insert" -> [map EXCEPT ![request[t].key] = request[t].value]
                [] request[t].op = "remove" -> [map EXCEPT ![request[t].key] = NoValue]
                [] request[t].op = "get" -> map
    /\ UNCHANGED request

Return(t) ==
    /\ status[t] = "returning"
    /\ status' = [status EXCEPT ![t] = "idle"]
    /\ request' = [request EXCEPT ![t] = NoValue]
    /\ answer' = [answer EXCEPT ![t] = NoValue]
    /\ UNCHANGED map

\* map_destroy: the map is gone, and with it what it held.
Destroy ==
    /\ \A t \in Threads : status[t] = "idle"
    /\ map' = [k \in Keys |-> NoValue]
    /\ UNCHANGED <<status, request, answer>>

Next == Destroy \/ \E t \in Threads : Call(t) \/ Effect(t) \/ Return(t)

Spec == Init /\ [][Next]_mapVars

=============================================================================
