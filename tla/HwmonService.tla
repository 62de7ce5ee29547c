--------------------------- MODULE HwmonService ---------------------------
(***************************************************************************)
(* What the kernel driver promises the callers of its three IOCTLs,        *)
(* without spin locks, ports, page mappings or structured exception        *)
(* handling: a request is pending until it gets ONE reply, and the reply   *)
(* is one of those the wire protocol permits for that request, whatever    *)
(* the other callers do at the same time.  What is permitted is what the   *)
(* header and README.md promise, and the three named deviations from it.   *)
(***************************************************************************)
EXTENDS HwmonIoctl

VARIABLES
    pending,   \* pending[t]: the call of t that has no reply yet
    reply      \* reply[t]: the reply t has not looked at yet

serviceVars == <<pending, reply>>

ServiceInit ==
    /\ pending = [t \in Threads |-> NoRequest]
    /\ reply = [t \in Threads |-> NoReply]

Call(t, r) ==
    /\ pending[t] = NoRequest /\ reply[t] = NoReply
    /\ pending' = [pending EXCEPT ![t] = r]
    /\ UNCHANGED reply

Reply(t) ==
    /\ pending[t] # NoRequest
    /\ \E a \in Permitted(pending[t]) : reply' = [reply EXCEPT ![t] = a]
    /\ pending' = [pending EXCEPT ![t] = NoRequest]

Consume(t) ==
    /\ reply[t] # NoReply
    /\ reply' = [reply EXCEPT ![t] = NoReply]
    /\ UNCHANGED pending

ServiceNext ==
    \E t \in Threads :
        \/ \E r \in Requests : Call(t, r)
        \/ Reply(t)
        \/ Consume(t)

ServiceSpec == ServiceInit /\ [][ServiceNext]_serviceVars
=============================================================================
