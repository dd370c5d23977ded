---------------------------- MODULE FixedWindow ----------------------------
(***************************************************************************)
(* What a rate-limit store promises (ratelimit.Store): every key has a     *)
(* window of at most Window, in which at most Limit attempts are granted.  *)
(* A window is forgotten only when it has ended or when it is reset.       *)
(***************************************************************************)
EXTENDS Integers

CONSTANTS Keys, Limit, Window

VARIABLES now,    \* real time
          used,   \* attempts granted in the key's window
          end,    \* when the window ends; 0: the key has none
          resets  \* how often the caller has reset the key

vars == <<now, used, end, resets>>

Init ==
    /\ now = 1
    /\ used = [k \in Keys |-> 0]
    /\ end = [k \in Keys |-> 0]
    /\ resets = [k \in Keys |-> 0]

Over(k) == now >= end[k]

\* The windows of S, all over, are forgotten.
Without(S) == [k \in Keys |-> IF k \in S THEN 0 ELSE end[k]]
UsedWithout(S) == [k \in Keys |-> IF k \in S THEN 0 ELSE used[k]]

Expire ==
    \E S \in SUBSET {k \in Keys : Over(k)} :
        end' = Without(S) /\ used' = UsedWithout(S) /\ UNCHANGED <<now, resets>>

\* An attempt in a running window, or the first of a new one.
Grant(k) ==
    \E S \in SUBSET {j \in Keys \ {k} : Over(j)} :
        \/ /\ end[k] # 0 /\ used[k] < Limit
           /\ used' = [UsedWithout(S) EXCEPT ![k] = @ + 1]
           /\ end' = Without(S)
           /\ UNCHANGED <<now, resets>>
        \/ /\ Over(k)
           /\ \E last \in 1 .. now + Window : end' = [Without(S) EXCEPT ![k] = last]
           /\ used' = [UsedWithout(S) EXCEPT ![k] = 1]
           /\ UNCHANGED <<now, resets>>

Reset(k) ==
    /\ end' = [end EXCEPT ![k] = 0]
    /\ used' = [used EXCEPT ![k] = 0]
    /\ resets' = [resets EXCEPT ![k] = @ + 1]
    /\ now' = now

Tick == now' = now + 1 /\ UNCHANGED <<used, end, resets>>

Next == Expire \/ Tick \/ \E k \in Keys : Grant(k) \/ Reset(k)

Spec == Init /\ [][Next]_vars
=============================================================================
