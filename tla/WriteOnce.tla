----------------------------- MODULE WriteOnce -----------------------------
(***************************************************************************)
(* What the checkpoint table promises the callers of one workflow: a       *)
(* position is given a result once, every answer that carries a value      *)
(* carries that result, and results disappear only all together.           *)
(***************************************************************************)
CONSTANTS Position, Value, Caller, None

VARIABLES
  result,         \* the result of each position, or None
  answer          \* what each caller was last told, or None

vars == <<result, answer>>

Answer == [position : Position, value : Value]

Init ==
  /\ result = [p \in Position |-> None]
  /\ answer = [c \in Caller |-> None]

Write(p, v) ==
  /\ result[p] = None
  /\ result' = [result EXCEPT ![p] = v]
  /\ UNCHANGED answer

Tell(c, p) ==
  /\ result[p] # None
  /\ answer' = [answer EXCEPT ![c] = [position |-> p, value |-> result[p]]]
  /\ UNCHANGED result

\* The caller whose write is the first is told at once.
Claim(c, p, v) ==
  /\ result[p] = None
  /\ result' = [result EXCEPT ![p] = v]
  /\ answer' = [answer EXCEPT ![c] = [position |-> p, value |-> v]]

\* The caller asks for something else.
Forget(c) ==
  /\ answer' = [answer EXCEPT ![c] = None]
  /\ UNCHANGED result

Purge ==
  /\ result' = [p \in Position |-> None]
  /\ UNCHANGED answer

Next ==
  \/ \E p \in Position, v \in Value : Write(p, v)
  \/ \E c \in Caller, p \in Position, v \in Value : Claim(c, p, v)
  \/ \E c \in Caller, p \in Position : Tell(c, p)
  \/ \E c \in Caller : Forget(c)
  \/ Purge

Spec == Init /\ [][Next]_vars
=============================================================================
