-------------------------- MODULE CommandService --------------------------
(***************************************************************************)
(* What the command interface promises a TCP client: every request it      *)
(* sends is executed exactly once, and then answered with the response to  *)
(* that very request.  The promise is void once it is broken: a wait that  *)
(* returned early leaves nothing to rely on.                               *)
(***************************************************************************)
EXTENDS Naturals

CONSTANTS Client, Request, Nothing

VARIABLES asked,     \* asked[c]: the request c waits for, or Nothing
          executed,  \* executed[c]: it has been executed
          answer,    \* answer[c]: the last answer c was sent
          broken     \* nothing is promised any more

Init == /\ asked = [c \in Client |-> Nothing]
        /\ executed = [c \in Client |-> 0]
        /\ answer = [c \in Client |-> Nothing]
        /\ broken = FALSE

Ask(c, r) == /\ asked[c] = Nothing
             /\ asked' = [asked EXCEPT ![c] = r]
             /\ UNCHANGED <<executed, answer>>

Execute(c) == /\ asked[c] # Nothing /\ executed[c] = 0
              /\ executed' = [executed EXCEPT ![c] = 1]
              /\ UNCHANGED <<asked, answer>>

Answer(c) == /\ executed[c] = 1
             /\ answer' = [answer EXCEPT ![c] = asked[c]]
             /\ asked' = [asked EXCEPT ![c] = Nothing]
             /\ executed' = [executed EXCEPT ![c] = 0]

Serve == \E c \in Client : \/ \E r \in Request : Ask(c, r)
                           \/ Execute(c)
                           \/ Answer(c)

Next == \/ ~broken /\ Serve /\ UNCHANGED broken
        \/ broken'

Spec == Init /\ [][Next]_<<asked, executed, answer, broken>>
=============================================================================
