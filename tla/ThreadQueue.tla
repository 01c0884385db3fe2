---------------------------- MODULE ThreadQueue ----------------------------
(***************************************************************************)
(* What a thread promises of the prompts it is given: a prompt it has      *)
(* acknowledged waits until the agent gets it or the user withdraws it,    *)
(* one of the two and once; no prompt that waits disappears, none that the *)
(* agent got or the user withdrew comes back, and a prompt enters a turn   *)
(* only by starting one when none runs or by being steered into the one    *)
(* that does.  TurnQueue is shown to implement it.                         *)
(***************************************************************************)
CONSTANTS
    Prompts,    \* everything that may be asked of the agent
    Immediate   \* queued actions: they run without a turn of the agent

VARIABLES
    waiting,    \* acknowledged prompts
    given,      \* prompts the agent got, actions that ran
    withdrawn,  \* prompts the user deleted
    busy        \* the agent's turn runs

threadVars == <<waiting, given, withdrawn, busy>>

New == Prompts \ (waiting \cup given \cup withdrawn)

ThreadInit ==
    /\ waiting = {} /\ given = {} /\ withdrawn = {}
    /\ busy = FALSE

Accept(p) ==
    /\ p \in New
    /\ waiting' = waiting \cup {p}
    /\ UNCHANGED <<given, withdrawn, busy>>

Withdraw(p) ==
    /\ p \in waiting
    /\ waiting' = waiting \ {p}
    /\ withdrawn' = withdrawn \cup {p}
    /\ UNCHANGED <<given, busy>>

\* A prompt that waits, or a new one the user sends at once.
Give(p) ==
    /\ p \in waiting \cup New
    /\ waiting' = waiting \ {p}
    /\ given' = given \cup {p}
    /\ UNCHANGED withdrawn

StartTurn(p) == Give(p) /\ ~busy /\ busy' = TRUE
SteerTurn(p) == Give(p) /\ busy /\ UNCHANGED busy
RunAction(p) == p \in Immediate /\ Give(p) /\ UNCHANGED busy

\* A turn that goes on with the thread's goal, or after a restart.
ContinueTurn == ~busy /\ busy' = TRUE /\ UNCHANGED <<waiting, given, withdrawn>>
EndThreadTurn == busy /\ busy' = FALSE /\ UNCHANGED <<waiting, given, withdrawn>>

ThreadNext ==
    \/ \E p \in Prompts :
          Accept(p) \/ Withdraw(p) \/ StartTurn(p) \/ SteerTurn(p) \/ RunAction(p)
    \/ ContinueTurn \/ EndThreadTurn

ThreadSpec == ThreadInit /\ [][ThreadNext]_threadVars

=============================================================================
